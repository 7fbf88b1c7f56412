------------------------ MODULE DesktopTransmission ------------------------
(***************************************************************************)
(* Sharing a desktop: how the server brings the desktop of one user, the   *)
(* source, to another, the viewer, over UDP.                               *)
(*                                                                         *)
(* The server keeps the last complete update of the source's desktop. For  *)
(* a viewer it has at most one transmitter, which sends the packets of one *)
(* update, a few at a time, and repeats those not acknowledged. Updates    *)
(* that complete meanwhile are skipped; when the transmission is done the  *)
(* next one carries the blocks that changed since. The first packet of a   *)
(* transmission of all blocks is the only one that tells the viewer what   *)
(* session it looks at. The viewer acknowledges all packets it holds of    *)
(* the update it is at. When the source closes its desktop the server      *)
(* sends the viewer a negative acknowledgement, a "nak".                   *)
(*                                                                         *)
(* The packets in flight are two sets: any of them may arrive next, or get *)
(* lost. An update is complete at the server in one step, for the leg from *)
(* the source is left out, and a packet carries one block.                 *)
(***************************************************************************)
EXTENDS Integers, Queues

CONSTANTS
    Blocks,      \* the blocks of the desktop are 1..Blocks
    InitialTx,   \* m_tx_count of a new transmitter
    MaxWire,     \* MAX_PACKETS_ON_WIRE
    MaxHistory,  \* the updates LimitUpdateHistory() keeps
    MaxUpdate,   \* bound: updates of the source
    Changes,     \* bound: the sets of blocks an update of a session changes
    Openings,    \* bound: the updates that may open a session
    MaxAcks,     \* bound: acknowledgements in flight
    None         \* the null transmitter, desktop or closed session

ASSUME DesktopAssumption ==
    /\ Blocks \in Nat \ {0}
    /\ MaxWire \in Nat \ {0}
    /\ InitialTx \in 1..MaxWire
    /\ MaxHistory \in Nat \ {0}
    /\ MaxUpdate \in Nat
    /\ Changes \subseteq (SUBSET (1..Blocks)) \ {{}}
    /\ MaxAcks \in Nat \ {0}

Block  == 1..Blocks
Index  == 1..Blocks
Update == 1..MaxUpdate  \* in the order of their time stamps

\* A session goes by the number of its first update. "version" is the update
\* in which a block last changed.
Desktop == [session : Update, update : Update, version : [Block -> Update]]

DesktopPacket == [kind : {"desktop"}, session : Update, update : Update,
                  all : BOOLEAN, index : Index, count : Index,
                  block : Block, version : Update]
Nak == [kind : {"nak"}, session : Update]
Ack == [session : Update, update : Update, packets : SUBSET Index]
ClosedSession == [session : Update, update : Update]

Transmitter == [session : Update, update : Update, queued : SUBSET DesktopPacket,
                sent : SUBSET DesktopPacket, missing : SUBSET Index, tx : 0..MaxWire]

View == [session : Update \cup {0}, last : Update \cup {0}, expected : Index \cup {0},
         acked : SUBSET Index, screen : [Block -> Update \cup {0}],
         queue : Seq(DesktopPacket)]

ASSUME NullAssumption ==
    None \notin Transmitter /\ None \notin Desktop /\ None \notin ClosedSession

VARIABLES
    updates,     \* source: updates sent
    closing,     \* source: the session whose nak it repeats, 0 for none
    desktop,     \* server: m_desktop_cache, the last complete update of the source
    subscribed,  \* server: whether the viewer subscribes to the source's desktop
    dtx,         \* server: m_user_desktop_tx of the viewer, for the source
    rtx,         \* server: whether m_desktop_rtx_timers has their timer
    closed,      \* server: m_closed_desktops of the viewer, for the source
    naktimer,    \* server: whether TIMERSRV_CLOSE_DESKTOPSESSION_ID is started
    view,        \* viewer: the desktop of the source as it holds it
    acktimer,    \* viewer: whether USER_TIMER_DESKTOPACKPACKET_ID is started
    down,        \* in flight to the viewer
    up           \* in flight to the server

source == <<updates, closing>>
viewer == <<view, acktimer>>
vars == <<source, desktop, subscribed, dtx, rtx, closed, naktimer, viewer, down, up>>

-----------------------------------------------------------------------------
(* The transmitter. *)

Done(t) == t.queued = {} /\ t.sent = {}

\* Whether the packet tells the properties of its session.
OpensSession(p) == p.all /\ p.index = 1

\* The n packets of ps with the lowest indexes.
Lowest(n, ps) == {p \in ps : Cardinality({q \in ps : q.index < p.index}) < n}

Indexes(ps) == {p.index : p \in ps}

\* The packets for blocks bs of desktop d.
PacketsFor(d, bs, all) ==
    {[kind |-> "desktop", session |-> d.session, update |-> d.update,
      all |-> all, index |-> Cardinality({c \in bs : c =< b}),
      count |-> Cardinality(bs), block |-> b, version |-> d.version[b]] : b \in bs}

\* Mutant: after updates that were skipped, only the blocks of the last one are sent.
PacketsAfterLast(t, d) ==
    IF t # None /\ t.session = d.session
    THEN PacketsFor(d, {b \in Block : d.version[b] = d.update}, FALSE)
    ELSE PacketsFor(d, Block, TRUE)

\* What to send after the transmission t, or none: the blocks changed since,
\* if t was of this session and the history reaches back to its update.
PacketsAfter(t, d) ==
    IF /\ t # None
       /\ t.session = d.session
       /\ d.update - t.update < MaxHistory
    THEN PacketsFor(d, {b \in Block : d.version[b] > t.update}, FALSE)
    ELSE PacketsFor(d, Block, TRUE)

NewTransmitter(t, d) ==
    [session |-> d.session, update |-> d.update, queued |-> PacketsAfter(t, d),
     sent |-> {}, missing |-> {}, tx |-> InitialTx]

\* GetNextDesktopPackets(): the packets it sends, and the transmitter after.
NextPackets(t) == Lowest(t.tx, t.queued)
Advance(t) ==
    [t EXCEPT !.queued = @ \ NextPackets(t), !.sent = @ \cup NextPackets(t),
              !.tx = @ - Cardinality(NextPackets(t))]

\* ProcessDesktopAckPacket(): the acknowledged packets leave the wire and make
\* room for two more each. A hole found in the order takes room for four, but
\* leaves room for one packet when nothing else is on the wire.
Acked(t, a) == {p \in t.sent : p.index \in a.packets}
NewHoles(t, a) == ((1..Max(a.packets)) \ a.packets) \ t.missing

\* Mutant: acknowledged packets make no room.
RoomAfterAcksNone(t, a) == t.tx

\* Mutant: the room acknowledgements make is not limited by the window.
RoomAfterAcksUnlimited(t, a) == t.tx + 2 * Cardinality(Acked(t, a))

RoomAfterAcks(t, a) ==
    IF Acked(t, a) = {} THEN t.tx
    ELSE Min({t.tx + 2 * Cardinality(Acked(t, a)),
              MaxWire - Cardinality(t.sent \ Acked(t, a))})

\* Mutant: holes may take more room than there is.
RoomAfterHolesOverdrawn(t, a) ==
    RoomAfterAcks(t, a) - 4 * Cardinality(NewHoles(t, a))

RoomAfterHoles(t, a) ==
    IF NewHoles(t, a) = {} THEN RoomAfterAcks(t, a)
    ELSE Max({RoomAfterAcks(t, a) - 4 * Cardinality(NewHoles(t, a)),
              IF t.sent = Acked(t, a) THEN 1 ELSE 0})

ProcessAck(t, a) ==
    [t EXCEPT !.sent = @ \ Acked(t, a),
              !.missing = (@ \ Indexes(Acked(t, a))) \cup NewHoles(t, a),
              !.tx = RoomAfterHoles(t, a)]

\* GetDupAckLostDesktopPackets(): of the holes on the wire those sent long
\* enough ago, as many as there is room for.
Resendable(t) ==
    {ps \in SUBSET {p \in t.sent : p.index \in t.missing} :
        ps = {} \/ Cardinality(ps) =< t.tx}

-----------------------------------------------------------------------------
(* The viewer. *)

NoView == [session |-> 0, last |-> 0, expected |-> 0, acked |-> {},
           screen |-> [b \in Block |-> 0], queue |-> << >>]

\* CloseDesktopSession(): the time stamp of the last update stays.
CloseView(v) == [NoView EXCEPT !.last = v.last]

Complete(v) == Cardinality(v.acked) = v.expected

\* The viewer shows the blocks of packets ps, all of the update it is at.
Show(v, ps) ==
    [v EXCEPT !.acked = @ \cup Indexes(ps),
              !.screen = [b \in Block |-> IF \E p \in ps : p.block = b
                                          THEN (CHOOSE p \in ps : p.block = b).version
                                          ELSE @[b]]]

\* A packet for the session shown: of its update, and not a duplicate, or of a
\* newer one when the update is complete.
AddToSession(v, p) ==
    IF p.session # v.session THEN v
    ELSE IF p.update = v.last
         THEN IF p.index \in v.acked THEN v ELSE Show(v, {p})
    ELSE IF p.update > v.last /\ Complete(v)
         THEN Show([v EXCEPT !.last = p.update, !.acked = {}, !.expected = p.count], {p})
    ELSE v

\* A packet when no session is shown: it opens one, and shows what was queued
\* of the same update, or it is queued. RemoveObsoleteDesktopPackets() takes
\* the packets newer than p from the queue. A duplicate is not queued here: it
\* would make no difference.
AddToQueue(v, p) ==
    IF OpensSession(p)
    THEN Show([CloseView(v) EXCEPT !.session = p.session, !.last = p.update,
                                   !.expected = p.count],
              {p} \cup {q \in ToSet(v.queue) : q.update = p.update})
    ELSE LET newer == {q \in ToSet(v.queue) : q.update > p.update}
             rest == Without(v.queue, newer)
         IN  [v EXCEPT !.queue = IF p \in ToSet(rest) THEN rest ELSE Append(rest, p)]

\* ClientUser::AddPacket(), for a packet that is not too old.
AddPacket(v, p) ==
    LET w == IF v.session # 0 /\ p.session # v.session THEN CloseView(v) ELSE v
    IN  IF w.session = 0 THEN AddToQueue(w, p) ELSE AddToSession(w, p)

\* GetAckedDesktopPackets(): without a session, the packets at the front of the
\* queue that are of one update.
AckOf(v) ==
    IF v.session # 0
    THEN [session |-> v.session, update |-> v.last, packets |-> v.acked]
    ELSE LET front == {i \in DOMAIN v.queue :
                          \A j \in 1..i : /\ v.queue[j].session = v.queue[1].session
                                          /\ v.queue[j].update = v.queue[1].update}
         IN  [session |-> v.queue[1].session, update |-> v.queue[1].update,
              packets |-> {v.queue[i].index : i \in front}]

HasAck(v) == IF v.session # 0 THEN v.acked # {} ELSE v.queue # << >>

-----------------------------------------------------------------------------
Init ==
    /\ updates = 0
    /\ closing = 0
    /\ desktop = None
    /\ subscribed \in BOOLEAN
    /\ dtx = None
    /\ rtx = FALSE
    /\ closed = None
    /\ naktimer = FALSE
    /\ view = NoView
    /\ acktimer = FALSE
    /\ down = {}
    /\ up = {}

\* StartDesktopTransmitter() with the transmitter t, or none, in place, "timer"
\* telling of its timer, and "wire" in flight. Nothing happens while t is not
\* done, or when it was of the update the server has.
MayStart(t, d) ==
    t # None => /\ Done(t)
                /\ <<t.session, t.update>> # <<d.session, d.update>>

StartDesktopTransmitter(t, timer, d, wire) ==
    LET new == NewTransmitter(t, d) IN
    /\ dtx' = IF MayStart(t, d) THEN Advance(new) ELSE t
    /\ rtx' = (timer \/ MayStart(t, d))
    /\ down' = wire \cup (IF MayStart(t, d) THEN NextPackets(new) ELSE {})

\* StopDesktopTransmitter(), with the timer that sends the viewer a nak.
StopDesktopTransmitter ==
    /\ closed' = IF dtx = None THEN closed
                 ELSE [session |-> dtx.session, update |-> dtx.update]
    /\ dtx' = None
    /\ rtx' = FALSE
    /\ naktimer' = TRUE

\* Another update of the source is complete at the server. A transmitter of an
\* earlier session is dropped.
Forward(wire) ==
    IF subscribed
    THEN LET current == dtx # None /\ dtx.session = desktop'.session IN
         StartDesktopTransmitter(IF current THEN dtx ELSE None, current /\ rtx, desktop', wire)
    ELSE down' = wire /\ UNCHANGED <<dtx, rtx>>

\* The source sends an update in which blocks bs changed.
SendUpdate(bs) ==
    /\ updates < MaxUpdate  \* bound
    /\ desktop # None
    /\ closing = 0
    /\ updates' = updates + 1
    /\ desktop' = [desktop EXCEPT !.update = updates',
                       !.version = [b \in Block |-> IF b \in bs THEN updates' ELSE @[b]]]
    /\ Forward(down)
    /\ UNCHANGED <<closing, subscribed, closed, naktimer, viewer, up>>

\* The source opens another session: the first, one after it closed the last,
\* or one of another window size. It no longer repeats its nak. Bound: packets
\* of the last session do not arrive after this one is complete at the server.
OpenSession ==
    /\ updates < MaxUpdate /\ updates + 1 \in Openings  \* bounds
    /\ updates' = updates + 1
    /\ closing' = 0
    /\ desktop' = [session |-> updates', update |-> updates',
                   version |-> [b \in Block |-> updates']]
    /\ Forward(down \cap Nak)
    /\ UNCHANGED <<subscribed, closed, naktimer, viewer, up>>

\* The source closes its desktop, and starts to send its nak.
CloseSession ==
    /\ desktop # None
    /\ closing = 0
    /\ closing' = desktop.session
    /\ UNCHANGED <<updates, desktop, subscribed, dtx, rtx, closed, naktimer, viewer, down, up>>

\* ReceivedDesktopNakPacket() at the server. The source repeats its nak until
\* the acknowledgement of one arrives.
ReceiveSourceNak ==
    /\ closing # 0
    /\ closing' \in {closing, 0}
    /\ desktop' = IF desktop # None /\ desktop.session = closing THEN None ELSE desktop
    /\ IF subscribed THEN StopDesktopTransmitter ELSE UNCHANGED <<dtx, rtx, closed, naktimer>>
    /\ UNCHANGED <<updates, subscribed, viewer, down, up>>

\* TIMERSRV_CLOSE_DESKTOPSESSION_ID
SendNak ==
    /\ naktimer
    /\ naktimer' = FALSE
    /\ down' = down \cup (IF closed = None THEN {}
                          ELSE {[kind |-> "nak", session |-> closed.session]})
    /\ UNCHANGED <<source, desktop, subscribed, dtx, rtx, closed, viewer, up>>

\* Mutant: the timer repeats a packet once.
RetransmitOnce ==
    /\ rtx
    /\ rtx' = FALSE
    /\ down' = down \cup Lowest(1, dtx.sent)
    /\ UNCHANGED <<source, desktop, subscribed, dtx, closed, naktimer, viewer, up>>

\* RetransmitDesktopPackets(): the lowest packet on the wire; if none is, one
\* that is queued.
RetransmitDesktopPackets ==
    /\ rtx
    /\ rtx' = (dtx # None)
    /\ down' = down \cup (IF dtx = None THEN {}
                          ELSE Lowest(1, IF dtx.sent # {} THEN dtx.sent ELSE dtx.queued))
    /\ UNCHANGED <<source, desktop, subscribed, dtx, closed, naktimer, viewer, up>>

\* ReceivedDesktopAckPacket(), without a transmitter of the session: the answer
\* to a nak, or one is sent.
ReceiveOldAck(a) ==
    /\ dtx # None => dtx.session # a.session
    /\ IF dtx = None /\ closed = [session |-> a.session, update |-> a.update]
       THEN closed' = None /\ UNCHANGED down
       ELSE down' = down \cup {[kind |-> "nak", session |-> a.session]} /\ UNCHANGED closed
    /\ UNCHANGED <<dtx, rtx>>

\* With a transmitter of the session. Holes are sent again, and then what else
\* there is room for. When all is acknowledged the timer stops and the next
\* transmission starts.
ReceiveAck(a) ==
    /\ dtx # None
    /\ dtx.session = a.session
    /\ IF dtx.update # a.update THEN UNCHANGED <<dtx, rtx, down>>
       ELSE LET t == ProcessAck(dtx, a) IN
            \E lost \in Resendable(t) :
                LET u == [t EXCEPT !.tx = @ - Cardinality(lost)]
                    n == Advance(u)
                    wire == down \cup lost \cup NextPackets(u)
                IN  IF Done(n) /\ desktop # None
                    THEN StartDesktopTransmitter(n, FALSE, desktop, wire)
                    ELSE dtx' = n /\ rtx' = (rtx /\ ~Done(n)) /\ down' = wire
    /\ UNCHANGED closed

ReceiveAtServer ==
    \E a \in up :
        /\ up' = up \ {a}
        /\ ReceiveOldAck(a) \/ ReceiveAck(a)
        /\ UNCHANGED <<source, desktop, subscribed, naktimer, viewer>>

\* ClientUser::AddPacket(). One who does not subscribe, and a packet older than
\* the update it is at, are ignored.
ReceivePacket(p) ==
    IF subscribed /\ p.update >= view.last
    THEN view' = AddPacket(view, p) /\ acktimer' = TRUE
    ELSE UNCHANGED viewer

\* ClientNode::ReceivedDesktopNakPacket()
ReceiveNak(m) ==
    IF m.session = view.session
    THEN view' = CloseView(view) /\ acktimer' = FALSE
    ELSE UNCHANGED viewer

ReceiveAtViewer ==
    \E m \in down :
        /\ IF m.kind = "nak" THEN ReceiveNak(m) ELSE ReceivePacket(m)
        /\ down' = down \ {m}
        /\ UNCHANGED <<source, desktop, subscribed, dtx, rtx, closed, naktimer, up>>

\* TimerDesktopDelayedAck()
SendAck ==
    /\ acktimer
    /\ Cardinality(up) < MaxAcks  \* bound
    /\ acktimer' = FALSE
    /\ up' = up \cup (IF HasAck(view) THEN {AckOf(view)} ELSE {})
    /\ UNCHANGED <<source, desktop, subscribed, dtx, rtx, closed, naktimer, view, down>>

\* UserSubscribe(). Bound: only when nothing is left of an earlier subscription.
Subscribe ==
    /\ ~subscribed
    /\ down = {} /\ up = {} /\ ~naktimer
    /\ subscribed' = TRUE
    /\ IF desktop # None THEN StartDesktopTransmitter(dtx, rtx, desktop, down)
       ELSE UNCHANGED <<dtx, rtx, down>>
    /\ UNCHANGED <<source, desktop, closed, naktimer, viewer, up>>

\* UserUnsubscribe(), and ResetInactiveStreams() at the viewer.
Unsubscribe ==
    /\ subscribed
    /\ subscribed' = FALSE
    /\ StopDesktopTransmitter
    /\ view' = CloseView(view)
    /\ acktimer' = FALSE
    /\ UNCHANGED <<source, desktop, down, up>>

Lose ==
    /\ \/ \E m \in down : down' = down \ {m} /\ UNCHANGED up
       \/ \E a \in up : up' = up \ {a} /\ UNCHANGED down
    /\ UNCHANGED <<source, desktop, subscribed, dtx, rtx, closed, naktimer, viewer>>

Next ==
    \/ \E bs \in Changes : SendUpdate(bs)
    \/ OpenSession
    \/ CloseSession
    \/ ReceiveSourceNak
    \/ SendNak
    \/ RetransmitDesktopPackets
    \/ ReceiveAtServer
    \/ ReceiveAtViewer
    \/ SendAck
    \/ Subscribe
    \/ Unsubscribe
    \/ Lose

Spec == Init /\ [][Next]_vars

\* The timers of the server and the viewer run, and UDP delivers something of
\* what is sent for ever.
Fairness ==
    /\ WF_vars(RetransmitDesktopPackets)
    /\ WF_vars(SendAck)
    /\ SF_vars(ReceiveAtServer)
    /\ SF_vars(ReceiveAtViewer)

FairSpec == Spec /\ Fairness

\* So do the timers of the source and of the server that end a session.
ClosingSpec == FairSpec /\ WF_vars(ReceiveSourceNak) /\ WF_vars(SendNak)

-----------------------------------------------------------------------------
\* The type invariant.
TypeOK ==
    /\ updates \in 0..MaxUpdate
    /\ closing \in 0..MaxUpdate
    /\ desktop \in Desktop \cup {None}
    /\ subscribed \in BOOLEAN
    /\ dtx \in Transmitter \cup {None}
    /\ rtx \in BOOLEAN
    /\ closed \in ClosedSession \cup {None}
    /\ naktimer \in BOOLEAN
    /\ view \in View
    /\ acktimer \in BOOLEAN
    /\ down \subseteq DesktopPacket \cup Nak
    /\ up \subseteq Ack

\* A transmission that is not done has a packet on the wire and the timer that
\* repeats it, and only such a one has the timer: it can always go on, whatever
\* was lost, whatever holes the viewer reported (TTASSERT of ServerNode.cpp:2220
\* and PacketHelper.cpp:1165).
TransmissionGoesOn ==
    /\ rtx <=> (dtx # None /\ ~Done(dtx))
    /\ rtx => dtx.sent # {}

\* The packets on the wire and those there is room for never exceed the window,
\* however acknowledgements release and holes take room (TTASSERT of
\* PacketHelper.cpp:1043 and 1123).
WindowKept == dtx # None => Cardinality(dtx.sent) + dtx.tx =< MaxWire

\* When the server takes a transmission to be done, the viewer shows every block
\* that did not change since, as it was sent: the next transmission leaves
\* these blocks out.
DoneMeansShown ==
    subscribed /\ dtx # None /\ Done(dtx) /\ desktop # None =>
        /\ view.session = desktop.session
        /\ \A b \in Block : desktop.version[b] =< dtx.update => view.screen[b] = desktop.version[b]

\* In the end, when no more updates come, a viewer who stays subscribed to a
\* desktop that is shared shows the last of it, whichever packets, and
\* whichever acknowledgements were lost.
ViewerCatchesUp ==
    <>[](subscribed /\ desktop # None /\ closing = 0)
        => <>[](desktop # None => view.screen = desktop.version)

\* The comment of the timer that closes a desktop at the viewer says that the
\* server continously notifies the user that the session has ended
\* (ServerNode.cpp:611-612): a viewer does not show a closed desktop for ever.
ClosedSessionTold ==
    <>[](subscribed /\ desktop = None) => <>[](view.session = 0)

=============================================================================
