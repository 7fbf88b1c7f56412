------------------------------ MODULE SoloViews -----------------------------
(***************************************************************************)
(* What clients show of a channel's transmit queue.                        *)
(*                                                                         *)
(* The server sends the queue with SERVER_UPDATECHANNEL only, and the      *)
(* client keeps what it was sent last. "shown" is the queue as the client  *)
(* of one user shows it, the Observer, who stays logged in throughout and  *)
(* sees the channel.                                                       *)
(***************************************************************************)
EXTENDS SoloTransmit

CONSTANT Observer

ASSUME ObserverAssumption == Observer \in User

VARIABLE shown   \* m_transmitqueue of the client's copy of the channel

viewVars == <<exists, prop, members, queue, last, active, blocked, start,
              onAir, shown>>

\* DoUpdateChannel to the users of Told. The queue is part of it where the
\* channel has type CHANNEL_SOLO_TRANSMIT.
UpdateSent(Told) ==
    shown' = IF Observer \in Told /\ prop'.solo THEN queue' ELSE shown

\* UserLeaveChannel tells those who stay when the queue has changed.
ToldOfChange == IF queue' # queue THEN members' ELSE {}

\* Packets tell the members of a change they make to the queue; a denied video
\* or desktop packet, or a denied channel message, changes it and tells nobody.
ViewPacket ==
    \/ QuietPacket /\ UNCHANGED shown
    \/ AudioPacket /\ UpdateSent(IF prop.solo THEN ToldOfChange ELSE {})

\* HandleAddChannel shows an empty queue. Joining tells of the queue only if the
\* new member becomes an operator, and then everybody.
ViewCommand ==
    \/ \E U \in {{}} \cup {{u} : u \in User}, s \in Settings :
          Create(U, s) /\ shown' = <<>>
    \/ \E u \in User, makeop \in BOOLEAN :
          Join(u) /\ UpdateSent(IF makeop THEN User ELSE {})
    \/ \E u \in User : Leave(u) /\ UpdateSent(ToldOfChange)
    \/ RemoveChannel /\ UNCHANGED shown
    \/ \E s \in Settings : UpdateChannel(s) /\ UpdateSent(User)

\* Mutant: the timer's changes are told to nobody.
ViewSweepUntold == UpdateSoloTransmitChannels /\ UNCHANGED shown

ViewSweep == UpdateSoloTransmitChannels /\ UpdateSent(ToldOfChange)

ViewInit == Init /\ shown = <<>>
ViewNext == ViewPacket \/ ViewCommand \/ ViewSweep \/ (Tick /\ UNCHANGED shown)
ViewSpec == ViewInit /\ [][ViewNext]_viewVars
ViewFairSpec == ViewSpec /\ WF_vars(Tick) /\ WF_vars(UpdateSoloTransmitChannels)

-----------------------------------------------------------------------------

\* A member of the channel is shown every change of the queue as it happens,
\* whoever changes it: audio packets, leaves, kicks, updates or the timer. Denied
\* video and desktop packets and messages are excepted: their changes go untold.
MemberShownChanges ==
    [][/\ ~QuietPacket
       /\ exists /\ exists' /\ prop'.solo
       /\ Observer \in members \cap members'
       /\ queue' # queue
       => shown' = queue']_viewVars
=============================================================================
