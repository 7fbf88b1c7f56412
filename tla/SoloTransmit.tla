---------------------------- MODULE SoloTransmit ----------------------------
(***************************************************************************)
(* Who may transmit in a channel: ServerChannel::CanTransmit.              *)
(*                                                                         *)
(* In a channel of type CHANNEL_SOLO_TRANSMIT users queue for the floor    *)
(* with their voice and media file packets: the head of the queue is heard *)
(* and keeps the floor until it has been silent for the switch delay. The  *)
(* module follows one channel, from the command that creates it to its     *)
(* removal, and the packets the server receives for it. Packets arrive on  *)
(* the UDP thread, commands and the one second timer run on the TCP        *)
(* thread; each holds the server lock throughout, so each is one step.     *)
(*                                                                         *)
(* Time passes in ticks. For every packet the model keeps its age, up to   *)
(* MaxAge, after which a packet is older than any delay or limit asks for. *)
(***************************************************************************)
EXTENDS Integers, Queues

CONSTANTS
    User,       \* ids of logged in users
    Admin,      \* those who are administrators: they may send from outside
    Server,     \* SERVER_USERID, the sender the one second timer pretends to be
    Everyone,   \* TRANSMITUSERS_FREEFORALL
    AudioType,  \* the stream types that queue: "voice" and "mediafile"
    StreamId,   \* ids of streams, 0 excepted
    Settings,   \* the properties a channel may be given
    MaxAge,     \* the age beyond which packets are not told apart
    None        \* the null time

\* Video and desktop packets and channel messages never queue.
QuietType == {"video", "message"}
StreamType == AudioType \cup QuietType

\* ChannelProp: "listed" is transmitusers, "delay" the switch delay, "limit" the
\* time out timers of voice and media files, 0 for none.
ChannelProp == [solo : BOOLEAN, classroom : BOOLEAN, permanent : BOOLEAN,
                listed : [StreamType -> SUBSET (User \cup {Everyone})],
                delay : Nat, limit : [AudioType -> Nat]]

ASSUME UserAssumption ==
    /\ Admin \subseteq User
    /\ Server \notin User
    /\ Everyone \notin User \cup {Server}
ASSUME StreamAssumption ==
    /\ "voice" \in AudioType
    /\ AudioType \subseteq {"voice", "mediafile"}
    /\ StreamId \subseteq Nat \ {0}
ASSUME SettingsAssumption == Settings \subseteq ChannelProp
ASSUME AgeAssumption ==
    /\ MaxAge \in Nat
    /\ None \notin Nat
    /\ \A s \in Settings :
          s.delay < MaxAge /\ \A t \in AudioType : s.limit[t] <= MaxAge

VARIABLES
    exists,   \* whether the channel is in the tree
    prop,     \* its properties
    members,  \* m_mUsers
    queue,    \* m_transmitqueue
    last,     \* m_lastUserPacket: the age of each user's last packet, or None
    active,   \* m_activeStreams, 0 for no entry
    blocked,  \* m_blockStreams, 0 for no entry
    start,    \* m_streamstart: the age of each stream, MaxAge for no entry
    onAir     \* history: streams whose last packet the server let through

vars == <<exists, prop, members, queue, last, active, blocked, start, onAir>>

Age == 0..MaxAge
Queued == ToSet(queue)
NoStreams == [t \in AudioType |-> 0]

-----------------------------------------------------------------------------
(* Who may transmit what. *)

\* Channel::CanTransmit: in a classroom the users listed may, elsewhere the
\* users listed may not.
Permitted(u, t) ==
    IF prop.classroom THEN {u, Everyone} \cap prop.listed[t] # {}
    ELSE u \notin prop.listed[t]

\* GetPacketChannel, and UserTextMessage alike.
MaySend(u) == exists /\ u \in members \cup Admin

\* Mutant: streams are never too long.
TimedOutNever(u, t, id) == FALSE

NewStream(u, t, id) == active[u][t] # id
TimedOut(u, t, id) ==
    /\ ~NewStream(u, t, id)
    /\ prop.limit[t] # 0
    /\ start[u][t] >= prop.limit[t]

\* m_activeStreams and m_streamstart once a packet of stream id is let in.
Noted(u, t, id) == [active EXCEPT ![u][t] = id]
Started(u, t, id) == IF NewStream(u, t, id) THEN [start EXCEPT ![u][t] = 0]
                     ELSE start

\* BlockAudioStream of each of U: they have to begin a new stream.
BlockAudioStreams(U, streams) == [u \in User |-> IF u \in U THEN streams[u]
                                                 ELSE blocked[u]]
Forgotten(U, times) == [u \in User |-> IF u \in U THEN None ELSE times[u]]
OffAir(U) == {a \in onAir : a[1] \notin U}

\* The head's last packet is older than the switch delay.
Stale(u, times) == times[u] > prop.delay

\* Mutant: the head loses its place whatever its age.
HeadAtOnce(q, times) == IF Len(q) <= 1 THEN {} ELSE {Head(q)}

\* CanTransmit calls itself until it meets a head that is not stale.
StaleHeads(q, times) ==
    {q[i] : i \in {j \in 1..Len(q) : \A k \in 1..j : Stale(q[k], times)}}

\* Those in U lose their places, and the streams they were sending.
LoseFloor(q, U, times, streams) ==
    /\ queue' = Without(q, U)
    /\ last' = Forgotten(U, times)
    /\ blocked' = BlockAudioStreams(U, streams)

-----------------------------------------------------------------------------
(* A packet or a message arrives. *)

\* The user may not send streams of this type: whatever it is, the user's place
\* in the queue is lost and its audio is blocked.
Denied(u, t, id) ==
    /\ MaySend(u)
    /\ ~Permitted(u, t)
    /\ active' = IF t \in AudioType THEN Noted(u, t, id) ELSE active
    /\ \/ prop.solo /\ LoseFloor(queue, {u}, last, active') /\ onAir' = OffAir({u})
       \/ ~prop.solo /\ UNCHANGED <<queue, last, blocked, onAir>>
    /\ UNCHANGED <<exists, prop, members, start>>

\* The stream has lasted too long. Nothing is noted of its packet.
StreamTimedOut(u, t, id) ==
    /\ MaySend(u)
    /\ Permitted(u, t)
    /\ TimedOut(u, t, id)
    /\ onAir' = onAir \ {<<u, t>>}
    /\ UNCHANGED <<exists, prop, members, queue, last, active, blocked, start>>

\* Outside channels with a queue everybody permitted is heard.
TransmitFreely(u, t, id) ==
    /\ MaySend(u)
    /\ Permitted(u, t)
    /\ ~TimedOut(u, t, id)
    /\ ~prop.solo
    /\ active' = Noted(u, t, id)
    /\ start' = Started(u, t, id)
    /\ UNCHANGED <<exists, prop, members, queue, last, blocked, onAir>>

\* The stream's user lost the floor while sending it.
StreamBlocked(u, t, id) ==
    /\ MaySend(u)
    /\ Permitted(u, t)
    /\ ~TimedOut(u, t, id)
    /\ prop.solo
    /\ blocked[u][t] = id
    /\ active' = Noted(u, t, id)
    /\ start' = Started(u, t, id)
    /\ onAir' = onAir \ {<<u, t>>}
    /\ UNCHANGED <<exists, prop, members, queue, last, blocked>>

\* Mutant: the packets of those who wait are forwarded, too.
Heard(u, q) == TRUE

\* Mutant: a newcomer goes to the head of the queue.
JumpQueue(u) == IF u \in Queued THEN queue ELSE <<u>> \o queue

\* The user queues, the stale heads go, and the user is heard if it is the head.
HeardInTurn(u, q) == Head(q) = u
QueueUp(u) == IF u \in Queued THEN queue ELSE Append(queue, u)

TransmitInTurn(u, t, id) ==
    /\ MaySend(u)
    /\ Permitted(u, t)
    /\ ~TimedOut(u, t, id)
    /\ prop.solo
    /\ blocked[u][t] # id
    /\ active' = Noted(u, t, id)
    /\ start' = Started(u, t, id)
    /\ LET times == [last EXCEPT ![u] = 0]
           stale == StaleHeads(QueueUp(u), times)
       IN /\ LoseFloor(QueueUp(u), stale, times, active')
          /\ onAir' = IF HeardInTurn(u, queue')
                      THEN OffAir(stale) \cup {<<u, t>>}
                      ELSE OffAir(stale) \ {<<u, t>>}
    /\ UNCHANGED <<exists, prop, members>>

-----------------------------------------------------------------------------
(* Commands and the timer. *)

Forget(U) ==
    /\ queue' = Without(queue, U)
    /\ last' = Forgotten(U, last)
    /\ active' = [u \in User |-> IF u \in U THEN NoStreams ELSE active[u]]
    /\ blocked' = [u \in User |-> IF u \in U THEN NoStreams ELSE blocked[u]]
    /\ start' = [u \in User |-> IF u \in U THEN [t \in AudioType |-> MaxAge]
                                ELSE start[u]]
    /\ onAir' = OffAir(U)

\* MakeChannel, by itself or for the user who joins: nobody has sent to it yet.
Create(U, s) ==
    /\ ~exists
    /\ exists' = TRUE
    /\ prop' = s
    /\ members' = U
    /\ queue' = <<>>
    /\ last' = [v \in User |-> None]
    /\ active' = [v \in User |-> NoStreams]
    /\ blocked' = [v \in User |-> NoStreams]
    /\ start' = [v \in User |-> [t \in AudioType |-> MaxAge]]
    /\ onAir' = {}

\* RemoveChannel kicks the members, one by one.
RemoveChannel ==
    /\ exists
    /\ exists' = FALSE
    /\ members' = {}
    /\ Forget(members)
    /\ UNCHANGED prop

Join(u) ==
    /\ exists
    /\ u \notin members
    /\ members' = members \cup {u}
    /\ UNCHANGED <<exists, prop, queue, last, active, blocked, start, onAir>>

\* Mutant: the user who leaves keeps the place in the queue.
LeaveQueued(u) ==
    /\ exists
    /\ u \in members
    /\ members' = members \ {u}
    /\ exists' = (members # {u} \/ prop.permanent)
    /\ UNCHANGED <<prop, queue, last, active, blocked, start, onAir>>

\* ServerChannel::RemoveUser: permissions, place and streams are forgotten; not
\* the list for channel messages. A temporary channel goes with its last user.
Leave(u) ==
    /\ exists
    /\ u \in members
    /\ members' = members \ {u}
    /\ exists' = (members # {u} \/ prop.permanent)
    /\ prop' = [prop EXCEPT !.listed =
                  [t \in StreamType |-> IF t = "message" THEN @[t] ELSE @[t] \ {u}]]
    /\ Forget({u})

\* Mutant: the queue is taken from the request, which has none.
UpdateChannelFromRequest(s) ==
    /\ exists
    /\ prop' = s
    /\ queue' = <<>>
    /\ UNCHANGED <<exists, members, last, active, blocked, start, onAir>>

\* HandleUpdateChannel fills the properties in from the channel, so the queue it
\* sets is the queue the channel has.
UpdateChannel(s) ==
    /\ exists
    /\ prop' = s
    /\ onAir' = IF s.solo THEN onAir ELSE {}
    /\ UNCHANGED <<exists, members, queue, last, active, blocked, start>>

\* Mutants: the server stays in the queue, and the timer removes nobody.
SweepStays ==
    /\ exists
    /\ prop.solo
    /\ LoseFloor(queue \o <<Server>>, StaleHeads(queue, last), last, active)
    /\ UNCHANGED <<exists, prop, members, active, start, onAir>>
SweepNothing ==
    /\ exists
    /\ UNCHANGED vars

\* UpdateSoloTransmitChannels: the server transmits nothing, as itself, so that
\* stale heads go, and leaves the queue again. Where the server is not permitted
\* to send voice nothing happens.
UpdateSoloTransmitChannels ==
    /\ exists
    /\ prop.solo
    /\ Permitted(Server, "voice")
    /\ LET stale == StaleHeads(queue, last) IN
       /\ LoseFloor(queue, stale, last, active)
       /\ onAir' = OffAir(stale)
    /\ UNCHANGED <<exists, prop, members, active, start>>

Older(a) == IF a < MaxAge THEN a + 1 ELSE a

\* A tick. A stream that has been silent for the switch delay is over.
Tick ==
    /\ last' = [u \in User |-> IF last[u] = None THEN None ELSE Older(last[u])]
    /\ start' = [u \in User |-> [t \in AudioType |-> Older(start[u][t])]]
    /\ onAir' = {a \in onAir : last'[a[1]] # None /\ ~Stale(a[1], last')}
    /\ UNCHANGED <<exists, prop, members, queue, active, blocked>>

-----------------------------------------------------------------------------

Init ==
    /\ exists = FALSE
    /\ prop \in Settings
    /\ members = {}
    /\ queue = <<>>
    /\ last = [u \in User |-> None]
    /\ active = [u \in User |-> NoStreams]
    /\ blocked = [u \in User |-> NoStreams]
    /\ start = [u \in User |-> [t \in AudioType |-> MaxAge]]
    /\ onAir = {}

\* A video or desktop packet or a channel message changes nothing if permitted.
QuietPacket == \E u \in User, t \in QuietType : Denied(u, t, 0)

AudioPacket ==
    \E u \in User, t \in AudioType, id \in StreamId :
        \/ Denied(u, t, id)
        \/ StreamTimedOut(u, t, id)
        \/ TransmitFreely(u, t, id)
        \/ StreamBlocked(u, t, id)
        \/ TransmitInTurn(u, t, id)

CommandNext ==
    \/ \E u \in User : Join(u) \/ Leave(u)
    \/ RemoveChannel
    \/ \E s \in Settings :
          \/ UpdateChannel(s)
          \/ Create({}, s)
          \/ \E u \in User : Create({u}, s)

Next == QuietPacket \/ AudioPacket \/ CommandNext \/ UpdateSoloTransmitChannels \/ Tick

Spec == Init /\ [][Next]_vars

\* Time passes and the timer fires, whatever users do.
FairSpec == Spec /\ WF_vars(Tick) /\ WF_vars(UpdateSoloTransmitChannels)
-----------------------------------------------------------------------------
(* What the floor promises. *)

\* Every variable holds a value of its kind.
TypeOK ==
    /\ exists \in BOOLEAN
    /\ prop \in ChannelProp
    /\ members \subseteq User
    /\ queue \in Seq(User)
    /\ last \in [User -> Age \cup {None}]
    /\ active \in [User -> [AudioType -> StreamId \cup {0}]]
    /\ blocked \in [User -> [AudioType -> StreamId \cup {0}]]
    /\ start \in [User -> [AudioType -> Age]]
    /\ onAir \subseteq User \X AudioType

\* A user is queued once, and has the time of a last packet exactly as long
\* as it is queued: CanTransmit looks up the head's without asking whether it is there
\* (ServerChannel.cpp:138-140).
QueueTimed ==
    exists => /\ IsInjective(queue)
              /\ \A u \in User : u \in Queued <=> last[u] # None

\* Only one user can transmit at a time (TeamTalk_DLL/TeamTalk.h:2433): whatever
\* joins, leaves, denials and timers come between packets, no two users' streams
\* are let through within the switch delay.
OneSpeaker == \A a, b \in onAir : a[1] = b[1]

\* Nobody queues who may not send to the channel: who leaves or is moved away
\* leaves the queue.
QueueOfSenders == exists => Queued \subseteq members \cup Admin

\* The head that is not silent for longer than the switch delay is never
\* interrupted by other users' packets or by the timer; it has to leave, or to
\* be denied.
KeepsFloor ==
    [][\A u \in User :
          /\ exists /\ exists'
          /\ queue # <<>> /\ Head(queue) = u /\ ~Stale(u, last)
          /\ u \in members => u \in members'
          /\ \A t \in StreamType : Permitted(u, t)
          => queue' # <<>> /\ Head(queue') = u]_vars

\* Those who wait keep their order, and newcomers wait behind them.
KeepsOrder ==
    [][exists' => \A u, v \in User :
          /\ u \in Queued
          /\ {u, v} \subseteq ToSet(queue')
          /\ v \in Queued => PlaceOf(queue, u) < PlaceOf(queue, v)
          /\ u # v
          => PlaceOf(queue', u) < PlaceOf(queue', v)]_vars

\* A head that has gone silent does not keep the floor, nor does another silent one
\* follow it for ever: the timer removes them, also when nobody else transmits
\* (ServerNode.cpp:3899-3922).
StaleHeadGoes ==
    LET stuck == exists /\ prop.solo /\ queue # <<>> /\ Stale(Head(queue), last)
    IN stuck ~> ~stuck

\* A user cannot keep the floor with one stream for longer than the channel's
\* limit (TeamTalk_DLL/TeamTalk.h:2580-2583), nor can users in turn.
LongStreamEnds ==
    LET long == exists /\ \E a \in onAir :
                    prop.limit[a[2]] # 0 /\ start[a[1]][a[2]] >= prop.limit[a[2]]
    IN long ~> ~long
=============================================================================
