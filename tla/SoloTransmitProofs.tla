------------------------- MODULE SoloTransmitProofs -------------------------
(***************************************************************************)
(* Proofs, for every set of users, settings, streams and every age limit,  *)
(* of what SoloTransmit promises, whatever is lasting excepted.            *)
(***************************************************************************)
EXTENDS SoloTransmit, QueuesProofs

-----------------------------------------------------------------------------
(* The inductive invariant. *)

\* While the channel exists only the head of its queue is on air.
HeadOnAir ==
    exists => \A a \in onAir : prop.solo /\ queue # <<>> /\ a[1] = Head(queue)

Inv == TypeOK /\ QueueTimed /\ QueueOfSenders /\ HeadOnAir /\ OneSpeaker

-----------------------------------------------------------------------------
(* Lemmas about the operators of the module. *)

\* The channel's properties are numbers and sets of their kind.
LEMMA PropFields ==
    ASSUME TypeOK
    PROVE  /\ prop.solo \in BOOLEAN
           /\ prop.delay \in Nat
           /\ \A t \in AudioType : prop.limit[t] \in Nat
BY DEF TypeOK, ChannelProp

\* What Without does to the queue, in the terms of this module.
LEMMA WithoutQueue ==
    ASSUME NEW q \in Seq(User), NEW U
    PROVE  /\ Without(q, U) \in Seq(User)
           /\ ToSet(Without(q, U)) = ToSet(q) \ U
           /\ IsInjective(q) => IsInjective(Without(q, U))
           /\ q # <<>> /\ Head(q) \notin U =>
                 Without(q, U) # <<>> /\ Head(Without(q, U)) = Head(q)
BY WithoutPlaces, WithoutElements, WithoutOrder, WithoutHead

\* A user who queues is in the queue, once, and those before it stay before it.
LEMMA QueueUpFacts ==
    ASSUME TypeOK, IsInjective(queue), NEW u \in User
    PROVE  /\ QueueUp(u) \in Seq(User)
           /\ QueueUp(u) # <<>>
           /\ ToSet(QueueUp(u)) = Queued \cup {u}
           /\ IsInjective(QueueUp(u))
           /\ queue # <<>> => Head(QueueUp(u)) = Head(queue)
<1>1. queue \in Seq(User)
  BY DEF TypeOK
<1>2. CASE u \in Queued
  <2>1. queue # <<>>
    BY <1>2 DEF Queued, ToSet
  <2> QED  BY <1>1, <1>2, <2>1 DEF QueueUp, Queued
<1>3. CASE u \notin Queued
  <2>1. QueueUp(u) = Append(queue, u)
    BY <1>3 DEF QueueUp
  <2>2. /\ Append(queue, u) \in Seq(User)
        /\ IsInjective(Append(queue, u))
        /\ ToSet(Append(queue, u)) = ToSet(queue) \cup {u}
        /\ queue # <<>> => Head(Append(queue, u)) = Head(queue)
    BY <1>1, <1>3, AppendOrder DEF Queued
  <2>3. Append(queue, u) # <<>>
    <3>1. Len(Append(queue, u)) = Len(queue) + 1 /\ Len(queue) \in Nat
      BY <1>1
    <3>2. Len(<<>>) = 0
      OBVIOUS
    <3> QED  BY <3>1, <3>2
  <2> QED  BY <2>1, <2>2, <2>3 DEF Queued
<1> QED  BY <1>2, <1>3

\* Stale heads are stale members of the queue. If the head is not stale there are
\* none.
LEMMA StaleHeadsFacts ==
    ASSUME NEW q \in Seq(User), NEW times
    PROVE  /\ StaleHeads(q, times) \subseteq ToSet(q)
           /\ \A u \in StaleHeads(q, times) : Stale(u, times)
           /\ q # <<>> /\ ~Stale(Head(q), times) => StaleHeads(q, times) = {}
<1>1. StaleHeads(q, times) \subseteq ToSet(q)
  BY DEF StaleHeads, ToSet
<1>2. ASSUME NEW u \in StaleHeads(q, times)  PROVE Stale(u, times)
  <2>1. PICK i \in 1..Len(q) : u = q[i] /\ \A k \in 1..i : Stale(q[k], times)
    BY <1>2 DEF StaleHeads
  <2>2. i \in 1..i
    BY <2>1
  <2> QED  BY <2>1, <2>2
<1>3. ASSUME q # <<>>, ~Stale(Head(q), times), NEW u \in StaleHeads(q, times)
      PROVE  FALSE
  <2>1. PICK i \in 1..Len(q) : u = q[i] /\ \A k \in 1..i : Stale(q[k], times)
    BY <1>3 DEF StaleHeads
  <2>2. 1 \in 1..i /\ q[1] = Head(q)
    BY <1>3
  <2> QED  BY <1>3, <2>1, <2>2
<1> QED  BY <1>1, <1>2, <1>3

\* The tables of streams keep their kind when a packet is noted, and when the
\* streams of users are blocked.
Streams == [User -> [AudioType -> StreamId \cup {0}]]

LEMMA NotedTyped ==
    ASSUME TypeOK, NEW u \in User, NEW t \in AudioType, NEW id \in StreamId
    PROVE  /\ Noted(u, t, id) \in Streams
           /\ Started(u, t, id) \in [User -> [AudioType -> Age]]
<1>1. 0 \in Age
  BY AgeAssumption DEF Age
<1>2. active \in Streams /\ start \in [User -> [AudioType -> Age]]
  BY DEF TypeOK, Streams
<1>3. Noted(u, t, id) \in Streams
  BY <1>2 DEF Noted, Streams
<1>4. [start EXCEPT ![u][t] = 0] \in [User -> [AudioType -> Age]]
  BY <1>1, <1>2
<1> QED  BY <1>2, <1>3, <1>4 DEF Started

\* Users of a queue whose times are those of its users lose the floor: so it is
\* with the queue left, and who was first stays first.
LEMMA FloorLost ==
    ASSUME TypeOK, NEW q \in Seq(User), NEW U, NEW times \in [User -> Age \cup {None}],
           NEW streams \in Streams, LoseFloor(q, U, times, streams)
    PROVE  /\ queue' \in Seq(User)
           /\ last' \in [User -> Age \cup {None}]
           /\ blocked' \in Streams
           /\ ToSet(queue') = ToSet(q) \ U
           /\ \A u \in User : last'[u] = IF u \in U THEN None ELSE times[u]
           /\ IsInjective(q) => IsInjective(queue')
           /\ q # <<>> /\ Head(q) \notin U => queue' # <<>> /\ Head(queue') = Head(q)
<1>1. queue' = Without(q, U) /\ last' = Forgotten(U, times)
      /\ blocked' = BlockAudioStreams(U, streams)
  BY DEF LoseFloor
<1>2. blocked \in Streams
  BY DEF TypeOK, Streams
<1>3. BlockAudioStreams(U, streams) \in Streams
  BY <1>2 DEF BlockAudioStreams, Streams
<1>4. Forgotten(U, times) \in [User -> Age \cup {None}]
  BY DEF Forgotten
<1>5. \A u \in User : Forgotten(U, times)[u] = IF u \in U THEN None ELSE times[u]
  BY DEF Forgotten
<1> QED  BY <1>1, <1>3, <1>4, <1>5, WithoutQueue

\* Forgetting users is losing the floor and more.
LEMMA UsersForgotten ==
    ASSUME TypeOK, NEW U, Forget(U)
    PROVE  /\ queue' \in Seq(User)
           /\ last' \in [User -> Age \cup {None}]
           /\ active' \in Streams
           /\ blocked' \in Streams
           /\ start' \in [User -> [AudioType -> Age]]
           /\ onAir' = OffAir(U)
           /\ ToSet(queue') = Queued \ U
           /\ \A u \in User : last'[u] = IF u \in U THEN None ELSE last[u]
           /\ IsInjective(queue) => IsInjective(queue')
           /\ queue # <<>> /\ Head(queue) \notin U =>
                 queue' # <<>> /\ Head(queue') = Head(queue)
<1>1. NoStreams \in [AudioType -> StreamId \cup {0}]
  BY DEF NoStreams
<1>2. [t \in AudioType |-> MaxAge] \in [AudioType -> Age]
  BY AgeAssumption DEF Age
<1>3. /\ queue \in Seq(User) /\ last \in [User -> Age \cup {None}]
      /\ active \in Streams /\ blocked \in Streams
      /\ start \in [User -> [AudioType -> Age]]
  BY DEF TypeOK, Streams
<1>4. active' \in Streams /\ blocked' \in Streams
  BY <1>1, <1>3 DEF Forget, Streams
<1>5. start' \in [User -> [AudioType -> Age]]
  BY <1>2, <1>3 DEF Forget
<1>6. last' \in [User -> Age \cup {None}]
      /\ \A u \in User : last'[u] = IF u \in U THEN None ELSE last[u]
  BY <1>3 DEF Forget, Forgotten
<1>7. queue' = Without(queue, U) /\ onAir' = OffAir(U)
  BY DEF Forget
<1> QED  BY <1>3, <1>4, <1>5, <1>6, <1>7, WithoutQueue DEF Queued

\* Whoever is on air while the channel exists is the head, so there is one speaker.
LEMMA HeadsAreOne ==
    ASSUME HeadOnAir, exists
    PROVE  OneSpeaker
BY DEF HeadOnAir, OneSpeaker
-----------------------------------------------------------------------------
(* Every action preserves the invariant. *)

LEMMA DeniedKeeps ==
    ASSUME Inv, NEW u \in User, NEW t \in StreamType, NEW id \in StreamId \cup {0},
           t \in AudioType => id \in StreamId, Denied(u, t, id)
    PROVE  Inv'
<1>1. TypeOK /\ exists
  BY DEF Inv, Denied, MaySend
<1>2. /\ UNCHANGED <<exists, prop, members, start>>
      /\ active' = IF t \in AudioType THEN Noted(u, t, id) ELSE active
  BY DEF Denied
<1>3. active' \in Streams
  BY <1>1, <1>2, NotedTyped DEF TypeOK, Streams
<1>4. CASE ~prop.solo
  <2>1. UNCHANGED <<queue, last, blocked, onAir>>
    BY <1>4 DEF Denied
  <2>2. TypeOK'
    BY <1>1, <1>2, <1>3, <2>1 DEF TypeOK, Streams
  <2> QED
    BY <1>2, <2>1, <2>2 DEF Inv, QueueTimed, QueueOfSenders, HeadOnAir, OneSpeaker, Queued
<1>5. CASE prop.solo
  <2>1. LoseFloor(queue, {u}, last, active') /\ onAir' = OffAir({u})
    BY <1>5 DEF Denied
  <2>2. queue \in Seq(User) /\ last \in [User -> Age \cup {None}]
    BY <1>1 DEF TypeOK
  <2>3. /\ queue' \in Seq(User)
        /\ last' \in [User -> Age \cup {None}]
        /\ blocked' \in Streams
        /\ ToSet(queue') = Queued \ {u}
        /\ \A v \in User : last'[v] = IF v \in {u} THEN None ELSE last[v]
        /\ IsInjective(queue) => IsInjective(queue')
        /\ queue # <<>> /\ Head(queue) \notin {u} =>
              queue' # <<>> /\ Head(queue') = Head(queue)
    BY <1>1, <1>3, <2>1, <2>2, FloorLost DEF Queued
  <2>4. OffAir({u}) \subseteq onAir /\ \A a \in OffAir({u}) : a[1] # u
    BY DEF OffAir
  <2>5. TypeOK'
    BY <1>1, <1>2, <1>3, <2>1, <2>3, <2>4 DEF TypeOK, Streams
  <2>6. QueueTimed' /\ QueueOfSenders'
    BY <1>1, <1>2, <2>3 DEF Inv, QueueTimed, QueueOfSenders, Queued
  <2>7. HeadOnAir' /\ OneSpeaker'
    BY <1>1, <1>2, <2>1, <2>3, <2>4 DEF Inv, HeadOnAir, OneSpeaker
  <2> QED  BY <2>5, <2>6, <2>7 DEF Inv
<1> QED  BY <1>4, <1>5

\* A packet of a stream that lasts too long, is blocked, or is heard without a
\* queue leaves the queue alone.
LEMMA QuietStreamKeeps ==
    ASSUME Inv, NEW u \in User, NEW t \in AudioType, NEW id \in StreamId,
           StreamTimedOut(u, t, id) \/ TransmitFreely(u, t, id) \/ StreamBlocked(u, t, id)
    PROVE  Inv'
<1>1. /\ UNCHANGED <<exists, prop, members, queue, last, blocked>>
      /\ onAir' \subseteq onAir
  BY DEF StreamTimedOut, TransmitFreely, StreamBlocked
<1>2. active' \in Streams /\ start' \in [User -> [AudioType -> Age]]
  BY NotedTyped DEF StreamTimedOut, TransmitFreely, StreamBlocked, Inv, TypeOK, Streams
<1>3. TypeOK'
  BY <1>1, <1>2 DEF Inv, TypeOK, Streams
<1> QED
  BY <1>1, <1>3 DEF Inv, QueueTimed, QueueOfSenders, HeadOnAir, OneSpeaker, Queued

\* Who queues is not stale, so it is in the queue that is left, and on air at most
\* as its head; who was on air before and is not stale is still the head.
LEMMA InTurnKeeps ==
    ASSUME Inv, NEW u \in User, NEW t \in AudioType, NEW id \in StreamId,
           TransmitInTurn(u, t, id)
    PROVE  Inv'
<1> DEFINE q == QueueUp(u)
           times == [last EXCEPT ![u] = 0]
           stale == StaleHeads(q, times)
<1>1. /\ TypeOK /\ exists /\ prop.solo /\ u \in members \cup Admin
      /\ UNCHANGED <<exists, prop, members>>
      /\ active' = Noted(u, t, id) /\ start' = Started(u, t, id)
      /\ LoseFloor(q, stale, times, active')
      /\ onAir' = IF HeardInTurn(u, queue') THEN OffAir(stale) \cup {<<u, t>>}
                  ELSE OffAir(stale) \ {<<u, t>>}
  BY DEF Inv, TransmitInTurn, MaySend
<1>2. /\ q \in Seq(User) /\ q # <<>> /\ IsInjective(q)
      /\ ToSet(q) = Queued \cup {u}
      /\ queue # <<>> => Head(q) = Head(queue)
  BY <1>1, QueueUpFacts DEF Inv, QueueTimed
<1>3. times \in [User -> Age \cup {None}] /\ times[u] = 0
      /\ \A v \in User : v # u => times[v] = last[v]
  BY <1>1, AgeAssumption DEF TypeOK, Age
<1>4. \A v \in User : v \in ToSet(q) <=> times[v] # None
  BY <1>1, <1>2, <1>3, AgeAssumption DEF Inv, QueueTimed
<1>5. active' \in Streams /\ start' \in [User -> [AudioType -> Age]]
  BY <1>1, NotedTyped
<1>6. u \notin stale
  <2>1. ~Stale(u, times)
    BY <1>1, <1>3, PropFields DEF Stale
  <2> QED  BY <1>2, <2>1, StaleHeadsFacts
<1> HIDE DEF q, times, stale
<1>7. /\ queue' \in Seq(User)
      /\ last' \in [User -> Age \cup {None}]
      /\ blocked' \in Streams
      /\ ToSet(queue') = ToSet(q) \ stale
      /\ \A v \in User : last'[v] = IF v \in stale THEN None ELSE times[v]
      /\ IsInjective(queue')
      /\ Head(q) \notin stale => queue' # <<>> /\ Head(queue') = Head(q)
  <2>1. /\ TypeOK /\ q \in Seq(User) /\ times \in [User -> Age \cup {None}]
        /\ active' \in Streams /\ LoseFloor(q, stale, times, active')
    BY <1>1, <1>2, <1>3, <1>5
  <2>2. /\ queue' \in Seq(User)
        /\ last' \in [User -> Age \cup {None}]
        /\ blocked' \in Streams
        /\ ToSet(queue') = ToSet(q) \ stale
        /\ \A v \in User : last'[v] = IF v \in stale THEN None ELSE times[v]
        /\ IsInjective(q) => IsInjective(queue')
        /\ q # <<>> /\ Head(q) \notin stale => queue' # <<>> /\ Head(queue') = Head(q)
    BY <2>1, FloorLost
  <2> QED  BY <2>2, <1>2
<1>8. OffAir(stale) \subseteq onAir /\ \A a \in OffAir(stale) : a[1] \notin stale
  BY DEF OffAir
<1>9. TypeOK'
  BY <1>1, <1>5, <1>7, <1>8 DEF TypeOK, Streams
<1>10. QueueTimed'
  BY <1>4, <1>7 DEF QueueTimed, Queued
<1>11. QueueOfSenders'
  BY <1>1, <1>2, <1>7 DEF Inv, QueueOfSenders, Queued
<1>12. \A a \in OffAir(stale) : queue' # <<>> /\ Head(queue') = a[1]
  BY <1>1, <1>2, <1>7, <1>8 DEF Inv, HeadOnAir
<1>13. queue' # <<>>
  <2>1. u \in ToSet(queue')
    BY <1>2, <1>6, <1>7
  <2>2. ToSet(<<>>) = {}
    BY DEF ToSet
  <2> QED  BY <2>1, <2>2
<1>14. \A a \in onAir' : a \in OffAir(stale) \/ (a = <<u, t>> /\ Head(queue') = u)
  BY <1>1 DEF HeardInTurn
<1>15. HeadOnAir'
  BY <1>1, <1>12, <1>13, <1>14 DEF HeadOnAir
<1>16. OneSpeaker'
  BY <1>1, <1>15 DEF HeadOnAir, OneSpeaker
<1> QED  BY <1>9, <1>10, <1>11, <1>15, <1>16 DEF Inv

LEMMA SweepKeeps ==
    ASSUME Inv, UpdateSoloTransmitChannels
    PROVE  Inv'
<1> DEFINE stale == StaleHeads(queue, last)
<1>1. /\ TypeOK /\ exists
      /\ UNCHANGED <<exists, prop, members, active, start>>
      /\ LoseFloor(queue, stale, last, active) /\ onAir' = OffAir(stale)
  BY DEF Inv, UpdateSoloTransmitChannels
<1>2. queue \in Seq(User) /\ last \in [User -> Age \cup {None}] /\ active \in Streams
  BY <1>1 DEF TypeOK, Streams
<1> HIDE DEF stale
<1>3. /\ queue' \in Seq(User)
      /\ last' \in [User -> Age \cup {None}]
      /\ blocked' \in Streams
      /\ ToSet(queue') = Queued \ stale
      /\ \A v \in User : last'[v] = IF v \in stale THEN None ELSE last[v]
      /\ IsInjective(queue) => IsInjective(queue')
      /\ queue # <<>> /\ Head(queue) \notin stale =>
            queue' # <<>> /\ Head(queue') = Head(queue)
  BY <1>1, <1>2, FloorLost DEF Queued
<1>4. OffAir(stale) \subseteq onAir /\ \A a \in OffAir(stale) : a[1] \notin stale
  BY DEF OffAir
<1>5. TypeOK'
  BY <1>1, <1>2, <1>3, <1>4 DEF TypeOK, Streams
<1>6. QueueTimed' /\ QueueOfSenders'
  BY <1>1, <1>3 DEF Inv, QueueTimed, QueueOfSenders, Queued
<1>7. HeadOnAir' /\ OneSpeaker'
  BY <1>1, <1>3, <1>4 DEF Inv, HeadOnAir, OneSpeaker
<1> QED  BY <1>5, <1>6, <1>7 DEF Inv

LEMMA CreateKeeps ==
    ASSUME Inv, NEW U \in SUBSET User, NEW s \in Settings, Create(U, s)
    PROVE  Inv'
<1>1. /\ exists' = TRUE /\ prop' = s /\ members' = U /\ queue' = <<>> /\ onAir' = {}
      /\ last' = [v \in User |-> None]
      /\ active' = [v \in User |-> NoStreams]
      /\ blocked' = [v \in User |-> NoStreams]
      /\ start' = [v \in User |-> [t \in AudioType |-> MaxAge]]
  BY DEF Create
<1>2. TypeOK'
  BY <1>1, SettingsAssumption, AgeAssumption DEF TypeOK, NoStreams, Age
<1>3. ToSet(queue') = {} /\ IsInjective(queue')
  BY <1>1 DEF ToSet, IsInjective
<1> QED
  BY <1>1, <1>2, <1>3 DEF Inv, QueueTimed, QueueOfSenders, HeadOnAir, OneSpeaker, Queued

LEMMA RemoveChannelKeeps ==
    ASSUME Inv, RemoveChannel
    PROVE  Inv'
<1>1. exists' = FALSE /\ members' = {} /\ prop' = prop /\ Forget(members)
  BY DEF RemoveChannel
<1>2. OffAir(members) \subseteq onAir
  BY DEF OffAir
<1>3. /\ queue' \in Seq(User)
      /\ last' \in [User -> Age \cup {None}]
      /\ active' \in Streams /\ blocked' \in Streams
      /\ start' \in [User -> [AudioType -> Age]]
      /\ onAir' = OffAir(members)
  BY <1>1, UsersForgotten DEF Inv
<1>4. TypeOK'
  BY <1>1, <1>2, <1>3 DEF Inv, TypeOK, Streams
<1> QED
  BY <1>1, <1>2, <1>3, <1>4 DEF Inv, QueueTimed, QueueOfSenders, HeadOnAir, OneSpeaker

LEMMA JoinKeeps ==
    ASSUME Inv, NEW u \in User, Join(u)
    PROVE  Inv'
BY DEF Inv, Join, TypeOK, QueueTimed, QueueOfSenders, HeadOnAir, OneSpeaker, Queued

\* Whoever leaves is forgotten, and its permissions with it.
LEMMA LeaveKeeps ==
    ASSUME Inv, NEW u \in User, Leave(u)
    PROVE  Inv'
<1> DEFINE listed == [t \in StreamType |-> IF t = "message" THEN prop.listed[t]
                                           ELSE prop.listed[t] \ {u}]
<1>1. /\ TypeOK /\ exists
      /\ members' = members \ {u}
      /\ exists' = (members # {u} \/ prop.permanent)
      /\ prop' = [prop EXCEPT !.listed = listed]
      /\ Forget({u})
  BY DEF Inv, Leave
<1>2. prop \in ChannelProp /\ exists' \in BOOLEAN
  BY <1>1 DEF TypeOK
<1>3. listed \in [StreamType -> SUBSET (User \cup {Everyone})]
  BY <1>2 DEF ChannelProp
<1> HIDE DEF listed
<1>4. prop' \in ChannelProp /\ prop'.solo = prop.solo
  BY <1>1, <1>2, <1>3 DEF ChannelProp
<1>5. OffAir({u}) \subseteq onAir /\ \A a \in OffAir({u}) : a[1] \notin {u}
  BY DEF OffAir
<1>6. /\ queue' \in Seq(User)
      /\ last' \in [User -> Age \cup {None}]
      /\ active' \in Streams /\ blocked' \in Streams
      /\ start' \in [User -> [AudioType -> Age]]
      /\ onAir' = OffAir({u})
      /\ ToSet(queue') = Queued \ {u}
      /\ \A v \in User : last'[v] = IF v \in {u} THEN None ELSE last[v]
      /\ IsInjective(queue) => IsInjective(queue')
      /\ queue # <<>> /\ Head(queue) \notin {u} =>
            queue' # <<>> /\ Head(queue') = Head(queue)
  BY <1>1, UsersForgotten
<1>7. TypeOK'
  BY <1>1, <1>2, <1>4, <1>5, <1>6 DEF TypeOK, Streams
<1>8. QueueTimed' /\ QueueOfSenders'
  BY <1>1, <1>6 DEF Inv, QueueTimed, QueueOfSenders, Queued
<1>9. HeadOnAir' /\ OneSpeaker'
  BY <1>1, <1>4, <1>5, <1>6 DEF Inv, HeadOnAir, OneSpeaker
<1> QED  BY <1>7, <1>8, <1>9 DEF Inv

LEMMA UpdateKeeps ==
    ASSUME Inv, NEW s \in Settings, UpdateChannel(s)
    PROVE  Inv'
BY SettingsAssumption
   DEF Inv, UpdateChannel, TypeOK, QueueTimed, QueueOfSenders, HeadOnAir, OneSpeaker, Queued

\* Time makes nobody come or go: packets get older, never lost.
LEMMA TickKeeps ==
    ASSUME Inv, Tick
    PROVE  Inv'
<1>1. \A a \in Age : Older(a) \in Age
  BY AgeAssumption DEF Age, Older
<1>2. /\ UNCHANGED <<exists, prop, members, queue, active, blocked>>
      /\ onAir' \subseteq onAir
  BY DEF Tick
<1>3. last' = [u \in User |-> IF last[u] = None THEN None ELSE Older(last[u])]
  BY DEF Tick
<1>4. last' \in [User -> Age \cup {None}]
      /\ \A u \in User : last'[u] = None <=> last[u] = None
  BY <1>1, <1>3, AgeAssumption DEF Inv, TypeOK, Age
<1>5. start' \in [User -> [AudioType -> Age]]
  BY <1>1 DEF Inv, TypeOK, Tick
<1>6. TypeOK'
  BY <1>2, <1>4, <1>5 DEF Inv, TypeOK
<1> QED
  BY <1>2, <1>4, <1>6 DEF Inv, QueueTimed, QueueOfSenders, HeadOnAir, OneSpeaker, Queued

-----------------------------------------------------------------------------
LEMMA InitInv == Init => Inv
<1> SUFFICES ASSUME Init PROVE Inv
  OBVIOUS
<1>1. MaxAge \in Age /\ <<>> \in Seq(User) /\ prop \in ChannelProp
  BY SettingsAssumption, AgeAssumption DEF Init, Age
<1>2. NoStreams \in [AudioType -> StreamId \cup {0}]
  BY DEF NoStreams
<1>3. TypeOK
  BY <1>1, <1>2 DEF Init, TypeOK
<1> QED
  BY <1>3 DEF Init, Inv, QueueTimed, QueueOfSenders, HeadOnAir, OneSpeaker

LEMMA NextInv == Inv /\ [Next]_vars => Inv'
<1> SUFFICES ASSUME Inv, [Next]_vars PROVE Inv'
  OBVIOUS
<1>1. CASE QuietPacket
  <2>1. PICK u \in User, t \in QuietType : Denied(u, t, 0)
    BY <1>1 DEF QuietPacket
  <2>2. t \in StreamType /\ t \notin AudioType
    BY StreamAssumption DEF QuietType, StreamType
  <2> QED  BY <2>1, <2>2, DeniedKeeps
<1>2. CASE AudioPacket
  <2>1. PICK u \in User, t \in AudioType, id \in StreamId :
           \/ Denied(u, t, id)
           \/ StreamTimedOut(u, t, id)
           \/ TransmitFreely(u, t, id)
           \/ StreamBlocked(u, t, id)
           \/ TransmitInTurn(u, t, id)
    BY <1>2 DEF AudioPacket
  <2>2. t \in StreamType
    BY DEF StreamType
  <2> QED  BY <2>1, <2>2, DeniedKeeps, QuietStreamKeeps, InTurnKeeps
<1>3. CASE CommandNext
  BY <1>3, JoinKeeps, LeaveKeeps, RemoveChannelKeeps, UpdateKeeps, CreateKeeps
     DEF CommandNext
<1>4. CASE UNCHANGED vars
  BY <1>4 DEF vars, Inv, TypeOK, QueueTimed, QueueOfSenders, HeadOnAir, OneSpeaker, Queued
<1> QED  BY <1>1, <1>2, <1>3, <1>4, SweepKeeps, TickKeeps DEF Next

\* What the module promises of a channel's floor at any time: the invariant.
THEOREM Invariant == Spec => []Inv
BY InitInv, NextInv, PTL DEF Spec

\* Every variable holds a value of its kind.
THEOREM TypeCorrect == Spec => []TypeOK
BY Invariant, PTL DEF Inv

\* The head that CanTransmit looks up has a time, whatever became of the queue
\* since it was put there (ServerChannel.cpp:138-140).
THEOREM HeadsHaveTimes == Spec => []QueueTimed
BY Invariant, PTL DEF Inv

\* Only one user can transmit at a time (TeamTalk.h:2433), in channels that
\* change their type, too.
THEOREM SpeakersAreOne == Spec => []OneSpeaker
BY Invariant, PTL DEF Inv

\* Nobody queues who may not send to the channel: RemoveUser() and the removal of
\* the channel leave no place behind (ServerChannel.cpp:168-184).
THEOREM QueuesAreOfSenders == Spec => []QueueOfSenders
BY Invariant, PTL DEF Inv

-----------------------------------------------------------------------------
(* What one step may do to the queue. *)

\* A step leaves the queue alone, takes some users out of it, or takes some out
\* after one has queued; or the channel is new, or gone.
LEMMA QueueSteps ==
    ASSUME Inv, Next
    PROVE  \/ queue' = queue
           \/ \E U \in SUBSET User : queue' = Without(queue, U)
           \/ \E u \in User, t \in AudioType, id \in StreamId : TransmitInTurn(u, t, id)
           \/ ~exists /\ queue' = <<>>
<1>1. CASE QuietPacket
  BY <1>1 DEF QuietPacket, Denied, LoseFloor
<1>2. CASE AudioPacket
  BY <1>2 DEF AudioPacket, Denied, LoseFloor, StreamTimedOut, TransmitFreely, StreamBlocked
<1>3. CASE CommandNext
  BY <1>3 DEF CommandNext, Join, Leave, RemoveChannel, UpdateChannel, Create, Forget, Inv, TypeOK
<1>4. CASE UpdateSoloTransmitChannels
  <2>1. queue \in Seq(User)
    BY DEF Inv, TypeOK
  <2>2. ToSet(queue) \subseteq User
    BY <2>1 DEF ToSet
  <2>3. StaleHeads(queue, last) \in SUBSET User
    BY <2>1, <2>2, StaleHeadsFacts
  <2> QED  BY <1>4, <2>3 DEF UpdateSoloTransmitChannels, LoseFloor
<1>5. CASE Tick
  BY <1>5 DEF Tick
<1> QED  BY <1>1, <1>2, <1>3, <1>4, <1>5 DEF Next

\* Taking users out keeps the order of those who were queued.
LEMMA TakingKeepsOrder ==
    ASSUME NEW q \in Seq(User), IsInjective(q), NEW U, queue' = Without(q, U),
           NEW u \in ToSet(queue'), NEW v \in ToSet(queue'),
           PlaceOf(q, u) < PlaceOf(q, v)
    PROVE  PlaceOf(queue', u) < PlaceOf(queue', v)
BY WithoutOrder

LEMMA OrderStep ==
    ASSUME Inv, Next, exists', NEW u \in User, NEW v \in User, u # v,
           u \in Queued, u \in ToSet(queue'), v \in ToSet(queue'),
           v \in Queued => PlaceOf(queue, u) < PlaceOf(queue, v)
    PROVE  PlaceOf(queue', u) < PlaceOf(queue', v)
<1>1. queue \in Seq(User)
  BY DEF Inv, TypeOK
<1>2. CASE queue' = queue
  BY <1>2 DEF Queued
<1>3. CASE ~exists /\ queue' = <<>>
  <2>1. ToSet(<<>>) = {}
    BY DEF ToSet
  <2> QED  BY <1>3, <2>1
<1>4. ASSUME NEW U \in SUBSET User, queue' = Without(queue, U), exists
      PROVE  PlaceOf(queue', u) < PlaceOf(queue', v)
  <2>1. IsInjective(queue)
    BY <1>4 DEF Inv, QueueTimed
  <2>2. v \in Queued
    BY <1>1, <1>4, WithoutQueue DEF Queued
  <2> QED  BY <1>1, <1>4, <2>1, <2>2, TakingKeepsOrder
<1>5. ASSUME NEW w \in User, NEW t \in AudioType, NEW id \in StreamId,
             TransmitInTurn(w, t, id)
      PROVE  PlaceOf(queue', u) < PlaceOf(queue', v)
  <2> DEFINE U == StaleHeads(QueueUp(w), [last EXCEPT ![w] = 0])
  <2>1. exists /\ queue' = Without(QueueUp(w), U)
    BY <1>5 DEF TransmitInTurn, LoseFloor, MaySend
  <2> HIDE DEF U
  <2>2. IsInjective(queue)
    BY <2>1 DEF Inv, QueueTimed
  <2>3. /\ QueueUp(w) \in Seq(User) /\ IsInjective(QueueUp(w))
        /\ ToSet(QueueUp(w)) = Queued \cup {w}
    BY <2>2, QueueUpFacts DEF Inv
  <2>4. v \in Queued \cup {w}
    BY <2>1, <2>3, WithoutQueue
  <2>5. PlaceOf(QueueUp(w), u) < PlaceOf(QueueUp(w), v)
    <3>1. CASE w \in Queued
      BY <2>4, <3>1 DEF QueueUp
    <3>2. CASE w \notin Queued
      <4>1. QueueUp(w) = Append(queue, w)
        BY <3>2 DEF QueueUp
      <4>2. \A a \in Queued : /\ PlaceOf(Append(queue, w), a) = PlaceOf(queue, a)
                              /\ PlaceOf(queue, a) < PlaceOf(Append(queue, w), w)
        BY <1>1, <2>2, <3>2, AppendOrder DEF Queued
      <4> QED  BY <2>4, <4>1, <4>2
    <3> QED  BY <3>1, <3>2
  <2> QED  BY <2>1, <2>3, <2>5, TakingKeepsOrder
<1>6. CASE ~exists
  <2>0. \A w : ~MaySend(w)
    BY <1>6 DEF MaySend
  <2>1. ~QuietPacket /\ ~AudioPacket
    <3>1. \A w, t, id : ~Denied(w, t, id) /\ ~StreamTimedOut(w, t, id)
      BY <2>0 DEF Denied, StreamTimedOut
    <3>2. \A w, t, id : ~TransmitFreely(w, t, id) /\ ~StreamBlocked(w, t, id)
      BY <2>0 DEF TransmitFreely, StreamBlocked
    <3>3. ASSUME NEW w, NEW t, NEW id, TransmitInTurn(w, t, id)  PROVE FALSE
      <4>1. MaySend(w)
        BY <3>3 DEF TransmitInTurn
      <4> QED  BY <2>0, <4>1
    <3> QED  BY <3>1, <3>2, <3>3 DEF QuietPacket, AudioPacket
  <2>2. CASE CommandNext
    BY <1>3, <1>6, <2>2 DEF CommandNext, Join, Leave, RemoveChannel, UpdateChannel, Create
  <2>3. ~UpdateSoloTransmitChannels
    BY <1>6 DEF UpdateSoloTransmitChannels
  <2>4. ~Tick
    BY <1>6 DEF Tick
  <2> QED  BY <2>1, <2>2, <2>3, <2>4 DEF Next
<1> QED  BY <1>2, <1>3, <1>4, <1>5, <1>6, QueueSteps

\* Those who wait keep their order and newcomers wait behind them, whatever packets,
\* commands and sweeps come in between.
THEOREM WaitingKeepsOrder == Spec => KeepsOrder
<1> DEFINE Kept ==
      exists' => \A u, v \in User :
          /\ u \in Queued
          /\ {u, v} \subseteq ToSet(queue')
          /\ v \in Queued => PlaceOf(queue, u) < PlaceOf(queue, v)
          /\ u # v
          => PlaceOf(queue', u) < PlaceOf(queue', v)
<1>1. ASSUME Inv, Next PROVE Kept
  BY <1>1, OrderStep
<1>2. Inv /\ [Next]_vars => [Kept]_vars
  BY <1>1
<1> QED
  BY <1>2, Invariant, PTL DEF Spec, KeepsOrder

\* A head that is not stale, that stays and is not denied, stays the head.
LEMMA FloorStep ==
    ASSUME Inv, Next, NEW u \in User,
           exists /\ exists',
           queue # <<>> /\ Head(queue) = u /\ ~Stale(u, last),
           u \in members => u \in members',
           \A t \in StreamType : Permitted(u, t)
    PROVE  queue' # <<>> /\ Head(queue') = u
<1>1. queue \in Seq(User) /\ last \in [User -> Age \cup {None}]
  BY DEF Inv, TypeOK
<1>2. ASSUME NEW U, u \notin U, queue' = Without(queue, U)
      PROVE  queue' # <<>> /\ Head(queue') = u
  BY <1>1, <1>2, WithoutQueue
<1>3. ASSUME NEW v \in User, NEW t \in StreamType, NEW id, Denied(v, t, id)
      PROVE  queue' # <<>> /\ Head(queue') = u
  <2>1. v # u
    BY <1>3 DEF Denied
  <2>2. queue' = queue \/ queue' = Without(queue, {v})
    BY <1>3 DEF Denied, LoseFloor
  <2> QED  BY <1>2, <2>1, <2>2
<1>4. CASE QuietPacket
  <2>1. \A t \in QuietType : t \in StreamType
    BY DEF StreamType
  <2> QED  BY <1>3, <1>4, <2>1 DEF QuietPacket
<1>5. ASSUME NEW w \in User, NEW t \in AudioType, NEW id \in StreamId,
             TransmitInTurn(w, t, id)
      PROVE  queue' # <<>> /\ Head(queue') = u
  <2> DEFINE times == [last EXCEPT ![w] = 0]
  <2>1. queue' = Without(QueueUp(w), StaleHeads(QueueUp(w), times))
    BY <1>5 DEF TransmitInTurn, LoseFloor
  <2>2. /\ QueueUp(w) \in Seq(User) /\ QueueUp(w) # <<>>
        /\ Head(QueueUp(w)) = u
    BY QueueUpFacts DEF Inv, QueueTimed
  <2>3. ~Stale(u, times)
    <3>1. times[u] = last[u] \/ times[u] = 0
      BY <1>1
    <3>2. ~ (0 > prop.delay)
      BY PropFields DEF Inv
    <3> QED  BY <3>1, <3>2 DEF Stale
  <2> HIDE DEF times
  <2>4. StaleHeads(QueueUp(w), times) = {}
    BY <2>2, <2>3, StaleHeadsFacts
  <2> QED  BY <2>1, <2>2, <2>4, WithoutQueue
<1>6. CASE AudioPacket
  <2>1. PICK v \in User, t \in AudioType, id \in StreamId :
           \/ Denied(v, t, id)
           \/ StreamTimedOut(v, t, id)
           \/ TransmitFreely(v, t, id)
           \/ StreamBlocked(v, t, id)
           \/ TransmitInTurn(v, t, id)
    BY <1>6 DEF AudioPacket
  <2>2. t \in StreamType
    BY DEF StreamType
  <2>3. StreamTimedOut(v, t, id) \/ TransmitFreely(v, t, id) \/ StreamBlocked(v, t, id)
           => queue' = queue
    BY DEF StreamTimedOut, TransmitFreely, StreamBlocked
  <2> QED  BY <1>3, <1>5, <2>1, <2>2, <2>3
<1>7. CASE CommandNext
  <2>1. ASSUME NEW v \in User, Leave(v)  PROVE queue' # <<>> /\ Head(queue') = u
    <3>1. v # u /\ queue' = Without(queue, {v})
      BY <2>1 DEF Leave, Forget
    <3> QED  BY <1>2, <3>1
  <2>2. ~RemoveChannel /\ \A U, s : ~Create(U, s)
    BY DEF RemoveChannel, Create
  <2>3. \A v \in User : Join(v) => queue' = queue
    BY DEF Join
  <2>4. \A s \in Settings : UpdateChannel(s) => queue' = queue
    BY DEF UpdateChannel
  <2> QED  BY <1>7, <2>1, <2>2, <2>3, <2>4 DEF CommandNext
<1>8. CASE UpdateSoloTransmitChannels
  <2>1. StaleHeads(queue, last) = {}
    BY <1>1, StaleHeadsFacts
  <2> QED  BY <1>2, <1>8, <2>1 DEF UpdateSoloTransmitChannels, LoseFloor
<1>9. CASE Tick
  BY <1>9 DEF Tick
<1> QED  BY <1>4, <1>6, <1>7, <1>8, <1>9 DEF Next

\* Nobody but the head itself, its silence or a denial takes the floor from it.
THEOREM HeadsKeepTheFloor == Spec => KeepsFloor
<1> DEFINE Kept ==
      \A u \in User :
          /\ exists /\ exists'
          /\ queue # <<>> /\ Head(queue) = u /\ ~Stale(u, last)
          /\ u \in members => u \in members'
          /\ \A t \in StreamType : Permitted(u, t)
          => queue' # <<>> /\ Head(queue') = u
<1>1. ASSUME Inv, Next PROVE Kept
  BY <1>1, FloorStep
<1>2. Inv /\ [Next]_vars => [Kept]_vars
  BY <1>1
<1> QED
  BY <1>2, Invariant, PTL DEF Spec, KeepsFloor
=============================================================================
