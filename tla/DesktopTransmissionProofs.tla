--------------------- MODULE DesktopTransmissionProofs ---------------------
(***************************************************************************)
(* Proofs, for every number of blocks and updates, every window and every  *)
(* length of the history, of what DesktopTransmission promises at any time.*)
(***************************************************************************)
EXTENDS DesktopTransmission, QueuesProofs

-----------------------------------------------------------------------------
(* Sets of packets, and numbers. *)

\* The blocks packets ps carry.
BlocksOf(ps) == {p.block : p \in ps}

\* The packets have different indexes.
Distinct(ps) == \A p, q \in ps : p.index = q.index => p = q

LEMMA Numbers ==
    /\ Blocks \in Nat /\ Blocks >= 1 /\ MaxUpdate \in Nat /\ MaxHistory \in Nat
    /\ MaxWire \in Nat /\ MaxWire >= 1
    /\ InitialTx \in Nat /\ InitialTx >= 1 /\ InitialTx <= MaxWire
BY DesktopAssumption

LEMMA PacketFields ==
    ASSUME NEW p \in DesktopPacket
    PROVE  /\ p.kind = "desktop" /\ p.session \in Update /\ p.update \in Update
           /\ p.all \in BOOLEAN /\ p.index \in Index /\ p.count \in Index
           /\ p.block \in Block /\ p.version \in Update
BY DEF DesktopPacket

LEMMA DistinctFinite ==
    ASSUME NEW ps \in SUBSET DesktopPacket, Distinct(ps)
    PROVE  /\ IsFiniteSet(ps)
           /\ Cardinality(ps) \in Nat
           /\ Cardinality(ps) <= Blocks
<1> DEFINE f == [p \in ps |-> p.index]
<1>1. f \in Injection(ps, Index)
  <2>1. f \in [ps -> Index]
    BY PacketFields
  <2>2. \A p, q \in ps : f[p] = f[q] => p = q
    BY DEF Distinct
  <2> QED  BY <2>1, <2>2 DEF Injection, IsInjective
<1>2. IsFiniteSet(Index) /\ Cardinality(Index) = Blocks
  BY Numbers, FS_Interval DEF Index
<1>3. IsFiniteSet(ps) /\ Cardinality(ps) <= Blocks
  BY <1>1, <1>2, FS_Injection
<1> QED  BY <1>3, FS_CardinalityType

\* A set of places has a lowest and a highest.
LEMMA LowestPlace ==
    ASSUME NEW m \in Nat, NEW P \in SUBSET (1..m), P # {}
    PROVE  \E i \in P : \A j \in P : i <= j
<1>1. IsFiniteSet(P) /\ Cardinality(P) \in Nat
  BY PlacesFinite
<1>2. Cardinality(P) # 0
  BY <1>1, FS_EmptySet
<1>3. 1 \in 1..Cardinality(P)
  BY <1>1, <1>2
<1>4. PICK i \in P : Rank(P, i) = 1
  BY <1>3, NthExists
<1>5. ASSUME NEW j \in P, j < i  PROVE FALSE
  <2>1. Rank(P, j) < 1 /\ Rank(P, j) \in 1..Cardinality(P)
    BY <1>4, <1>5, RankGrows, RankType
  <2> QED  BY <2>1
<1> QED  BY <1>5

LEMMA HighestPlace ==
    ASSUME NEW m \in Nat, NEW P \in SUBSET (1..m), P # {}
    PROVE  /\ Max(P) \in P
           /\ \A j \in P : j <= Max(P)
<1>1. IsFiniteSet(P) /\ Cardinality(P) \in Nat
  BY PlacesFinite
<1>2. Cardinality(P) # 0
  BY <1>1, FS_EmptySet
<1>3. Cardinality(P) \in 1..Cardinality(P)
  BY <1>1, <1>2
<1>4. PICK i \in P : Rank(P, i) = Cardinality(P)
  BY <1>3, NthExists
<1>5. ASSUME NEW j \in P, i < j  PROVE FALSE
  <2>1. Cardinality(P) < Rank(P, j) /\ Rank(P, j) \in 1..Cardinality(P)
    BY <1>4, <1>5, RankGrows, RankType
  <2> QED  BY <1>1, <2>1
<1>6. \A j \in P : i >= j
  BY <1>5
<1>7. Max(P) \in P /\ \A j \in P : Max(P) >= j
  BY <1>6 DEF Max
<1>8. \A j \in P : j \in Int
  OBVIOUS
<1> QED  BY <1>7, <1>8

LEMMA MaxOfTwo ==
    ASSUME NEW x \in Int, NEW y \in Int
    PROVE  /\ Max({x, y}) \in {x, y} /\ Max({x, y}) >= x /\ Max({x, y}) >= y
           /\ Min({x, y}) \in {x, y} /\ Min({x, y}) <= x /\ Min({x, y}) <= y
<1>1. \E z \in {x, y} : \A w \in {x, y} : z >= w
  OBVIOUS
<1>2. \E z \in {x, y} : \A w \in {x, y} : z =< w
  OBVIOUS
<1>3. Max({x, y}) \in {x, y} /\ \A w \in {x, y} : Max({x, y}) >= w
  BY <1>1 DEF Max
<1>4. Min({x, y}) \in {x, y} /\ \A w \in {x, y} : Min({x, y}) =< w
  BY <1>2 DEF Min
<1> QED  BY <1>3, <1>4

\* The n lowest packets are n at most, and there are some if there are any.
LEMMA LowestFacts ==
    ASSUME NEW ps \in SUBSET DesktopPacket, Distinct(ps), NEW n \in Nat
    PROVE  /\ Lowest(n, ps) \subseteq ps
           /\ IsFiniteSet(Lowest(n, ps))
           /\ Cardinality(Lowest(n, ps)) \in 0..n
           /\ n >= 1 /\ ps # {} => Lowest(n, ps) # {}
<1> DEFINE Lower(p) == {q \in ps : q.index < p.index}
           L == Lowest(n, ps)
<1>1. L \subseteq ps
  BY DEF Lowest
<1>2. IsFiniteSet(ps)
  BY DistinctFinite
<1>3. ASSUME NEW p \in ps
      PROVE  IsFiniteSet(Lower(p)) /\ Cardinality(Lower(p)) \in Nat
  <2>1. IsFiniteSet(Lower(p))
    BY <1>2, FS_Subset
  <2> QED  BY <2>1, FS_CardinalityType
<1>4. ASSUME NEW p \in ps, NEW q \in ps, p.index < q.index
      PROVE  Cardinality(Lower(p)) < Cardinality(Lower(q))
  <2>1. \A r \in ps : r.index \in Int
    BY PacketFields DEF Index
  <2>2. Lower(p) \in SUBSET Lower(q)
    BY <1>4, <2>1
  <2>3. p \in Lower(q) /\ p \notin Lower(p)
    BY <1>4, <2>1
  <2>4. Lower(p) # Lower(q)
    BY <2>3
  <2> HIDE DEF Lower
  <2>5. /\ Cardinality(Lower(p)) <= Cardinality(Lower(q))
        /\ Cardinality(Lower(p)) # Cardinality(Lower(q))
    BY <1>3, <2>2, <2>4, FS_Subset
  <2> QED  BY <1>3, <2>5
<1>5. L = {p \in ps : Cardinality(Lower(p)) < n}
  BY DEF Lowest
<1> HIDE DEF L, Lower
<1> DEFINE f == [p \in L |-> Cardinality(Lower(p))]
<1>6. f \in [L -> 0..(n-1)]
  BY <1>3, <1>5
<1>7. ASSUME NEW p \in L, NEW q \in L, f[p] = f[q], p # q  PROVE FALSE
  <2>1. p \in ps /\ q \in ps
    BY <1>1
  <2>2. p.index # q.index
    BY <1>7, <2>1 DEF Distinct
  <2>3. p.index \in Int /\ q.index \in Int
    BY <2>1, PacketFields DEF Index
  <2>4. p.index < q.index \/ q.index < p.index
    BY <2>2, <2>3
  <2>5. Cardinality(Lower(p)) = Cardinality(Lower(q))
    BY <1>7
  <2>6. Cardinality(Lower(p)) \in Nat
    BY <1>3, <2>1
  <2> QED  BY <1>4, <2>1, <2>4, <2>5, <2>6
<1>8. f \in Injection(L, 0..(n-1))
  BY <1>6, <1>7 DEF Injection, IsInjective
<1>9. IsFiniteSet(0..(n-1)) /\ Cardinality(0..(n-1)) = n
  BY FS_Interval
<1>10. IsFiniteSet(L) /\ Cardinality(L) <= n
  BY <1>8, <1>9, FS_Injection
<1>11. Cardinality(L) \in Nat
  BY <1>10, FS_CardinalityType
<1>12. ASSUME n >= 1, ps # {}  PROVE L # {}
  <2>1. Indexes(ps) \in SUBSET (1..Blocks) /\ Indexes(ps) # {}
    BY <1>12, PacketFields DEF Indexes, Index
  <2>2. PICK i \in Indexes(ps) : \A j \in Indexes(ps) : i <= j
    BY <2>1, Numbers, LowestPlace
  <2>3. PICK p \in ps : p.index = i
    BY <2>2 DEF Indexes
  <2>4. \A q \in ps : ~ (q.index < p.index)
    <3>1. \A q \in ps : q.index \in Indexes(ps) /\ q.index \in Int
      BY PacketFields DEF Indexes, Index
    <3> QED  BY <2>2, <2>3, <3>1, <2>1
  <2>5. Lower(p) = {}
    BY <2>4 DEF Lower
  <2>6. Cardinality(Lower(p)) = 0
    BY <2>5, FS_EmptySet
  <2> QED  BY <1>5, <1>12, <2>3, <2>6
<1> QED  BY <1>1, <1>10, <1>11, <1>12 DEF L

-----------------------------------------------------------------------------
(* The packets of a transmission. *)

\* The packets for some blocks are numbered from 1, one for each block.
LEMMA PacketsForFacts ==
    ASSUME NEW d \in Desktop, NEW bs \in SUBSET Block, bs # {}, NEW all \in BOOLEAN
    PROVE  LET ps == PacketsFor(d, bs, all) IN
           /\ ps \in SUBSET DesktopPacket
           /\ ps # {}
           /\ Distinct(ps)
           /\ \A p, q \in ps : p.block = q.block => p = q
           /\ Cardinality(bs) \in Index
           /\ Indexes(ps) = 1..Cardinality(bs)
           /\ BlocksOf(ps) = bs
           /\ \A p \in ps : /\ p.session = d.session /\ p.update = d.update
                            /\ p.all = all /\ p.count = Cardinality(bs)
                            /\ p.version = d.version[p.block]
<1> DEFINE packet(b) == [kind |-> "desktop", session |-> d.session, update |-> d.update,
                         all |-> all, index |-> Rank(bs, b),
                         count |-> Cardinality(bs), block |-> b, version |-> d.version[b]]
           ps == PacketsFor(d, bs, all)
<1>1. ps = {packet(b) : b \in bs}
  BY DEF PacketsFor, Rank
<1>2. bs \in SUBSET (1..Blocks) /\ Blocks \in Nat
  BY Numbers DEF Block
<1>3. IsFiniteSet(bs) /\ Cardinality(bs) \in Nat
  BY <1>2, PlacesFinite
<1>4. Cardinality(bs) # 0
  BY <1>3, FS_EmptySet
<1>5. IsFiniteSet(1..Blocks) /\ Cardinality(1..Blocks) = Blocks
  BY <1>2, FS_Interval
<1>6. Cardinality(bs) <= Blocks
  BY <1>2, <1>5, FS_Subset
<1>7. Cardinality(bs) \in Index
  BY <1>3, <1>4, <1>6, Numbers DEF Index
<1>8. \A b \in bs : Rank(bs, b) \in 1..Cardinality(bs)
  BY <1>2, RankType
<1>9. \A b \in bs : Rank(bs, b) \in Index
  BY <1>3, <1>6, <1>8, Numbers DEF Index
<1>10. \A b \in bs : packet(b) \in DesktopPacket
  BY <1>7, <1>9 DEF DesktopPacket, Desktop
<1>11. ASSUME NEW b \in bs, NEW c \in bs, Rank(bs, b) = Rank(bs, c)  PROVE b = c
  <2>1. ~ (b < c) /\ ~ (c < b)
    <3>1. b < c => Rank(bs, b) < Rank(bs, c)
      BY <1>2, RankGrows
    <3>2. c < b => Rank(bs, c) < Rank(bs, b)
      BY <1>2, RankGrows
    <3> QED  BY <1>8, <1>11, <3>1, <3>2
  <2> QED  BY <1>2, <2>1
<1>12. \A p \in ps : \E b \in bs : p = packet(b)
  BY <1>1
<1>13. \A b \in bs : packet(b) \in ps
  BY <1>1
<1>14. \A b \in bs : /\ packet(b).index = Rank(bs, b) /\ packet(b).block = b
                     /\ packet(b).session = d.session /\ packet(b).update = d.update
                     /\ packet(b).all = all /\ packet(b).count = Cardinality(bs)
                     /\ packet(b).version = d.version[b]
  OBVIOUS
<1> HIDE DEF packet, ps
<1>15. Distinct(ps)
  BY <1>11, <1>12, <1>14 DEF Distinct
<1>16. \A p, q \in ps : p.block = q.block => p = q
  BY <1>12, <1>14
<1>17. Indexes(ps) = 1..Cardinality(bs)
  <2>1. \A p \in ps : p.index \in 1..Cardinality(bs)
    BY <1>8, <1>12, <1>14
  <2>2. ASSUME NEW n \in 1..Cardinality(bs)  PROVE \E p \in ps : p.index = n
    <3>1. PICK b \in bs : Rank(bs, b) = n
      BY <1>2, NthExists
    <3> QED  BY <1>13, <1>14, <3>1
  <2> QED  BY <2>1, <2>2 DEF Indexes
<1>18. BlocksOf(ps) = bs
  BY <1>12, <1>13, <1>14 DEF BlocksOf
<1>19. ps \in SUBSET DesktopPacket /\ ps # {}
  BY <1>10, <1>12, <1>13
<1>20. \A p \in ps : /\ p.session = d.session /\ p.update = d.update
                     /\ p.all = all /\ p.count = Cardinality(bs)
                     /\ p.version = d.version[p.block]
  BY <1>12, <1>14
<1> QED  BY <1>7, <1>15, <1>16, <1>17, <1>18, <1>19, <1>20 DEF ps

\* The desktop has changed in its last update.
Fresh(d) ==
    /\ \E b \in Block : d.version[b] = d.update
    /\ \A b \in Block : d.version[b] <= d.update

\* What a transmission that may start after t carries: some blocks or all of them,
\* and all of them unless t was of the same session; those left out have not
\* changed since t.
LEMMA PacketsAfterFacts ==
    ASSUME NEW d \in Desktop, Fresh(d), NEW t \in Transmitter \cup {None},
           t # None /\ t.session = d.session => t.update < d.update
    PROVE  \E bs \in SUBSET Block, all \in BOOLEAN :
              /\ bs # {}
              /\ PacketsAfter(t, d) = PacketsFor(d, bs, all)
              /\ all => bs = Block
              /\ t = None \/ t.session # d.session => all
              /\ \A b \in Block \ bs : d.version[b] <= t.update
<1>1. Block # {}
  BY Numbers DEF Block
<1>2. CASE t # None /\ t.session = d.session /\ d.update - t.update < MaxHistory
  <2> DEFINE bs == {b \in Block : d.version[b] > t.update}
  <2>1. PacketsAfter(t, d) = PacketsFor(d, bs, FALSE)
    BY <1>2 DEF PacketsAfter
  <2>2. PICK b \in Block : d.version[b] = d.update
    BY DEF Fresh
  <2>3. t \in Transmitter /\ t.update \in Int /\ d.update \in Int
    BY <1>2 DEF Transmitter, Desktop, Update
  <2>4. b \in bs
    BY <1>2, <2>2, <2>3
  <2>5. \A c \in Block \ bs : d.version[c] <= t.update
    BY <2>3 DEF Desktop, Update
  <2>6. bs \in SUBSET Block /\ bs # {}
    BY <2>4
  <2> HIDE DEF bs
  <2> QED  BY <1>2, <2>1, <2>5, <2>6
<1>3. CASE ~ (t # None /\ t.session = d.session /\ d.update - t.update < MaxHistory)
  <2>1. PacketsAfter(t, d) = PacketsFor(d, Block, TRUE)
    BY <1>3 DEF PacketsAfter
  <2> QED  BY <1>1, <2>1
<1> QED  BY <1>2, <1>3

-----------------------------------------------------------------------------
(* What the server does to a transmitter. *)

\* Its packets have different indexes, and it keeps to the window.
TxOK(t) ==
    /\ t \in Transmitter
    /\ Distinct(t.queued \cup t.sent)
    /\ Cardinality(t.sent) + t.tx <= MaxWire

LEMMA TransmitterFields ==
    ASSUME NEW t \in Transmitter
    PROVE  /\ t.session \in Update /\ t.update \in Update
           /\ t.queued \in SUBSET DesktopPacket /\ t.sent \in SUBSET DesktopPacket
           /\ t.missing \in SUBSET Index /\ t.tx \in 0..MaxWire
           /\ t # None
BY NullAssumption DEF Transmitter

\* Parts of sets with different indexes have different indexes.
LEMMA DistinctPart ==
    ASSUME NEW ps, Distinct(ps), NEW qs \in SUBSET ps
    PROVE  Distinct(qs)
BY DEF Distinct

LEMMA SentFinite ==
    ASSUME NEW t, TxOK(t)
    PROVE  /\ IsFiniteSet(t.sent) /\ Cardinality(t.sent) \in Nat
           /\ IsFiniteSet(t.queued)
           /\ t.queued \cup t.sent \in SUBSET DesktopPacket
<1>1. t.queued \cup t.sent \in SUBSET DesktopPacket
  BY TransmitterFields DEF TxOK
<1>2. Distinct(t.sent) /\ Distinct(t.queued)
  BY <1>1, DistinctPart DEF TxOK
<1> QED  BY <1>1, <1>2, DistinctFinite, TransmitterFields DEF TxOK

LEMMA AdvanceFacts ==
    ASSUME NEW t, TxOK(t)
    PROVE  LET n == Advance(t) IN
           /\ TxOK(n)
           /\ n.session = t.session /\ n.update = t.update
           /\ n.queued \cup n.sent = t.queued \cup t.sent
           /\ n.queued \subseteq t.queued
           /\ n.sent = t.sent \cup NextPackets(t)
           /\ NextPackets(t) \subseteq t.queued
           /\ t.tx >= 1 /\ t.queued # {} => n.sent # {}
<1> DEFINE n == Advance(t)
           next == NextPackets(t)
<1>1. t \in Transmitter
  BY DEF TxOK
<1>2. t.queued \in SUBSET DesktopPacket /\ t.sent \in SUBSET DesktopPacket /\ t.tx \in Nat
  BY <1>1, TransmitterFields, Numbers
<1>3. Distinct(t.queued)
  BY DistinctPart DEF TxOK
<1>4. /\ next \subseteq t.queued
      /\ IsFiniteSet(next)
      /\ Cardinality(next) \in 0..t.tx
      /\ t.tx >= 1 /\ t.queued # {} => next # {}
  BY <1>2, <1>3, LowestFacts DEF NextPackets
<1>5. n = [t EXCEPT !.queued = @ \ next, !.sent = @ \cup next, !.tx = @ - Cardinality(next)]
  BY DEF Advance
<1> HIDE DEF next
<1>6. t.tx - Cardinality(next) \in 0..MaxWire
  BY <1>1, <1>4, TransmitterFields, Numbers
<1>7. n \in Transmitter
  BY <1>1, <1>2, <1>4, <1>5, <1>6 DEF Transmitter
<1>8. /\ n.session = t.session /\ n.update = t.update
      /\ n.queued = t.queued \ next /\ n.sent = t.sent \cup next
      /\ n.tx = t.tx - Cardinality(next)
  BY <1>1, <1>5 DEF Transmitter
<1> HIDE DEF n
<1>9. n.queued \cup n.sent = t.queued \cup t.sent
  BY <1>4, <1>8
<1>10. Cardinality(n.sent) + n.tx <= MaxWire
  <2>1. IsFiniteSet(t.sent) /\ Cardinality(t.sent) \in Nat
    BY SentFinite
  <2>2. /\ IsFiniteSet(n.sent)
        /\ Cardinality(n.sent)
              = Cardinality(t.sent) + Cardinality(next) - Cardinality(t.sent \cap next)
    BY <1>4, <1>8, <2>1, FS_Union
  <2>3. Cardinality(t.sent \cap next) \in Nat /\ Cardinality(next) \in Nat
    <3>1. IsFiniteSet(t.sent \cap next)
      BY <2>1, FS_Intersection
    <3> QED  BY <1>4, <3>1, FS_CardinalityType
  <2>4. Cardinality(t.sent) + t.tx <= MaxWire
    BY DEF TxOK
  <2> QED  BY <1>2, <1>8, <2>1, <2>2, <2>3, <2>4, Numbers
<1>11. TxOK(n)
  BY <1>7, <1>9, <1>10 DEF TxOK
<1> QED  BY <1>4, <1>8, <1>9, <1>11 DEF n, next

\* A new transmitter has something to send, and room for it.
LEMMA NewTransmitterFacts ==
    ASSUME NEW d \in Desktop, Fresh(d), NEW t \in Transmitter \cup {None},
           t # None /\ t.session = d.session => t.update < d.update
    PROVE  LET n == NewTransmitter(t, d) IN
           /\ TxOK(n)
           /\ n.session = d.session /\ n.update = d.update
           /\ n.queued = PacketsAfter(t, d) /\ n.sent = {}
           /\ n.queued # {}
           /\ Advance(n).sent # {}
<1> DEFINE n == NewTransmitter(t, d)
<1>1. PICK bs \in SUBSET Block, all \in BOOLEAN :
         bs # {} /\ PacketsAfter(t, d) = PacketsFor(d, bs, all)
  BY PacketsAfterFacts
<1>2. /\ PacketsAfter(t, d) \in SUBSET DesktopPacket
      /\ PacketsAfter(t, d) # {}
      /\ Distinct(PacketsAfter(t, d))
  <2>1. PacketsFor(d, bs, all) \in SUBSET DesktopPacket
    BY <1>1, PacketsForFacts
  <2>2. PacketsFor(d, bs, all) # {}
    BY <1>1, PacketsForFacts
  <2>3. Distinct(PacketsFor(d, bs, all))
    BY <1>1, PacketsForFacts
  <2> QED  BY <1>1, <2>1, <2>2, <2>3
<1>3. /\ n.session = d.session /\ n.update = d.update
      /\ n.queued = PacketsAfter(t, d) /\ n.sent = {} /\ n.tx = InitialTx
  BY DEF NewTransmitter
<1>4. n \in Transmitter
  BY <1>2, Numbers DEF NewTransmitter, Transmitter, Desktop
<1>5. Cardinality({}) = 0
  BY FS_EmptySet
<1>6. n.queued \cup n.sent = PacketsAfter(t, d)
  BY <1>3
<1> HIDE DEF n
<1>7. TxOK(n)
  BY <1>2, <1>3, <1>4, <1>5, <1>6, Numbers DEF TxOK
<1>8. Advance(n).sent # {}
  BY <1>2, <1>3, <1>7, AdvanceFacts, Numbers
<1> QED  BY <1>2, <1>3, <1>7, <1>8 DEF n

\* The room acknowledgements make is that of the window, and they make some.
LEMMA AckRoom ==
    ASSUME NEW t, TxOK(t), NEW a \in Ack, a.packets # {}
    PROVE  LET left == t.sent \ Acked(t, a) IN
           /\ RoomAfterHoles(t, a) \in 0..MaxWire
           /\ Cardinality(left) + RoomAfterHoles(t, a) <= MaxWire
           /\ t.sent # {} /\ left = {} => RoomAfterHoles(t, a) >= 1
           /\ NewHoles(t, a) \in SUBSET Index
<1> DEFINE left == t.sent \ Acked(t, a)
           acked == Cardinality(Acked(t, a))
           holes == Cardinality(NewHoles(t, a))
           room == RoomAfterAcks(t, a)
           least == IF t.sent = Acked(t, a) THEN 1 ELSE 0
<1>1. t \in Transmitter /\ t.tx \in 0..MaxWire
  BY TransmitterFields DEF TxOK
<1>2. IsFiniteSet(t.sent) /\ Cardinality(t.sent) \in Nat
  BY SentFinite
<1>3. Acked(t, a) \in SUBSET t.sent
  BY DEF Acked
<1>4. IsFiniteSet(Acked(t, a)) /\ acked \in Nat
  <2>1. IsFiniteSet(Acked(t, a))
    BY <1>2, <1>3, FS_Subset
  <2> QED  BY <2>1, FS_CardinalityType
<1>5. /\ IsFiniteSet(left) /\ left \in SUBSET t.sent
      /\ Cardinality(left) \in Nat /\ Cardinality(left) <= Cardinality(t.sent)
  <2>1. left \in SUBSET t.sent
    OBVIOUS
  <2>2. IsFiniteSet(left) /\ Cardinality(left) <= Cardinality(t.sent)
    BY <1>2, <2>1, FS_Subset
  <2> QED  BY <2>1, <2>2, FS_CardinalityType
<1>6. a.packets \in SUBSET (1..Blocks)
  BY DEF Ack, Index
<1>7. NewHoles(t, a) \in SUBSET Index
  <2>1. Max(a.packets) \in 1..Blocks
    BY <1>6, HighestPlace, Numbers
  <2> QED  BY <2>1, Numbers DEF NewHoles, Index
<1>8. holes \in Nat
  <2>1. NewHoles(t, a) \in SUBSET (1..Blocks)
    BY <1>7 DEF Index
  <2> QED  BY <2>1, PlacesFinite, Numbers
<1>9. Cardinality(t.sent) + t.tx <= MaxWire
  BY DEF TxOK
<1>10. left = {} <=> t.sent = Acked(t, a)
  BY <1>3
<1>11. Cardinality(left) = 0 <=> left = {}
  BY <1>5, FS_EmptySet
<1>12. acked = 0 <=> Acked(t, a) = {}
  BY <1>4, FS_EmptySet
<1>13. /\ room \in 0..MaxWire
       /\ Cardinality(left) + room <= MaxWire
       /\ Acked(t, a) # {} /\ left = {} => room >= 1
  <2>1. CASE Acked(t, a) = {}
    <3>1. room = t.tx /\ left = t.sent
      BY <2>1 DEF RoomAfterAcks
    <3> QED  BY <1>1, <1>9, <2>1, <3>1
  <2>2. CASE Acked(t, a) # {}
    <3> DEFINE x == t.tx + 2 * acked
               y == MaxWire - Cardinality(left)
    <3>1. room = Min({x, y})
      BY <2>2 DEF RoomAfterAcks
    <3>2. x \in Int /\ y \in Int /\ x >= 1 /\ y >= 0 /\ y <= MaxWire
      BY <1>1, <1>2, <1>4, <1>5, <1>9, <1>12, <2>2, Numbers
    <3>3. left = {} => y = MaxWire
      BY <1>11, Numbers
    <3> HIDE DEF x
    <3>4. Min({x, y}) \in {x, y} /\ Min({x, y}) <= y
      BY <3>2, MaxOfTwo
    <3> QED  BY <1>5, <3>1, <3>2, <3>3, <3>4, Numbers
  <2> QED  BY <2>1, <2>2
<1> HIDE DEF room, holes, left, acked, least
<1>14. RoomAfterHoles(t, a) = IF NewHoles(t, a) = {} THEN room
                              ELSE Max({room - 4 * holes, least})
  BY DEF RoomAfterHoles, room, holes, least
<1>15. least \in {0, 1} /\ (least = 1 <=> left = {})
  BY <1>10 DEF least
<1>16. t.sent # {} /\ left = {} => Acked(t, a) # {}
  BY <1>10
<1>17. CASE NewHoles(t, a) = {}
  BY <1>13, <1>14, <1>16, <1>7, <1>17 DEF left
<1>18. CASE NewHoles(t, a) # {}
  <2> DEFINE x == room - 4 * holes
  <2>1. x \in Int /\ least \in Int /\ x <= room
    BY <1>8, <1>13, <1>15, Numbers
  <2>2. Max({x, least}) \in {x, least} /\ Max({x, least}) >= least
    BY <2>1, MaxOfTwo
  <2>3. RoomAfterHoles(t, a) \in 0..MaxWire
    BY <1>13, <1>14, <1>15, <1>18, <2>1, <2>2, Numbers
  <2>4. Cardinality(left) + RoomAfterHoles(t, a) <= MaxWire
    BY <1>5, <1>11, <1>13, <1>14, <1>15, <1>18, <2>1, <2>2, Numbers
  <2>5. left = {} => RoomAfterHoles(t, a) >= 1
    BY <1>14, <1>15, <1>18, <2>1, <2>2
  <2> QED  BY <1>7, <2>3, <2>4, <2>5 DEF left
<1> QED  BY <1>17, <1>18

LEMMA ProcessAckFacts ==
    ASSUME NEW t, TxOK(t), NEW a \in Ack, a.packets # {}
    PROVE  LET n == ProcessAck(t, a) IN
           /\ TxOK(n)
           /\ n.session = t.session /\ n.update = t.update
           /\ n.queued = t.queued /\ n.sent = t.sent \ Acked(t, a)
           /\ t.sent # {} /\ n.sent = {} => n.tx >= 1
<1> DEFINE n == ProcessAck(t, a)
           room == RoomAfterHoles(t, a)
           missing == (t.missing \ Indexes(Acked(t, a))) \cup NewHoles(t, a)
<1>1. t \in Transmitter /\ t.missing \in SUBSET Index
  BY TransmitterFields DEF TxOK
<1>2. /\ room \in 0..MaxWire
      /\ Cardinality(t.sent \ Acked(t, a)) + room <= MaxWire
      /\ t.sent # {} /\ t.sent \ Acked(t, a) = {} => room >= 1
      /\ NewHoles(t, a) \in SUBSET Index
  BY AckRoom
<1>3. missing \in SUBSET Index
  BY <1>1, <1>2
<1>4. n = [t EXCEPT !.sent = t.sent \ Acked(t, a), !.missing = missing, !.tx = room]
  BY DEF ProcessAck
<1> HIDE DEF room, missing
<1>5. n \in Transmitter
  BY <1>1, <1>2, <1>3, <1>4 DEF Transmitter
<1>6. /\ n.session = t.session /\ n.update = t.update
      /\ n.queued = t.queued /\ n.sent = t.sent \ Acked(t, a) /\ n.tx = room
  BY <1>1, <1>4 DEF Transmitter
<1> HIDE DEF n
<1>7. Distinct(n.queued \cup n.sent)
  <2>1. n.queued \cup n.sent \in SUBSET (t.queued \cup t.sent)
    BY <1>6
  <2> QED  BY <2>1, DistinctPart DEF TxOK
<1>8. TxOK(n)
  BY <1>2, <1>5, <1>6, <1>7 DEF TxOK
<1> QED  BY <1>2, <1>6, <1>8 DEF n

\* Packets sent again take room, and leave none on the wire that was not there.
LEMMA ResendFacts ==
    ASSUME NEW t, TxOK(t), NEW lost \in Resendable(t)
    PROVE  LET n == [t EXCEPT !.tx = @ - Cardinality(lost)] IN
           /\ TxOK(n)
           /\ n.session = t.session /\ n.update = t.update
           /\ n.queued = t.queued /\ n.sent = t.sent
           /\ lost \subseteq t.sent
           /\ t.sent = {} => n.tx = t.tx
<1> DEFINE n == [t EXCEPT !.tx = t.tx - Cardinality(lost)]
<1>1. t \in Transmitter /\ t.tx \in 0..MaxWire
  BY TransmitterFields DEF TxOK
<1>2. lost \subseteq t.sent
  BY DEF Resendable
<1>3. IsFiniteSet(lost) /\ Cardinality(lost) \in Nat
  <2>1. IsFiniteSet(lost)
    BY <1>2, SentFinite, FS_Subset
  <2> QED  BY <2>1, FS_CardinalityType
<1>4. Cardinality({}) = 0
  BY FS_EmptySet
<1>5. Cardinality(lost) <= t.tx
  BY <1>1, <1>4, Numbers DEF Resendable
<1>6. t.tx - Cardinality(lost) \in 0..MaxWire
  BY <1>1, <1>3, <1>5, Numbers
<1>7. n \in Transmitter
  BY <1>1, <1>6 DEF Transmitter
<1>8. /\ n.session = t.session /\ n.update = t.update
      /\ n.queued = t.queued /\ n.sent = t.sent
      /\ n.tx = t.tx - Cardinality(lost)
  BY <1>1 DEF Transmitter
<1> HIDE DEF n
<1>9. Cardinality(n.sent) + n.tx <= MaxWire
  BY <1>1, <1>3, <1>8, SentFinite, Numbers DEF TxOK
<1>10. TxOK(n)
  BY <1>7, <1>8, <1>9 DEF TxOK
<1>11. t.sent = {} => n.tx = t.tx
  BY <1>1, <1>2, <1>4, <1>8
<1> QED  BY <1>2, <1>8, <1>10, <1>11 DEF n

-----------------------------------------------------------------------------
(* The invariant of the transmissions. *)

\* The server's desktop has changed in its last update, which the source has sent.
DesktopFresh ==
    desktop # None => /\ Fresh(desktop)
                      /\ desktop.session <= desktop.update
                      /\ desktop.update <= updates

\* The transmitter keeps to the window, and is not ahead of the desktop.
TransmitterOK ==
    dtx # None => /\ TxOK(dtx)
                  /\ dtx.session <= updates
                  /\ desktop # None /\ dtx.session = desktop.session
                        => dtx.update <= desktop.update

\* Acknowledgements acknowledge something, and views have seen an update.
AcksTell == \A a \in up : a.packets # {}
ViewDated == view.session # 0 => view.last # 0

BaseInv ==
    /\ TypeOK
    /\ DesktopFresh
    /\ TransmitterOK
    /\ AcksTell
    /\ ViewDated
    /\ TransmissionGoesOn

LEMMA DesktopFields ==
    ASSUME NEW d \in Desktop
    PROVE  /\ d.session \in Update /\ d.update \in Update
           /\ d.version \in [Block -> Update]
           /\ d # None
BY NullAssumption DEF Desktop

LEMMA UpdatesAreNumbers == \A k \in Update : k \in Nat /\ k >= 1 /\ k <= MaxUpdate
BY Numbers DEF Update

\* After StartDesktopTransmitter() there is a transmitter, with its timer if it is
\* not done and a packet on the wire if it has its timer.
LEMMA StartFacts ==
    ASSUME NEW d \in Desktop, Fresh(d), NEW t \in Transmitter \cup {None},
           t # None => TxOK(t) /\ (t.session = d.session => t.update <= d.update),
           NEW timer \in BOOLEAN, timer <=> (t # None /\ ~Done(t)),
           timer => t.sent # {},
           NEW wire \in SUBSET (DesktopPacket \cup Nak),
           StartDesktopTransmitter(t, timer, d, wire)
    PROVE  /\ TxOK(dtx') /\ dtx' \in Transmitter
           /\ rtx' \in BOOLEAN
           /\ rtx' <=> ~Done(dtx')
           /\ rtx' => dtx'.sent # {}
           /\ down' \in SUBSET (DesktopPacket \cup Nak)
           /\ dtx'.session = d.session \/ (t # None /\ dtx'.session = t.session)
           /\ dtx'.session = d.session => dtx'.update <= d.update
<1> DEFINE new == NewTransmitter(t, d)
<1>1. /\ dtx' = IF MayStart(t, d) THEN Advance(new) ELSE t
      /\ rtx' = (timer \/ MayStart(t, d))
      /\ down' = wire \cup (IF MayStart(t, d) THEN NextPackets(new) ELSE {})
  BY DEF StartDesktopTransmitter
<1>2. d.session \in Int /\ d.update \in Int
  BY DesktopFields, UpdatesAreNumbers
<1>3. CASE MayStart(t, d)
  <2>1. ASSUME t # None, t.session = d.session  PROVE t.update < d.update
    <3>1. t.update # d.update /\ t.update <= d.update
      BY <1>3, <2>1 DEF MayStart
    <3>2. t.update \in Int
      BY <2>1, TransmitterFields, UpdatesAreNumbers
    <3> QED  BY <1>2, <3>1, <3>2
  <2>2. /\ TxOK(new)
        /\ new.session = d.session /\ new.update = d.update
        /\ new.queued \in SUBSET DesktopPacket
        /\ Advance(new).sent # {}
    <3>1. /\ TxOK(new)
          /\ new.session = d.session /\ new.update = d.update
          /\ Advance(new).sent # {}
      BY <2>1, NewTransmitterFacts
    <3> QED  BY <3>1, TransmitterFields DEF TxOK
  <2> HIDE DEF new
  <2>3. /\ TxOK(Advance(new))
        /\ Advance(new).session = d.session /\ Advance(new).update = d.update
        /\ NextPackets(new) \subseteq new.queued
    BY <2>2, AdvanceFacts
  <2>4. dtx' = Advance(new) /\ rtx' /\ ~Done(dtx')
    BY <1>1, <1>3, <2>2 DEF Done
  <2>5. TxOK(dtx') /\ dtx' \in Transmitter
    BY <2>3, <2>4 DEF TxOK
  <2> QED  BY <1>1, <1>2, <1>3, <2>2, <2>3, <2>4, <2>5
<1>4. CASE ~MayStart(t, d)
  <2>1. t # None /\ dtx' = t /\ rtx' = timer /\ down' = wire
    BY <1>1, <1>4 DEF MayStart
  <2> QED  BY <2>1
<1> QED  BY <1>3, <1>4

-----------------------------------------------------------------------------
(* What the viewer does with packets. *)

LEMMA ViewFields ==
    ASSUME NEW v \in View
    PROVE  /\ v.session \in Update \cup {0} /\ v.last \in Update \cup {0}
           /\ v.expected \in Index \cup {0} /\ v.acked \in SUBSET Index
           /\ v.screen \in [Block -> Update \cup {0}]
           /\ v.queue \in Seq(DesktopPacket)
BY DEF View

LEMMA CloseViewFacts ==
    ASSUME NEW v \in View
    PROVE  LET w == CloseView(v) IN
           /\ w \in View
           /\ w.session = 0 /\ w.last = v.last /\ w.queue = <<>> /\ w.acked = {}
<1>1. <<>> \in Seq(DesktopPacket)
  OBVIOUS
<1> QED  BY <1>1, ViewFields DEF CloseView, NoView, View

LEMMA ShowFacts ==
    ASSUME NEW v \in View, NEW ps \in SUBSET DesktopPacket
    PROVE  LET w == Show(v, ps) IN
           /\ w \in View
           /\ w.session = v.session /\ w.last = v.last /\ w.queue = v.queue
           /\ w.expected = v.expected
           /\ w.acked = v.acked \cup Indexes(ps)
           /\ \A b \in Block : (\A p \in ps : p.block # b) => w.screen[b] = v.screen[b]
           /\ \A p \in ps : (\A q \in ps : p.block = q.block => p = q)
                               => w.screen[p.block] = p.version
<1> DEFINE screen == [b \in Block |-> IF \E p \in ps : p.block = b
                                      THEN (CHOOSE p \in ps : p.block = b).version
                                      ELSE v.screen[b]]
           w == Show(v, ps)
<1>1. Indexes(ps) \in SUBSET Index
  BY PacketFields DEF Indexes
<1>2. ASSUME NEW b \in Block  PROVE screen[b] \in Update \cup {0}
  <2>1. CASE \E p \in ps : p.block = b
    <3>1. (CHOOSE p \in ps : p.block = b) \in ps
      BY <2>1
    <3> QED  BY <2>1, <3>1, PacketFields
  <2>2. CASE ~ \E p \in ps : p.block = b
    BY <2>2, ViewFields
  <2> QED  BY <2>1, <2>2
<1>3. screen \in [Block -> Update \cup {0}]
  BY <1>2
<1>4. \A b \in Block : (\A p \in ps : p.block # b) => screen[b] = v.screen[b]
  OBVIOUS
<1>5. ASSUME NEW p \in ps, \A q \in ps : p.block = q.block => p = q
      PROVE  screen[p.block] = p.version
  <2>1. (CHOOSE q \in ps : q.block = p.block) = p
    BY <1>5
  <2> QED  BY <2>1, PacketFields
<1>6. w = [v EXCEPT !.acked = v.acked \cup Indexes(ps), !.screen = screen]
  BY DEF Show
<1> HIDE DEF screen
<1>7. w \in View
  BY <1>1, <1>3, <1>6, ViewFields DEF View
<1>8. /\ w.session = v.session /\ w.last = v.last /\ w.queue = v.queue
      /\ w.expected = v.expected /\ w.acked = v.acked \cup Indexes(ps)
      /\ w.screen = screen
  BY <1>6 DEF View
<1> QED  BY <1>4, <1>5, <1>7, <1>8

\* A packet of a session that is shown: a duplicate and one of an older update, or of
\* a newer one too early, are left; one of the update it is at is shown, and one of
\* a newer update begins that update.
LEMMA AddToSessionFacts ==
    ASSUME NEW v \in View, NEW p \in DesktopPacket, p.session = v.session
    PROVE  LET w == AddToSession(v, p) IN
           /\ w \in View
           /\ \/ /\ w = v
                 /\ p.update = v.last => p.index \in v.acked
                 /\ p.update > v.last => ~Complete(v)
              \/ /\ p.update = v.last /\ p.index \notin v.acked
                 /\ w = Show(v, {p})
              \/ /\ p.update > v.last /\ Complete(v)
                 /\ \E x \in View :
                       /\ x.session = v.session /\ x.last = p.update /\ x.acked = {}
                       /\ x.expected = p.count /\ x.queue = v.queue
                       /\ x.screen = v.screen
                       /\ w = Show(x, {p})
<1> DEFINE w == AddToSession(v, p)
           x == [v EXCEPT !.last = p.update, !.acked = {}, !.expected = p.count]
<1>1. p.update \in Int /\ v.last \in Int
  BY PacketFields, ViewFields, UpdatesAreNumbers
<1>2. x \in View
  BY PacketFields DEF View
<1>3. /\ x.session = v.session /\ x.last = p.update /\ x.acked = {}
      /\ x.expected = p.count /\ x.queue = v.queue /\ x.screen = v.screen
  BY DEF View
<1>4. w = IF p.update = v.last THEN IF p.index \in v.acked THEN v ELSE Show(v, {p})
          ELSE IF p.update > v.last /\ Complete(v) THEN Show(x, {p}) ELSE v
  BY DEF AddToSession
<1> HIDE DEF x, w
<1>5. Show(v, {p}) \in View /\ Show(x, {p}) \in View
  BY <1>2, ShowFacts
<1>6. CASE p.update = v.last
  BY <1>1, <1>4, <1>5, <1>6 DEF w
<1>7. CASE p.update # v.last /\ p.update > v.last /\ Complete(v)
  BY <1>2, <1>3, <1>4, <1>5, <1>7 DEF w
<1>8. CASE p.update # v.last /\ ~ (p.update > v.last /\ Complete(v))
  BY <1>4, <1>8 DEF w
<1> QED  BY <1>6, <1>7, <1>8

\* A packet when no session is shown: it opens its session with what was queued of
\* its update, or is queued behind what is not newer.
LEMMA AddToQueueFacts ==
    ASSUME NEW v \in View, NEW p \in DesktopPacket
    PROVE  LET w == AddToQueue(v, p) IN
           /\ w \in View
           /\ OpensSession(p) =>
                 \E x \in View :
                    /\ x.session = p.session /\ x.last = p.update /\ x.acked = {}
                    /\ x.expected = p.count /\ x.queue = <<>>
                    /\ w = Show(x, {p} \cup {q \in ToSet(v.queue) : q.update = p.update})
           /\ ~OpensSession(p) =>
                 /\ w.session = v.session /\ w.last = v.last
                 /\ w.queue # <<>>
                 /\ ToSet(w.queue) = {q \in ToSet(v.queue) : q.update <= p.update} \cup {p}
<1>1. v.queue \in Seq(DesktopPacket)
  BY ViewFields
<1>2. ToSet(v.queue) \subseteq DesktopPacket
  BY <1>1 DEF ToSet
<1>3. CASE OpensSession(p)
  <2> DEFINE x == [CloseView(v) EXCEPT !.session = p.session, !.last = p.update,
                                       !.expected = p.count]
             ps == {p} \cup {q \in ToSet(v.queue) : q.update = p.update}
  <2>1. CloseView(v) \in View /\ CloseView(v).acked = {} /\ CloseView(v).queue = <<>>
    BY CloseViewFacts
  <2>2. x \in View
    BY <2>1, PacketFields DEF View
  <2>3. /\ x.session = p.session /\ x.last = p.update /\ x.acked = {}
        /\ x.expected = p.count /\ x.queue = <<>>
    BY <2>1 DEF View
  <2>4. AddToQueue(v, p) = Show(x, ps)
    BY <1>3 DEF AddToQueue
  <2>5. ps \in SUBSET DesktopPacket
    BY <1>2
  <2> HIDE DEF x
  <2>6. Show(x, ps) \in View
    BY <2>2, <2>5, ShowFacts
  <2> QED  BY <1>3, <2>2, <2>3, <2>4, <2>6
<1>4. CASE ~OpensSession(p)
  <2> DEFINE newer == {q \in ToSet(v.queue) : q.update > p.update}
             rest == Without(v.queue, newer)
             queue == IF p \in ToSet(rest) THEN rest ELSE Append(rest, p)
  <2>1. AddToQueue(v, p) = [v EXCEPT !.queue = queue]
    BY <1>4 DEF AddToQueue
  <2>2. rest \in Seq(DesktopPacket) /\ ToSet(rest) = ToSet(v.queue) \ newer
    BY <1>1, WithoutPlaces, WithoutElements
  <2>3. \A q \in DesktopPacket : q.update \in Int
    BY PacketFields, UpdatesAreNumbers
  <2>4. ToSet(rest) = {q \in ToSet(v.queue) : q.update <= p.update}
    BY <1>2, <2>2, <2>3
  <2> HIDE DEF rest
  <2>5. queue \in Seq(DesktopPacket) /\ ToSet(queue) = ToSet(rest) \cup {p}
    <3>1. CASE p \in ToSet(rest)
      BY <2>2, <3>1
    <3>2. CASE p \notin ToSet(rest)
      <4>1. /\ Append(rest, p) \in Seq(DesktopPacket)
            /\ Len(Append(rest, p)) = Len(rest) + 1
            /\ \A i \in 1..Len(rest) : Append(rest, p)[i] = rest[i]
            /\ Append(rest, p)[Len(rest) + 1] = p
        BY <2>2
      <4>2. 1..(Len(rest) + 1) = 1..Len(rest) \cup {Len(rest) + 1}
        BY <2>2
      <4>3. DOMAIN Append(rest, p) = 1..(Len(rest) + 1) /\ DOMAIN rest = 1..Len(rest)
        BY <2>2, <4>1
      <4> HIDE DEF queue
      <4>4. ToSet(Append(rest, p)) = ToSet(rest) \cup {p}
        BY <4>1, <4>2, <4>3 DEF ToSet
      <4> QED  BY <3>2, <4>1, <4>4 DEF queue
    <3> QED  BY <3>1, <3>2
  <2> HIDE DEF queue
  <2>6. queue # <<>>
    <3>1. ToSet(<<>>) = {}
      BY DEF ToSet
    <3> QED  BY <2>5, <3>1
  <2>7. [v EXCEPT !.queue = queue] \in View
    BY <2>5 DEF View
  <2>8. /\ AddToQueue(v, p).session = v.session /\ AddToQueue(v, p).last = v.last
        /\ AddToQueue(v, p).queue = queue
    BY <2>1 DEF View
  <2> QED  BY <1>4, <2>1, <2>4, <2>5, <2>6, <2>7, <2>8
<1> QED  BY <1>3, <1>4

LEMMA AddPacketTyped ==
    ASSUME NEW v \in View, v.session # 0 => v.last # 0, NEW p \in DesktopPacket
    PROVE  LET w == AddPacket(v, p) IN
           w \in View /\ (w.session # 0 => w.last # 0)
<1> DEFINE x == IF v.session # 0 /\ p.session # v.session THEN CloseView(v) ELSE v
           w == AddPacket(v, p)
<1>1. x \in View /\ (x.session # 0 => x.last # 0) /\ (x.session # 0 => x.session = p.session)
  BY CloseViewFacts
<1>2. w = IF x.session = 0 THEN AddToQueue(x, p) ELSE AddToSession(x, p)
  BY DEF AddPacket
<1>3. p.update \in Update /\ p.update # 0
  BY PacketFields, UpdatesAreNumbers
<1> HIDE DEF x, w
<1>4. CASE x.session = 0
  <2>1. AddToQueue(x, p) \in View
    BY <1>1, AddToQueueFacts
  <2>2. CASE OpensSession(p)
    <3>1. PICK y \in View :
             /\ y.last = p.update
             /\ w = Show(y, {p} \cup {q \in ToSet(x.queue) : q.update = p.update})
      BY <1>1, <1>2, <1>4, <2>2, AddToQueueFacts
    <3>2. ToSet(x.queue) \subseteq DesktopPacket
      BY <1>1, ViewFields DEF ToSet
    <3>3. w.last = y.last
      BY <3>1, <3>2, ShowFacts
    <3> QED  BY <1>2, <1>3, <1>4, <2>1, <3>1, <3>3 DEF w
  <2>3. CASE ~OpensSession(p)
    <3>1. AddToQueue(x, p).session = x.session
      BY <1>1, <2>3, AddToQueueFacts
    <3> QED  BY <1>2, <1>4, <2>1, <3>1 DEF w
  <2> QED  BY <2>2, <2>3
<1>5. CASE x.session # 0
  <2>1. p.session = x.session
    BY <1>1, <1>5
  <2>2. AddToSession(x, p) \in View
    BY <1>1, <2>1, AddToSessionFacts
  <2>3. AddToSession(x, p).last \in {x.last, p.update}
    <3>1. AddToSession(x, p) = Show(x, {p}) => AddToSession(x, p).last = x.last
      BY <1>1, ShowFacts
    <3>2. \A y \in View : y.last = p.update /\ AddToSession(x, p) = Show(y, {p})
             => AddToSession(x, p).last = p.update
      BY ShowFacts
    <3> QED  BY <1>1, <2>1, <3>1, <3>2, AddToSessionFacts
  <2> QED  BY <1>1, <1>2, <1>3, <1>5, <2>2, <2>3 DEF w
<1> QED  BY <1>4, <1>5 DEF w

\* An acknowledgement tells of packets the viewer holds.
LEMMA AckFacts ==
    ASSUME NEW v \in View, v.session # 0 => v.last # 0, HasAck(v)
    PROVE  LET a == AckOf(v) IN
           /\ a \in Ack
           /\ a.packets # {}
           /\ v.session # 0 => /\ a.session = v.session /\ a.update = v.last
                               /\ a.packets = v.acked
           /\ v.session = 0 =>
                 \A i \in a.packets : \E q \in ToSet(v.queue) :
                     q.index = i /\ q.session = a.session /\ q.update = a.update
<1>1. CASE v.session # 0
  BY <1>1, ViewFields DEF AckOf, HasAck, Ack
<1>2. CASE v.session = 0
  <2> DEFINE front == {i \in DOMAIN v.queue :
                          \A j \in 1..i : /\ v.queue[j].session = v.queue[1].session
                                          /\ v.queue[j].update = v.queue[1].update}
             packets == {v.queue[i].index : i \in front}
             a == [session |-> v.queue[1].session, update |-> v.queue[1].update,
                   packets |-> packets]
  <2>1. AckOf(v) = a
    BY <1>2 DEF AckOf
  <2>2. v.queue \in Seq(DesktopPacket) /\ v.queue # <<>>
    BY <1>2, ViewFields DEF HasAck
  <2>3. 1 \in DOMAIN v.queue /\ DOMAIN v.queue = 1..Len(v.queue)
    BY <2>2
  <2>4. \A i \in DOMAIN v.queue : v.queue[i] \in DesktopPacket
    BY <2>2
  <2>5. 1 \in front
    BY <2>3
  <2>6. \A i \in front : i \in DOMAIN v.queue /\ i \in 1..i
    BY <2>3
  <2>7. \A i \in front : /\ v.queue[i] \in ToSet(v.queue)
                         /\ v.queue[i].session = a.session
                         /\ v.queue[i].update = a.update
    BY <2>6 DEF ToSet
  <2>8. packets \in SUBSET Index
    BY <2>4, <2>6, PacketFields
  <2>9. packets # {}
    BY <2>5
  <2>10. \A i \in packets : \E q \in ToSet(v.queue) :
             q.index = i /\ q.session = a.session /\ q.update = a.update
    BY <2>7
  <2>11. a \in Ack
    BY <2>3, <2>4, <2>8, PacketFields DEF Ack
  <2> HIDE DEF packets
  <2> QED  BY <1>2, <2>1, <2>9, <2>10, <2>11
<1> QED  BY <1>1, <1>2

-----------------------------------------------------------------------------
(* Every action preserves the invariant of the transmissions. *)

LEMMA TimerFacts ==
    ASSUME BaseInv
    PROVE  /\ rtx \in BOOLEAN /\ dtx \in Transmitter \cup {None}
           /\ rtx <=> (dtx # None /\ ~Done(dtx))
           /\ rtx => dtx.sent # {}
           /\ dtx # None => TxOK(dtx) /\ dtx \in Transmitter
           /\ down \in SUBSET (DesktopPacket \cup Nak)
BY DEF BaseInv, TypeOK, TransmitterOK, TransmissionGoesOn

\* The next update of a desktop is forwarded, by a transmitter or by none.
LEMMA ForwardKeeps ==
    ASSUME BaseInv, desktop' \in Desktop, Fresh(desktop'),
           desktop'.session <= updates', updates' = updates + 1,
           dtx # None /\ dtx.session = desktop'.session => dtx.update <= desktop'.update,
           NEW wire \in SUBSET down, Forward(wire)
    PROVE  /\ rtx' \in BOOLEAN /\ dtx' \in Transmitter \cup {None}
           /\ down' \in SUBSET (DesktopPacket \cup Nak)
           /\ dtx' # None => /\ TxOK(dtx')
                             /\ dtx'.session <= updates'
                             /\ dtx'.session = desktop'.session
                                   => dtx'.update <= desktop'.update
           /\ TransmissionGoesOn'
<1>1. TypeOK /\ TransmitterOK /\ updates \in Int
  BY Numbers DEF BaseInv, TypeOK
<1>2. CASE subscribed
  <2> DEFINE current == dtx # None /\ dtx.session = desktop'.session
             t == IF current THEN dtx ELSE None
  <2>1. StartDesktopTransmitter(t, current /\ rtx, desktop', wire)
    BY <1>2 DEF Forward
  <2>2. /\ t \in Transmitter \cup {None}
        /\ t # None => t = dtx /\ current
        /\ current /\ rtx <=> (t # None /\ ~Done(t))
        /\ current /\ rtx => t.sent # {}
    BY TimerFacts
  <2>3. /\ t # None => TxOK(t) /\ (t.session = desktop'.session => t.update <= desktop'.update)
        /\ (current /\ rtx) \in BOOLEAN
        /\ wire \in SUBSET (DesktopPacket \cup Nak)
    BY <2>2, TimerFacts
  <2>4. t # None => t.session = desktop'.session
    BY <2>2
  <2> HIDE DEF t
  <2>5. /\ TxOK(dtx') /\ dtx' \in Transmitter
        /\ rtx' \in BOOLEAN
        /\ rtx' <=> ~Done(dtx')
        /\ rtx' => dtx'.sent # {}
        /\ down' \in SUBSET (DesktopPacket \cup Nak)
        /\ dtx'.session = desktop'.session \/ (t # None /\ dtx'.session = t.session)
        /\ dtx'.session = desktop'.session => dtx'.update <= desktop'.update
    BY <2>1, <2>2, <2>3, StartFacts
  <2>6. dtx' # None
    BY <2>5, TransmitterFields
  <2> QED  BY <2>4, <2>5, <2>6 DEF TransmissionGoesOn
<1>3. CASE ~subscribed
  <2>1. dtx' = dtx /\ rtx' = rtx /\ down' = wire
    BY <1>3 DEF Forward
  <2>2. dtx # None => dtx.session \in Int /\ dtx.session <= updates
    BY <1>1, TimerFacts, TransmitterFields, UpdatesAreNumbers DEF TransmitterOK
  <2>3. dtx # None => dtx.session <= updates'
    BY <1>1, <2>2
  <2> QED  BY <2>1, <2>3, TimerFacts DEF TransmissionGoesOn, Done
<1> QED  BY <1>2, <1>3

LEMMA SendUpdateKeeps ==
    ASSUME BaseInv, NEW bs \in Changes, SendUpdate(bs)
    PROVE  BaseInv'
<1>1. TypeOK /\ DesktopFresh /\ TransmitterOK
  BY DEF BaseInv
<1>2. /\ desktop \in Desktop /\ updates < MaxUpdate /\ updates' = updates + 1
      /\ desktop' = [desktop EXCEPT !.update = updates',
                        !.version = [b \in Block |-> IF b \in bs THEN updates'
                                                     ELSE desktop.version[b]]]
      /\ Forward(down)
      /\ UNCHANGED <<closing, subscribed, closed, naktimer, viewer, up>>
  BY <1>1 DEF SendUpdate, TypeOK
<1>3. updates \in Nat /\ updates' \in Update
  BY <1>1, <1>2, Numbers DEF TypeOK, Update
<1>4. /\ desktop' \in Desktop
      /\ desktop'.session = desktop.session /\ desktop'.update = updates'
      /\ \A b \in Block : desktop'.version[b] = IF b \in bs THEN updates'
                                                ELSE desktop.version[b]
  BY <1>2, <1>3 DEF Desktop
<1>5. /\ desktop.session \in Int /\ desktop.update \in Int
      /\ desktop.session <= desktop.update /\ desktop.update <= updates
      /\ \A b \in Block : desktop.version[b] \in Int /\ desktop.version[b] <= desktop.update
  <2>1. \A b \in Block : desktop.version[b] \in Update
    BY <1>2, DesktopFields
  <2> QED  BY <1>1, <1>2, <2>1, DesktopFields, UpdatesAreNumbers DEF DesktopFresh, Fresh
<1>6. bs \subseteq Block /\ bs # {}
  BY DesktopAssumption DEF Block
<1>7. Fresh(desktop')
  BY <1>2, <1>3, <1>4, <1>5, <1>6 DEF Fresh
<1>8. ASSUME dtx # None, dtx.session = desktop'.session
      PROVE  dtx.update <= desktop'.update
  <2>1. dtx.update <= desktop.update /\ dtx.update \in Int
    BY <1>1, <1>2, <1>4, <1>8, TransmitterFields, UpdatesAreNumbers, DesktopFields
       DEF TransmitterOK, TypeOK
  <2> QED  BY <1>2, <1>3, <1>4, <1>5, <2>1
<1>9. desktop'.session <= updates'
  BY <1>2, <1>3, <1>4, <1>5
<1>10. /\ rtx' \in BOOLEAN /\ dtx' \in Transmitter \cup {None}
       /\ down' \in SUBSET (DesktopPacket \cup Nak)
       /\ dtx' # None => /\ TxOK(dtx')
                         /\ dtx'.session <= updates'
                         /\ dtx'.session = desktop'.session
                               => dtx'.update <= desktop'.update
       /\ TransmissionGoesOn'
  BY <1>2, <1>4, <1>7, <1>8, <1>9, ForwardKeeps
<1>11. TypeOK'
  BY <1>1, <1>2, <1>3, <1>4, <1>10, Numbers DEF TypeOK, Update, viewer
<1>12. DesktopFresh' /\ TransmitterOK'
  BY <1>3, <1>4, <1>7, <1>9, <1>10, Numbers DEF DesktopFresh, TransmitterOK, Update
<1>13. AcksTell' /\ ViewDated'
  BY <1>2 DEF BaseInv, AcksTell, ViewDated, viewer
<1> QED  BY <1>10, <1>11, <1>12, <1>13 DEF BaseInv

LEMMA OpenSessionKeeps ==
    ASSUME BaseInv, OpenSession
    PROVE  BaseInv'
<1>1. TypeOK /\ DesktopFresh /\ TransmitterOK
  BY DEF BaseInv
<1>2. /\ updates < MaxUpdate /\ updates' = updates + 1 /\ closing' = 0
      /\ desktop' = [session |-> updates', update |-> updates',
                     version |-> [b \in Block |-> updates']]
      /\ Forward(down \cap Nak)
      /\ UNCHANGED <<subscribed, closed, naktimer, viewer, up>>
  BY DEF OpenSession
<1>3. updates \in Nat /\ updates' \in Update
  BY <1>1, <1>2, Numbers DEF TypeOK, Update
<1>4. desktop' \in Desktop /\ desktop'.session = updates' /\ desktop'.update = updates'
  BY <1>2, <1>3 DEF Desktop
<1>5. Block # {}
  BY Numbers DEF Block
<1>6. Fresh(desktop')
  BY <1>2, <1>3, <1>5, UpdatesAreNumbers DEF Fresh
<1>7. dtx # None => dtx.session # desktop'.session
  BY <1>1, <1>2, <1>3, <1>4, TransmitterFields, UpdatesAreNumbers DEF TransmitterOK, TypeOK
<1>8. desktop'.session <= updates' /\ desktop'.update <= updates'
  BY <1>3, <1>4, UpdatesAreNumbers
<1>9. /\ rtx' \in BOOLEAN /\ dtx' \in Transmitter \cup {None}
      /\ down' \in SUBSET (DesktopPacket \cup Nak)
      /\ dtx' # None => /\ TxOK(dtx')
                        /\ dtx'.session <= updates'
                        /\ dtx'.session = desktop'.session
                              => dtx'.update <= desktop'.update
      /\ TransmissionGoesOn'
  BY <1>2, <1>4, <1>6, <1>7, <1>8, ForwardKeeps
<1>10. TypeOK'
  BY <1>1, <1>2, <1>3, <1>4, <1>9, Numbers DEF TypeOK, Update, viewer
<1>11. DesktopFresh' /\ TransmitterOK'
  BY <1>3, <1>4, <1>6, <1>8, <1>9, UpdatesAreNumbers DEF DesktopFresh, TransmitterOK
<1>12. AcksTell' /\ ViewDated'
  BY <1>2 DEF BaseInv, AcksTell, ViewDated, viewer
<1> QED  BY <1>9, <1>10, <1>11, <1>12 DEF BaseInv

LEMMA CloseSessionKeeps ==
    ASSUME BaseInv, CloseSession
    PROVE  BaseInv'
<1>1. closing' \in 0..MaxUpdate
  BY DesktopFields, UpdatesAreNumbers, Numbers DEF CloseSession, BaseInv, TypeOK
<1>2. UNCHANGED <<updates, desktop, subscribed, dtx, rtx, closed, naktimer, viewer, down, up>>
  BY DEF CloseSession
<1> QED
  BY <1>1, <1>2 DEF BaseInv, TypeOK, DesktopFresh, TransmitterOK, AcksTell, ViewDated,
                    TransmissionGoesOn, viewer

LEMMA StopFacts ==
    ASSUME BaseInv, StopDesktopTransmitter
    PROVE  /\ dtx' = None /\ rtx' = FALSE /\ naktimer' = TRUE
           /\ closed' \in ClosedSession \cup {None}
           /\ dtx # None => closed'.session = dtx.session
           /\ closed' = closed \/ (dtx # None /\ closed'.session = dtx.session)
<1>1. closed \in ClosedSession \cup {None} /\ dtx \in Transmitter \cup {None}
  BY DEF BaseInv, TypeOK
<1>2. dtx # None => [session |-> dtx.session, update |-> dtx.update] \in ClosedSession
  BY <1>1, TransmitterFields DEF ClosedSession
<1> QED  BY <1>1, <1>2 DEF StopDesktopTransmitter

LEMMA ReceiveSourceNakKeeps ==
    ASSUME BaseInv, ReceiveSourceNak
    PROVE  BaseInv'
<1>1. TypeOK /\ DesktopFresh /\ TransmitterOK /\ TransmissionGoesOn
  BY DEF BaseInv
<1>2. /\ closing' \in {closing, 0}
      /\ desktop' \in {desktop, None}
      /\ UNCHANGED <<updates, subscribed, viewer, down, up>>
  BY DEF ReceiveSourceNak
<1>3. /\ dtx' \in {dtx, None}
      /\ dtx' = dtx => rtx' = rtx
      /\ dtx' # dtx => rtx' = FALSE
      /\ rtx' \in BOOLEAN /\ naktimer' \in BOOLEAN
      /\ closed' \in ClosedSession \cup {None}
  <2>1. CASE subscribed
    <3>1. StopDesktopTransmitter
      BY <2>1 DEF ReceiveSourceNak
    <3>2. dtx = None => rtx = FALSE
      BY <1>1 DEF TransmissionGoesOn, TypeOK
    <3> QED  BY <3>1, <3>2, StopFacts
  <2>2. CASE ~subscribed
    BY <1>1, <2>2 DEF ReceiveSourceNak, TypeOK
  <2> QED  BY <2>1, <2>2
<1>4. TypeOK'
  BY <1>1, <1>2, <1>3, Numbers DEF TypeOK, viewer
<1>5. DesktopFresh' /\ TransmitterOK'
  BY <1>1, <1>2, <1>3 DEF DesktopFresh, TransmitterOK
<1>6. TransmissionGoesOn'
  BY <1>1, <1>3 DEF TransmissionGoesOn
<1>7. AcksTell' /\ ViewDated'
  BY <1>2 DEF BaseInv, AcksTell, ViewDated, viewer
<1> QED  BY <1>4, <1>5, <1>6, <1>7 DEF BaseInv

LEMMA SendNakKeeps ==
    ASSUME BaseInv, SendNak
    PROVE  BaseInv'
<1>1. down' \in SUBSET (DesktopPacket \cup Nak)
  BY DEF SendNak, BaseInv, TypeOK, ClosedSession, Nak
<1>2. /\ naktimer' = FALSE
      /\ UNCHANGED <<source, desktop, subscribed, dtx, rtx, closed, viewer, up>>
  BY DEF SendNak
<1> QED
  BY <1>1, <1>2 DEF BaseInv, TypeOK, DesktopFresh, TransmitterOK, AcksTell, ViewDated,
                    TransmissionGoesOn, source, viewer

LEMMA RetransmitKeeps ==
    ASSUME BaseInv, RetransmitDesktopPackets
    PROVE  BaseInv'
<1>1. /\ rtx /\ rtx' = (dtx # None)
      /\ UNCHANGED <<source, desktop, subscribed, dtx, closed, naktimer, viewer, up>>
  BY DEF RetransmitDesktopPackets
<1>2. dtx # None /\ TxOK(dtx) /\ dtx.sent # {} /\ rtx' = rtx
  BY <1>1, TimerFacts
<1>3. down' = down \cup Lowest(1, dtx.sent)
  BY <1>2 DEF RetransmitDesktopPackets
<1>4. down' \in SUBSET (DesktopPacket \cup Nak)
  BY <1>2, <1>3, SentFinite, TimerFacts DEF Lowest
<1> QED
  BY <1>1, <1>2, <1>4 DEF BaseInv, TypeOK, DesktopFresh, TransmitterOK, AcksTell, ViewDated,
                          TransmissionGoesOn, source, viewer

LEMMA LoseKeeps ==
    ASSUME BaseInv, Lose
    PROVE  BaseInv'
<1>1. /\ down' \subseteq down /\ up' \subseteq up
      /\ UNCHANGED <<source, desktop, subscribed, dtx, rtx, closed, naktimer, viewer>>
  BY DEF Lose
<1> QED
  BY <1>1 DEF BaseInv, TypeOK, DesktopFresh, TransmitterOK, AcksTell, ViewDated,
              TransmissionGoesOn, source, viewer

LEMMA SendAckKeeps ==
    ASSUME BaseInv, SendAck
    PROVE  BaseInv'
<1>1. /\ acktimer' = FALSE
      /\ up' = up \cup (IF HasAck(view) THEN {AckOf(view)} ELSE {})
      /\ UNCHANGED <<source, desktop, subscribed, dtx, rtx, closed, naktimer, view, down>>
  BY DEF SendAck
<1>2. view \in View /\ (view.session # 0 => view.last # 0)
  BY DEF BaseInv, TypeOK, ViewDated
<1>3. HasAck(view) => AckOf(view) \in Ack /\ AckOf(view).packets # {}
  BY <1>2, AckFacts
<1>4. up' \subseteq Ack /\ AcksTell'
  BY <1>1, <1>3 DEF BaseInv, TypeOK, AcksTell
<1> QED
  BY <1>1, <1>4 DEF BaseInv, TypeOK, DesktopFresh, TransmitterOK, ViewDated,
                    TransmissionGoesOn, source

LEMMA UnsubscribeKeeps ==
    ASSUME BaseInv, Unsubscribe
    PROVE  BaseInv'
<1>1. /\ subscribed' = FALSE /\ StopDesktopTransmitter
      /\ view' = CloseView(view) /\ acktimer' = FALSE
      /\ UNCHANGED <<source, desktop, down, up>>
  BY DEF Unsubscribe
<1>2. view' \in View /\ view'.session = 0
  BY <1>1, CloseViewFacts DEF BaseInv, TypeOK
<1>3. /\ dtx' = None /\ rtx' = FALSE /\ naktimer' = TRUE
      /\ closed' \in ClosedSession \cup {None}
  BY <1>1, StopFacts
<1> QED
  BY <1>1, <1>2, <1>3 DEF BaseInv, TypeOK, DesktopFresh, TransmitterOK, AcksTell, ViewDated,
                          TransmissionGoesOn, source

LEMMA SubscribeKeeps ==
    ASSUME BaseInv, Subscribe
    PROVE  BaseInv'
<1>1. /\ subscribed' = TRUE
      /\ UNCHANGED <<source, desktop, closed, naktimer, viewer, up>>
  BY DEF Subscribe
<1>2. TypeOK /\ DesktopFresh /\ TransmitterOK /\ TransmissionGoesOn
  BY DEF BaseInv
<1>3. /\ dtx' \in Transmitter \cup {None} /\ rtx' \in BOOLEAN
      /\ down' \in SUBSET (DesktopPacket \cup Nak)
      /\ TransmissionGoesOn' /\ TransmitterOK'
  <2>1. CASE desktop = None
    <3>1. UNCHANGED <<dtx, rtx, down>>
      BY <2>1 DEF Subscribe
    <3> QED
      BY <1>1, <1>2, <3>1 DEF TypeOK, TransmissionGoesOn, TransmitterOK, source
  <2>2. CASE desktop # None
    <3>1. StartDesktopTransmitter(dtx, rtx, desktop, down)
      BY <2>2 DEF Subscribe
    <3>2. desktop \in Desktop /\ Fresh(desktop) /\ desktop.session <= updates
      <4>1. desktop \in Desktop /\ Fresh(desktop)
        BY <1>2, <2>2 DEF TypeOK, DesktopFresh
      <4>2. desktop.session \in Int /\ desktop.update \in Int /\ updates \in Int
        BY <1>2, <4>1, DesktopFields, UpdatesAreNumbers, Numbers DEF TypeOK
      <4> QED  BY <1>2, <2>2, <4>1, <4>2 DEF DesktopFresh
    <3>3. dtx # None => TxOK(dtx) /\ (dtx.session = desktop.session => dtx.update <= desktop.update)
      BY <1>2, <2>2 DEF TransmitterOK
    <3>4. /\ TxOK(dtx') /\ dtx' \in Transmitter
          /\ rtx' \in BOOLEAN
          /\ rtx' <=> ~Done(dtx')
          /\ rtx' => dtx'.sent # {}
          /\ down' \in SUBSET (DesktopPacket \cup Nak)
          /\ dtx'.session = desktop.session \/ (dtx # None /\ dtx'.session = dtx.session)
          /\ dtx'.session = desktop.session => dtx'.update <= desktop.update
      BY <3>1, <3>2, <3>3, TimerFacts, StartFacts
    <3>5. dtx' # None
      BY <3>4, TransmitterFields
    <3>6. TransmissionGoesOn'
      BY <3>4, <3>5 DEF TransmissionGoesOn
    <3>7. TransmitterOK'
      BY <1>1, <1>2, <3>2, <3>4 DEF TransmitterOK, source
    <3> QED  BY <3>4, <3>6, <3>7
  <2> QED  BY <2>1, <2>2
<1>4. TypeOK'
  BY <1>1, <1>2, <1>3 DEF TypeOK, source, viewer
<1>5. DesktopFresh' /\ AcksTell' /\ ViewDated'
  BY <1>1 DEF BaseInv, DesktopFresh, AcksTell, ViewDated, source, viewer
<1> QED  BY <1>3, <1>4, <1>5 DEF BaseInv

\* A packet in flight is a nak or one of a desktop.
LEMMA KindsDiffer ==
    ASSUME NEW m \in DesktopPacket \cup Nak
    PROVE  /\ m.kind = "nak" => m \in Nak
           /\ m.kind # "nak" => m \in DesktopPacket
<1>1. "nak" # "desktop"
  OBVIOUS
<1>2. m \in DesktopPacket => m.kind = "desktop"
  BY PacketFields
<1>3. m \in Nak => m.kind = "nak"
  BY DEF Nak
<1> QED  BY <1>1, <1>2, <1>3

LEMMA ReceiveAtViewerKeeps ==
    ASSUME BaseInv, ReceiveAtViewer
    PROVE  BaseInv'
<1>1. PICK m \in down :
         /\ IF m.kind = "nak" THEN ReceiveNak(m) ELSE ReceivePacket(m)
         /\ down' = down \ {m}
         /\ UNCHANGED <<source, desktop, subscribed, dtx, rtx, closed, naktimer, up>>
  BY DEF ReceiveAtViewer
<1>2. /\ view \in View /\ acktimer \in BOOLEAN /\ m \in DesktopPacket \cup Nak
      /\ view.session # 0 => view.last # 0
  BY DEF BaseInv, TypeOK, ViewDated
<1>3. view' \in View /\ acktimer' \in BOOLEAN /\ (view'.session # 0 => view'.last # 0)
  <2>1. CASE m.kind = "nak"
    BY <1>1, <1>2, <2>1, CloseViewFacts DEF ReceiveNak, viewer
  <2>2. CASE m.kind # "nak"
    <3>1. m \in DesktopPacket
      BY <1>2, <2>2, KindsDiffer
    <3>2. AddPacket(view, m) \in View
          /\ (AddPacket(view, m).session # 0 => AddPacket(view, m).last # 0)
      BY <1>2, <3>1, AddPacketTyped
    <3> QED  BY <1>1, <1>2, <2>2, <3>2 DEF ReceivePacket, viewer
  <2> QED  BY <2>1, <2>2
<1> QED
  BY <1>1, <1>3 DEF BaseInv, TypeOK, DesktopFresh, TransmitterOK, AcksTell, ViewDated,
                    TransmissionGoesOn, source

\* What an acknowledgement of the update that is sent does: the holes that are sent
\* again are among what was on the wire, and what is then on the wire or queued is
\* what was not acknowledged.
LEMMA AckedTransmitter ==
    ASSUME NEW t, TxOK(t), NEW a \in Ack, a.packets # {}, NEW lost \in Resendable(ProcessAck(t, a))
    PROVE  LET u == [ProcessAck(t, a) EXCEPT !.tx = @ - Cardinality(lost)]
               n == Advance(u)
           IN  /\ TxOK(n)
               /\ n.session = t.session /\ n.update = t.update
               /\ n.queued \cup n.sent = t.queued \cup (t.sent \ Acked(t, a))
               /\ lost \subseteq t.sent /\ NextPackets(u) \subseteq t.queued
               /\ t.sent # {} /\ n.sent = {} => Done(n)
<1> DEFINE p == ProcessAck(t, a)
           u == [p EXCEPT !.tx = @ - Cardinality(lost)]
           n == Advance(u)
<1>1. /\ TxOK(p)
      /\ p.session = t.session /\ p.update = t.update
      /\ p.queued = t.queued /\ p.sent = t.sent \ Acked(t, a)
      /\ t.sent # {} /\ p.sent = {} => p.tx >= 1
  BY ProcessAckFacts
<1>2. lost \in Resendable(p)
  OBVIOUS
<1> HIDE DEF p
<1>3. /\ TxOK(u)
      /\ u.session = p.session /\ u.update = p.update
      /\ u.queued = p.queued /\ u.sent = p.sent
      /\ lost \subseteq p.sent
      /\ p.sent = {} => u.tx = p.tx
  BY <1>1, <1>2, ResendFacts
<1> HIDE DEF u
<1>4. /\ TxOK(n)
      /\ n.session = u.session /\ n.update = u.update
      /\ n.queued \cup n.sent = u.queued \cup u.sent
      /\ n.queued \subseteq u.queued
      /\ n.sent = u.sent \cup NextPackets(u)
      /\ NextPackets(u) \subseteq u.queued
      /\ u.tx >= 1 /\ u.queued # {} => n.sent # {}
  BY <1>3, AdvanceFacts
<1>5. ASSUME t.sent # {}, n.sent = {}  PROVE Done(n)
  <2>1. u.sent = {} /\ p.sent = {}
    BY <1>3, <1>4, <1>5
  <2>2. u.tx >= 1
    BY <1>1, <1>3, <1>5, <2>1
  <2>3. u.queued = {}
    BY <1>4, <1>5, <2>2
  <2> QED  BY <1>4, <1>5, <2>3 DEF Done
<1> HIDE DEF n
<1>6. /\ TxOK(n)
      /\ n.session = t.session /\ n.update = t.update
      /\ n.queued \cup n.sent = t.queued \cup (t.sent \ Acked(t, a))
      /\ lost \subseteq t.sent /\ NextPackets(u) \subseteq t.queued
      /\ t.sent # {} /\ n.sent = {} => Done(n)
  BY <1>1, <1>3, <1>4, <1>5
<1> QED  BY <1>6 DEF n, u, p

LEMMA ReceiveAckKeeps ==
    ASSUME BaseInv, NEW a \in up, ReceiveAck(a),
           UNCHANGED <<source, desktop, subscribed, naktimer, viewer>>
    PROVE  /\ dtx' \in Transmitter \cup {None} /\ rtx' \in BOOLEAN
           /\ down' \in SUBSET (DesktopPacket \cup Nak)
           /\ closed' = closed
           /\ TransmissionGoesOn' /\ TransmitterOK'
<1>1. dtx # None /\ dtx.session = a.session /\ closed' = closed
  BY DEF ReceiveAck
<1>2. /\ TypeOK /\ DesktopFresh /\ TransmitterOK /\ TransmissionGoesOn
      /\ TxOK(dtx) /\ a \in Ack /\ a.packets # {} /\ rtx \in BOOLEAN
  BY <1>1, TimerFacts DEF BaseInv, TypeOK, AcksTell
<1>3. desktop' = desktop /\ updates' = updates
  BY DEF source
<1>4. CASE dtx.update # a.update
  <2>1. dtx' = dtx /\ rtx' = rtx /\ down' = down
    BY <1>4 DEF ReceiveAck
  <2> QED  BY <1>1, <1>2, <1>3, <2>1, TimerFacts DEF TransmissionGoesOn, TransmitterOK, Done
<1>5. CASE dtx.update = a.update
  <2> DEFINE u(lost) == [ProcessAck(dtx, a) EXCEPT !.tx = @ - Cardinality(lost)]
  <2>1. PICK lost \in Resendable(ProcessAck(dtx, a)) :
           LET n == Advance(u(lost))
               wire == down \cup lost \cup NextPackets(u(lost))
           IN  IF Done(n) /\ desktop # None
               THEN StartDesktopTransmitter(n, FALSE, desktop, wire)
               ELSE dtx' = n /\ rtx' = (rtx /\ ~Done(n)) /\ down' = wire
    BY <1>5 DEF ReceiveAck
  <2> DEFINE n == Advance(u(lost))
             wire == down \cup lost \cup NextPackets(u(lost))
  <2>2. /\ TxOK(n)
        /\ n.session = dtx.session /\ n.update = dtx.update
        /\ lost \subseteq dtx.sent /\ NextPackets(u(lost)) \subseteq dtx.queued
        /\ dtx.sent # {} /\ n.sent = {} => Done(n)
    BY <1>2, AckedTransmitter
  <2>3. IF Done(n) /\ desktop # None
        THEN StartDesktopTransmitter(n, FALSE, desktop, wire)
        ELSE dtx' = n /\ rtx' = (rtx /\ ~Done(n)) /\ down' = wire
    BY <2>1
  <2>4. wire \in SUBSET (DesktopPacket \cup Nak)
    <3>1. dtx.sent \in SUBSET DesktopPacket /\ dtx.queued \in SUBSET DesktopPacket
      BY <1>2, TransmitterFields DEF TxOK
    <3> QED  BY <2>2, <3>1, TimerFacts
  <2> HIDE DEF n, wire
  <2>5. n \in Transmitter /\ n # None
    BY <2>2, TransmitterFields DEF TxOK
  <2>6. desktop # None /\ n.session = desktop.session => n.update <= desktop.update
    BY <1>1, <1>2, <2>2 DEF TransmitterOK
  <2>7. CASE Done(n) /\ desktop # None
    <3>1. StartDesktopTransmitter(n, FALSE, desktop, wire)
      BY <2>3, <2>7
    <3>2. desktop \in Desktop /\ Fresh(desktop) /\ desktop.session <= updates
      <4>1. desktop \in Desktop /\ Fresh(desktop)
        BY <1>2, <2>7 DEF TypeOK, DesktopFresh
      <4>2. desktop.session \in Int /\ desktop.update \in Int /\ updates \in Int
        BY <1>2, <4>1, DesktopFields, UpdatesAreNumbers, Numbers DEF TypeOK
      <4> QED  BY <1>2, <2>7, <4>1, <4>2 DEF DesktopFresh
    <3>3. /\ TxOK(dtx') /\ dtx' \in Transmitter
          /\ rtx' \in BOOLEAN
          /\ rtx' <=> ~Done(dtx')
          /\ rtx' => dtx'.sent # {}
          /\ down' \in SUBSET (DesktopPacket \cup Nak)
          /\ dtx'.session = desktop.session \/ (n # None /\ dtx'.session = n.session)
          /\ dtx'.session = desktop.session => dtx'.update <= desktop.update
      BY <2>2, <2>4, <2>5, <2>6, <2>7, <3>1, <3>2, StartFacts
    <3>4. dtx' # None
      BY <3>3, TransmitterFields
    <3>5. TransmissionGoesOn'
      BY <3>3, <3>4 DEF TransmissionGoesOn
    <3>6. n.session <= updates
      BY <1>1, <1>2, <2>2 DEF TransmitterOK
    <3>7. TransmitterOK'
      BY <1>3, <3>2, <3>3, <3>6 DEF TransmitterOK
    <3> QED  BY <1>1, <3>3, <3>5, <3>7
  <2>8. CASE ~(Done(n) /\ desktop # None)
    <3>1. dtx' = n /\ rtx' = (rtx /\ ~Done(n)) /\ down' = wire
      BY <2>3, <2>8
    <3>2. rtx' \in BOOLEAN /\ dtx' # None /\ dtx' \in Transmitter
      BY <1>2, <2>5, <3>1
    <3>3. n.session <= updates
      BY <1>1, <1>2, <2>2 DEF TransmitterOK
    <3>4. TransmitterOK'
      BY <1>3, <2>2, <2>6, <3>1, <3>3 DEF TransmitterOK
    <3>5. ~Done(n) => rtx /\ dtx.sent # {} /\ n.sent # {}
      <4>1. CASE Done(dtx)
        <5>1. n.queued \cup n.sent = dtx.queued \cup (dtx.sent \ Acked(dtx, a))
          BY <1>2, AckedTransmitter DEF n
        <5>2. n.queued = {} /\ n.sent = {}
          BY <4>1, <5>1 DEF Done
        <5> QED  BY <5>2 DEF Done
      <4>2. CASE ~Done(dtx)
        <5>1. rtx /\ dtx.sent # {}
          BY <1>1, <1>2, <4>2 DEF TransmissionGoesOn
        <5> QED  BY <2>2, <5>1
      <4> QED  BY <4>1, <4>2
    <3>6. rtx' <=> ~Done(n)
      BY <3>1, <3>5
    <3>7. TransmissionGoesOn'
      BY <3>1, <3>2, <3>5, <3>6 DEF TransmissionGoesOn
    <3> QED  BY <1>1, <2>4, <3>1, <3>2, <3>4, <3>7
  <2> QED  BY <2>7, <2>8
<1> QED  BY <1>4, <1>5

LEMMA ReceiveAtServerKeeps ==
    ASSUME BaseInv, ReceiveAtServer
    PROVE  BaseInv'
<1>1. PICK a \in up :
         /\ up' = up \ {a}
         /\ ReceiveOldAck(a) \/ ReceiveAck(a)
         /\ UNCHANGED <<source, desktop, subscribed, naktimer, viewer>>
  BY DEF ReceiveAtServer
<1>2. TypeOK /\ TransmitterOK /\ TransmissionGoesOn
  BY DEF BaseInv
<1>3. /\ dtx' \in Transmitter \cup {None} /\ rtx' \in BOOLEAN
      /\ down' \in SUBSET (DesktopPacket \cup Nak)
      /\ closed' \in ClosedSession \cup {None}
      /\ TransmissionGoesOn' /\ TransmitterOK'
  <2>1. CASE ReceiveOldAck(a)
    <3>1. [kind |-> "nak", session |-> a.session] \in Nak
      BY <1>2 DEF TypeOK, Ack, Nak
    <3>2. /\ dtx' = dtx /\ rtx' = rtx
          /\ closed' \in {closed, None}
          /\ down' \in {down, down \cup {[kind |-> "nak", session |-> a.session]}}
      BY <2>1 DEF ReceiveOldAck
    <3> QED
      BY <1>1, <1>2, <3>1, <3>2 DEF TypeOK, TransmissionGoesOn, TransmitterOK, source
  <2>2. CASE ReceiveAck(a)
    BY <1>1, <1>2, <2>2, ReceiveAckKeeps DEF TypeOK
  <2> QED  BY <1>1, <2>1, <2>2
<1>4. TypeOK'
  BY <1>1, <1>2, <1>3 DEF TypeOK, source, viewer
<1>5. DesktopFresh' /\ AcksTell' /\ ViewDated'
  BY <1>1 DEF BaseInv, DesktopFresh, AcksTell, ViewDated, source, viewer
<1> QED  BY <1>3, <1>4, <1>5 DEF BaseInv

LEMMA InitBase ==
    ASSUME Init
    PROVE  BaseInv
<1>1. NoView \in View /\ NoView.session = 0
  <2>1. << >> \in Seq(DesktopPacket)
    OBVIOUS
  <2> QED  BY <2>1 DEF NoView, View
<1>2. TypeOK
  <2>1. 0 \in 0..MaxUpdate
    BY Numbers
  <2> QED  BY <1>1, <2>1 DEF Init, TypeOK
<1>3. DesktopFresh /\ TransmitterOK /\ AcksTell /\ ViewDated
  BY <1>1 DEF Init, DesktopFresh, TransmitterOK, AcksTell, ViewDated
<1>4. TransmissionGoesOn
  BY DEF Init, TransmissionGoesOn
<1> QED  BY <1>2, <1>3, <1>4 DEF BaseInv

LEMMA NextBase ==
    ASSUME BaseInv, [Next]_vars
    PROVE  BaseInv'
<1>1. CASE UNCHANGED vars
  BY <1>1 DEF BaseInv, TypeOK, DesktopFresh, TransmitterOK, AcksTell, ViewDated,
              TransmissionGoesOn, vars, source, viewer
<1>2. CASE Next
  BY <1>2, SendUpdateKeeps, OpenSessionKeeps, CloseSessionKeeps, ReceiveSourceNakKeeps,
     SendNakKeeps, RetransmitKeeps, ReceiveAtServerKeeps, ReceiveAtViewerKeeps, SendAckKeeps,
     SubscribeKeeps, UnsubscribeKeeps, LoseKeeps DEF Next
<1> QED  BY <1>1, <1>2

\* The invariant of the transmissions holds.
THEOREM Invariant == Spec => []BaseInv
<1>1. Init => BaseInv
  BY InitBase
<1>2. BaseInv /\ [Next]_vars => BaseInv'
  BY NextBase
<1> QED  BY <1>1, <1>2, PTL DEF Spec

\* The server, the viewer and the packets in flight are of their types.
THEOREM TypeCorrect == Spec => []TypeOK
<1>1. BaseInv => TypeOK
  BY DEF BaseInv
<1> QED  BY <1>1, Invariant, PTL

\* A transmission that is not done has a packet on the wire and the timer that repeats
\* it, and only such a one has the timer (StartDesktopTransmitter(),
\* ReceivedDesktopAckPacket() and the timer itself).
THEOREM TransmissionsGoOn == Spec => []TransmissionGoesOn
<1>1. BaseInv => TransmissionGoesOn
  BY DEF BaseInv
<1> QED  BY <1>1, Invariant, PTL

\* What is on the wire and the room for more stay in the window, however
\* ProcessDesktopAckPacket() releases and takes room.
THEOREM WindowsAreKept == Spec => []WindowKept
<1>1. BaseInv => WindowKept
  BY DEF BaseInv, TransmitterOK, TxOK, WindowKept
<1> QED  BY <1>1, Invariant, PTL

-----------------------------------------------------------------------------
(* What a transmission that is done has brought. The argument follows the  *)
(* set ps of all packets of the transmission, which the server itself does *)
(* not keep: it has only those that are queued or on the wire.             *)

\* The indexes of the packets of ps that viewer v has and acknowledges.
Got(ps, t, v) ==
    IF v.session = t.session THEN IF v.last = t.update THEN v.acked ELSE {}
    ELSE Indexes(ToSet(v.queue) \cap ps)

\* ps is a transmission t of desktop d.
Shape(ps, t, d) ==
    /\ ps # {}
    /\ Distinct(ps)
    /\ \A p, q \in ps : p.block = q.block => p = q
    /\ Indexes(ps) = 1..Cardinality(ps)
    /\ t.session <= t.update
    /\ \A p \in ps : /\ p.session = t.session /\ p.update = t.update
                     /\ p.count = Cardinality(ps)
                     /\ d.version[p.block] <= t.update => d.version[p.block] = p.version

\* A packet of an earlier transmission, which makes no difference to the viewer.
Passed(p, t, v) ==
    /\ v.session = t.session
    /\ p.update < t.update
    /\ p.update < v.last \/ (p.update = v.last /\ p.index \in v.acked)

InFlight(ps, t, v, net) ==
    \A p \in net : p.kind = "desktop" => /\ p.session = t.session
                                         /\ p \in ps \/ Passed(p, t, v)

\* Acknowledgements tell of no packet the viewer has not got.
AcksTrue(ps, t, v, acks) ==
    \A a \in acks : a.session = t.session =>
        /\ a.update <= t.update
        /\ a.update = t.update => a.packets \subseteq Got(ps, t, v)

\* A viewer who is at the session shows what the transmission does not carry, and
\* what it has of the transmission, or has the last one complete.
Shown(ps, t, d, v) ==
    v.session = t.session =>
        /\ v.last <= t.update
        /\ \A b \in Block \ BlocksOf(ps) : d.version[b] <= t.update => v.screen[b] = d.version[b]
        /\ v.last = t.update =>
              /\ v.expected = Cardinality(ps)
              /\ v.acked \subseteq Indexes(ps)
              /\ \A p \in ps : p.index \in v.acked => v.screen[p.block] = p.version
        /\ v.last < t.update => Complete(v)

\* A viewer who is not at the session yet gets all blocks.
NotYet(ps, t, v) ==
    v.session # t.session =>
        /\ BlocksOf(ps) = Block
        /\ \A p \in ps : p.all
        /\ \A q \in ToSet(v.queue) : q \in ps \/ q.update < t.session

\* The viewer has got what is not queued and not on the wire.
Left(ps, t, v) ==
    /\ t.queued \cup t.sent \subseteq ps
    /\ \A p \in ps \ (t.queued \cup t.sent) : p.index \in Got(ps, t, v)

Delivering(ps, t, d, v, net, acks) ==
    /\ Shape(ps, t, d)
    /\ InFlight(ps, t, v, net)
    /\ AcksTrue(ps, t, v, acks)
    /\ Shown(ps, t, d, v)
    /\ NotYet(ps, t, v)
    /\ Left(ps, t, v)

\* The viewer queues only packets before the one that opens their session.
QueueOK(v) ==
    /\ v.session # 0 => v.queue = <<>>
    /\ \A q \in ToSet(v.queue) : ~OpensSession(q)

LEMMA ShapeCardinality ==
    ASSUME NEW ps \in SUBSET DesktopPacket, ps # {}, Distinct(ps)
    PROVE  /\ IsFiniteSet(ps) /\ Cardinality(ps) \in Nat /\ Cardinality(ps) >= 1
           /\ Cardinality(ps) \in Index
<1>1. IsFiniteSet(ps) /\ Cardinality(ps) \in Nat /\ Cardinality(ps) <= Blocks
  BY DistinctFinite
<1>2. Cardinality(ps) # 0
  BY <1>1, FS_EmptySet
<1> QED  BY <1>1, <1>2, Numbers DEF Index

\* When the transmission is done, the viewer has all of it and shows the desktop as
\* far as it did not change since.
LEMMA DoneShows ==
    ASSUME NEW ps \in SUBSET DesktopPacket, NEW t \in Transmitter, NEW d \in Desktop,
           NEW v \in View, NEW net, NEW acks, Delivering(ps, t, d, v, net, acks),
           QueueOK(v), Done(t)
    PROVE  /\ v.session = t.session /\ v.last = t.update
           /\ v.acked = Indexes(ps) /\ Complete(v)
           /\ \A b \in Block : d.version[b] <= t.update => v.screen[b] = d.version[b]
<1>1. /\ Shape(ps, t, d) /\ Shown(ps, t, d, v) /\ NotYet(ps, t, v) /\ Left(ps, t, v)
  BY DEF Delivering
<1>2. \A p \in ps : p.index \in Got(ps, t, v)
  BY <1>1 DEF Left, Done
<1>3. Cardinality(ps) \in Nat /\ Cardinality(ps) >= 1
  BY <1>1, ShapeCardinality DEF Shape
<1>4. ASSUME v.session # t.session  PROVE FALSE
  <2>1. Got(ps, t, v) = Indexes(ToSet(v.queue) \cap ps)
    BY <1>4 DEF Got
  <2>2. 1 \in Indexes(ps)
    BY <1>1, <1>3 DEF Shape
  <2>3. PICK p \in ps : p.index = 1
    BY <2>2 DEF Indexes
  <2>4. PICK q \in ToSet(v.queue) \cap ps : q.index = 1
    BY <1>2, <2>1, <2>3 DEF Indexes
  <2>5. OpensSession(q)
    BY <1>1, <1>4, <2>4 DEF NotYet, OpensSession
  <2> QED  BY <2>4, <2>5 DEF QueueOK
<1>5. v.last = t.update
  BY <1>1, <1>2, <1>4 DEF Shape, Got
<1>6. Indexes(ps) \subseteq v.acked
  BY <1>2, <1>4, <1>5 DEF Got, Indexes
<1>7. /\ v.acked = Indexes(ps) /\ v.expected = Cardinality(ps)
      /\ \A p \in ps : v.screen[p.block] = p.version
  BY <1>1, <1>2, <1>4, <1>5, <1>6 DEF Shown, Got
<1>8. Complete(v)
  <2>1. v.acked = 1..Cardinality(ps)
    BY <1>1, <1>7 DEF Shape
  <2>2. Cardinality(1..Cardinality(ps)) = Cardinality(ps)
    BY <1>3, FS_Interval
  <2> QED  BY <1>7, <2>1, <2>2 DEF Complete
<1>9. ASSUME NEW b \in Block, d.version[b] <= t.update  PROVE v.screen[b] = d.version[b]
  <2>1. CASE b \in BlocksOf(ps)
    <3>1. PICK p \in ps : p.block = b
      BY <2>1 DEF BlocksOf
    <3> QED  BY <1>1, <1>7, <1>9, <3>1 DEF Shape
  <2>2. CASE b \notin BlocksOf(ps)
    BY <1>1, <1>4, <1>9, <2>2 DEF Shown
  <2> QED  BY <2>1, <2>2
<1> QED  BY <1>4, <1>5, <1>7, <1>8, <1>9

\* What the viewer gets next it keeps: what was true of acknowledgements stays true.
LEMMA GotGrows ==
    ASSUME NEW ps, NEW t, NEW v, NEW w, NEW acks, Got(ps, t, v) \subseteq Got(ps, t, w),
           AcksTrue(ps, t, v, acks), Left(ps, t, v)
    PROVE  AcksTrue(ps, t, w, acks) /\ Left(ps, t, w)
<1>1. AcksTrue(ps, t, w, acks)
  BY DEF AcksTrue
<1>2. Left(ps, t, w)
  BY DEF Left
<1> QED  BY <1>1, <1>2

\* Losing packets and acknowledgements, and sending packets again, changes nothing.
LEMMA NetChanges ==
    ASSUME NEW ps, NEW t, NEW d, NEW v, NEW net, NEW acks,
           Delivering(ps, t, d, v, net, acks),
           NEW wire, \A p \in wire : p \in net \/ p \in ps \/ p.kind # "desktop",
           NEW some \in SUBSET acks
    PROVE  Delivering(ps, t, d, v, wire, some)
<1>1. InFlight(ps, t, v, wire)
  <2>1. \A p \in ps : p.session = t.session
    BY DEF Delivering, Shape
  <2> QED  BY <2>1 DEF Delivering, InFlight
<1>2. AcksTrue(ps, t, v, some)
  BY DEF Delivering, AcksTrue
<1> QED  BY <1>1, <1>2 DEF Delivering

\* The packets of a new transmission are a transmission of the desktop.
LEMMA NewDelivers ==
    ASSUME NEW d \in Desktop, Fresh(d), d.session <= d.update,
           NEW bs \in SUBSET Block, bs # {}, NEW all \in BOOLEAN,
           NEW t \in Transmitter, t.session = d.session, t.update = d.update,
           t.queued \cup t.sent = PacketsFor(d, bs, all),
           NEW v, NEW net, NEW acks,
           LET ps == PacketsFor(d, bs, all)
           IN  /\ InFlight(ps, t, v, net)
               /\ AcksTrue(ps, t, v, acks)
               /\ Shown(ps, t, d, v)
               /\ NotYet(ps, t, v)
    PROVE  \E ps \in SUBSET DesktopPacket : Delivering(ps, t, d, v, net, acks)
<1> DEFINE ps == PacketsFor(d, bs, all)
<1>1. /\ ps \in SUBSET DesktopPacket /\ ps # {} /\ Distinct(ps)
      /\ \A p, q \in ps : p.block = q.block => p = q
      /\ Cardinality(bs) \in Index
      /\ Indexes(ps) = 1..Cardinality(bs)
      /\ \A p \in ps : /\ p.session = d.session /\ p.update = d.update
                       /\ p.count = Cardinality(bs)
                       /\ p.version = d.version[p.block]
  <2> DEFINE packets == PacketsFor(d, bs, all)
  <2>1. packets \in SUBSET DesktopPacket /\ packets # {}
    BY PacketsForFacts
  <2>3. Distinct(packets)
    BY PacketsForFacts
  <2>4. \A p, q \in packets : p.block = q.block => p = q
    BY PacketsForFacts
  <2>5. Cardinality(bs) \in Index /\ Indexes(packets) = 1..Cardinality(bs)
    BY PacketsForFacts
  <2>2. \A p \in PacketsFor(d, bs, all) : /\ p.session = d.session /\ p.update = d.update
                                          /\ p.count = Cardinality(bs)
                                          /\ p.version = d.version[p.block]
    BY PacketsForFacts
  <2> QED  BY <2>1, <2>2, <2>3, <2>4, <2>5
<1>2. InFlight(ps, t, v, net) /\ AcksTrue(ps, t, v, acks) /\ Shown(ps, t, d, v) /\ NotYet(ps, t, v)
  OBVIOUS
<1> HIDE DEF ps
<1>3. Cardinality(ps) = Cardinality(bs)
  <2> DEFINE f == [p \in ps |-> p.index]
             T == 1..Cardinality(bs)
  <2>1. f \in [ps -> T]
    BY <1>1 DEF Indexes
  <2>2. \A p, q \in ps : f[p] = f[q] => p = q
    BY <1>1 DEF Distinct
  <2>3. \A n \in T : \E p \in ps : f[p] = n
    BY <1>1 DEF Indexes
  <2>4. f \in Bijection(ps, T)
    BY <2>1, <2>2, <2>3 DEF Bijection, Injection, Surjection, IsInjective
  <2>5. Cardinality(bs) \in Nat
    BY <1>1, Numbers DEF Index
  <2>6. IsFiniteSet(T) /\ Cardinality(T) = Cardinality(bs)
    BY <2>5, FS_Interval
  <2>7. IsFiniteSet(ps)
    BY <1>1, DistinctFinite
  <2> HIDE DEF f, T
  <2>8. ExistsBijection(ps, T)
    BY <2>4 DEF ExistsBijection
  <2>9. Cardinality(ps) = Cardinality(T)
    BY <2>7, <2>8, FS_Bijection
  <2> QED  BY <2>6, <2>9
<1>4. Shape(ps, t, d)
  BY <1>1, <1>3 DEF Shape
<1>5. Left(ps, t, v)
  BY DEF Left, ps
<1> QED  BY <1>1, <1>2, <1>4, <1>5 DEF Delivering

\* A first transmission of a session, when the viewer has nothing of it and there is
\* nothing of it in flight.
LEMMA FirstDelivers ==
    ASSUME NEW d \in Desktop, Fresh(d), d.session <= d.update,
           NEW v \in View, v.session # d.session,
           \A q \in ToSet(v.queue) : q.update < d.session,
           NEW net, \A m \in net : m.kind # "desktop",
           NEW acks, \A a \in acks : a.session # d.session
    PROVE  LET new == NewTransmitter(None, d) IN
           \E ps \in SUBSET DesktopPacket :
               Delivering(ps, Advance(new), d, v, net \cup NextPackets(new), acks)
<1> DEFINE new == NewTransmitter(None, d)
           t == Advance(new)
           wire == net \cup NextPackets(new)
           ps == PacketsFor(d, Block, TRUE)
<1>1. PacketsAfter(None, d) = ps
  BY DEF PacketsAfter
<1>2. /\ TxOK(new)
      /\ new.session = d.session /\ new.update = d.update
      /\ new.queued = ps /\ new.sent = {}
  BY <1>1, NewTransmitterFacts
<1> HIDE DEF new
<1>3. /\ TxOK(t)
      /\ t.session = d.session /\ t.update = d.update
      /\ t.queued \cup t.sent = ps
      /\ NextPackets(new) \subseteq ps
  <2>1. /\ TxOK(t)
        /\ t.session = new.session /\ t.update = new.update
        /\ t.queued \cup t.sent = new.queued \cup new.sent
        /\ NextPackets(new) \subseteq new.queued
    BY <1>2, AdvanceFacts
  <2> QED  BY <1>2, <2>1
<1>4. Block # {} /\ Block \in SUBSET Block /\ TRUE \in BOOLEAN
  BY Numbers DEF Block
<1>5. /\ BlocksOf(ps) = Block
      /\ \A p \in ps : p.session = d.session /\ p.all = TRUE
  BY <1>4, PacketsForFacts
<1> HIDE DEF t, ps
<1>6. InFlight(ps, t, v, wire)
  BY <1>3, <1>5 DEF InFlight
<1>7. AcksTrue(ps, t, v, acks)
  BY <1>3 DEF AcksTrue
<1>8. Shown(ps, t, d, v) /\ NotYet(ps, t, v)
  BY <1>3, <1>5 DEF Shown, NotYet
<1>9. t \in Transmitter
  BY <1>3 DEF TxOK
<1>10. \E qs \in SUBSET DesktopPacket : Delivering(qs, t, d, v, wire, acks)
  BY <1>3, <1>4, <1>6, <1>7, <1>8, <1>9, NewDelivers DEF ps
<1> QED  BY <1>10 DEF t, new

\* A later one of the same session, when the last one is done.
LEMMA NextDelivers ==
    ASSUME NEW d \in Desktop, Fresh(d), d.session <= d.update,
           NEW last \in Transmitter, Done(last), last.session = d.session,
           last.update < d.update,
           NEW v \in View, QueueOK(v),
           NEW net \in SUBSET (DesktopPacket \cup Nak), NEW acks \in SUBSET Ack,
           NEW qs \in SUBSET DesktopPacket, Delivering(qs, last, d, v, net, acks)
    PROVE  LET new == NewTransmitter(last, d) IN
           \E ps \in SUBSET DesktopPacket :
               Delivering(ps, Advance(new), d, v, net \cup NextPackets(new), acks)
<1> DEFINE new == NewTransmitter(last, d)
           t == Advance(new)
           wire == net \cup NextPackets(new)
<1>1. /\ v.session = last.session /\ v.last = last.update
      /\ v.acked = Indexes(qs) /\ Complete(v)
      /\ \A b \in Block : d.version[b] <= last.update => v.screen[b] = d.version[b]
  BY DoneShows
<1>2. PICK bs \in SUBSET Block, all \in BOOLEAN :
         /\ bs # {}
         /\ PacketsAfter(last, d) = PacketsFor(d, bs, all)
         /\ \A b \in Block \ bs : d.version[b] <= last.update
  BY PacketsAfterFacts
<1> DEFINE ps == PacketsFor(d, bs, all)
<1>3. /\ TxOK(new)
      /\ new.session = d.session /\ new.update = d.update
      /\ new.queued = ps /\ new.sent = {}
  BY <1>2, NewTransmitterFacts
<1> HIDE DEF new
<1>4. /\ TxOK(t)
      /\ t.session = d.session /\ t.update = d.update
      /\ t.queued \cup t.sent = ps
      /\ NextPackets(new) \subseteq ps
  <2>1. /\ TxOK(t)
        /\ t.session = new.session /\ t.update = new.update
        /\ t.queued \cup t.sent = new.queued \cup new.sent
        /\ NextPackets(new) \subseteq new.queued
    BY <1>3, AdvanceFacts
  <2> QED  BY <1>3, <2>1
<1>5. /\ BlocksOf(ps) = bs
      /\ \A p \in ps : p.session = d.session
  <2>1. BlocksOf(PacketsFor(d, bs, all)) = bs
    BY <1>2, PacketsForFacts
  <2>2. \A p \in PacketsFor(d, bs, all) : p.session = d.session
    BY <1>2, PacketsForFacts
  <2> QED  BY <2>1, <2>2
<1>6. last.update \in Int /\ d.update \in Int /\ last.update < d.update
  BY TransmitterFields, DesktopFields, UpdatesAreNumbers
<1>7. /\ Shape(qs, last, d) /\ InFlight(qs, last, v, net) /\ AcksTrue(qs, last, v, acks)
  BY DEF Delivering
<1> HIDE DEF t, ps
<1>8. InFlight(ps, t, v, wire)
  <2>1. ASSUME NEW p \in net, p.kind = "desktop"
        PROVE  p.session = t.session /\ Passed(p, t, v)
    <3>1. CASE p \in qs
      <4>1. p.update = last.update /\ p.session = last.session /\ p.index \in v.acked
        BY <1>1, <1>7, <3>1 DEF Shape, Indexes
      <4> QED  BY <1>1, <1>4, <1>6, <4>1 DEF Passed
    <3>2. CASE Passed(p, last, v)
      <4>1. v.last \in Int
        BY <1>1, <1>6
      <4>2. p.update < d.update
        <5>1. p.update < last.update
          BY <3>2 DEF Passed
        <5>2. p.update \in Int
          BY <2>1, KindsDiffer, PacketFields, UpdatesAreNumbers
        <5> QED  BY <1>6, <5>1, <5>2
      <4> QED  BY <1>1, <1>4, <1>7, <2>1, <3>2, <4>2 DEF Passed, InFlight
    <3> QED  BY <1>7, <2>1, <3>1, <3>2 DEF InFlight
  <2> QED  BY <1>4, <1>5, <2>1 DEF InFlight
<1>9. AcksTrue(ps, t, v, acks)
  <2>1. ASSUME NEW a \in acks, a.session = t.session
        PROVE  a.update <= t.update /\ a.update # t.update
    <3>1. a.update \in Int
      BY UpdatesAreNumbers DEF Ack
    <3>2. a.update <= last.update
      BY <1>4, <1>7, <2>1 DEF AcksTrue
    <3> QED  BY <1>4, <1>6, <3>1, <3>2
  <2> QED  BY <2>1 DEF AcksTrue
<1>10. Shown(ps, t, d, v)
  BY <1>1, <1>2, <1>4, <1>5, <1>6 DEF Shown
<1>11. NotYet(ps, t, v)
  BY <1>1, <1>4 DEF NotYet
<1>12. t \in Transmitter
  BY <1>4 DEF TxOK
<1>13. \E rs \in SUBSET DesktopPacket : Delivering(rs, t, d, v, wire, acks)
  BY <1>2, <1>4, <1>8, <1>9, <1>10, <1>11, <1>12, NewDelivers DEF ps
<1> QED  BY <1>13 DEF t, new

\* A packet of an earlier transmission changes nothing at the viewer.
LEMMA PassedChangesNothing ==
    ASSUME NEW t \in Transmitter, NEW v \in View, NEW p \in DesktopPacket,
           p.session = t.session, Passed(p, t, v), p.update >= v.last
    PROVE  AddPacket(v, p) = v
<1>1. p.update \in Int /\ v.last \in Int
  BY PacketFields, ViewFields, UpdatesAreNumbers
<1>2. v.session = p.session /\ p.update = v.last /\ p.index \in v.acked
  BY <1>1 DEF Passed
<1>3. v.session # 0
  BY <1>2, PacketFields, UpdatesAreNumbers
<1>4. AddToSession(v, p) = v
  BY <1>2 DEF AddToSession
<1> QED  BY <1>2, <1>3, <1>4 DEF AddPacket

\* A packet of the transmission to a viewer who is at the session.
LEMMA SessionDelivers ==
    ASSUME NEW ps \in SUBSET DesktopPacket, NEW t \in Transmitter, NEW d \in Desktop,
           NEW v \in View, NEW net \in SUBSET (DesktopPacket \cup Nak), NEW acks,
           Delivering(ps, t, d, v, net, acks), v.session = t.session, NEW p \in ps
    PROVE  LET w == AddToSession(v, p) IN
           Delivering(ps, t, d, w, net, acks) /\ w.queue = v.queue /\ w.session = v.session
<1> DEFINE w == AddToSession(v, p)
<1>1. /\ Shape(ps, t, d) /\ InFlight(ps, t, v, net) /\ AcksTrue(ps, t, v, acks)
      /\ Shown(ps, t, d, v) /\ Left(ps, t, v)
  BY DEF Delivering
<1>2. p \in DesktopPacket /\ p.session = v.session /\ p.update = t.update
  BY <1>1 DEF Shape
<1>3. v.last \in Int /\ t.update \in Int /\ v.last <= t.update
  BY <1>1, ViewFields, TransmitterFields, UpdatesAreNumbers DEF Shown
<1>4. /\ w \in View
      /\ \/ w = v
         \/ p.update = v.last /\ w = Show(v, {p})
         \/ /\ p.update > v.last
            /\ \E x \in View : /\ x.session = v.session /\ x.last = p.update /\ x.acked = {}
                               /\ x.expected = p.count /\ x.queue = v.queue
                               /\ x.screen = v.screen
                               /\ w = Show(x, {p})
  BY <1>2, AddToSessionFacts
<1> HIDE DEF w
<1>5. CASE w = v
  BY <1>5 DEF w
<1>6. ASSUME w # v
      PROVE  /\ w.session = v.session /\ w.queue = v.queue /\ w.last = t.update
             /\ w.expected = Cardinality(ps)
             /\ v.last = t.update => v.acked \subseteq w.acked
             /\ w.acked = {p.index} \cup (IF v.last = t.update THEN v.acked ELSE {})
             /\ w.screen[p.block] = p.version
             /\ \A b \in Block : b # p.block => w.screen[b] = v.screen[b]
  <2>1. /\ {p} \in SUBSET DesktopPacket /\ Indexes({p}) = {p.index}
        /\ \A q \in {p} : p.block = q.block => p = q
    BY <1>2 DEF Indexes
  <2>2. CASE p.update = v.last /\ w = Show(v, {p})
    <3>1. /\ w.session = v.session /\ w.last = v.last /\ w.queue = v.queue
          /\ w.expected = v.expected
          /\ w.acked = v.acked \cup Indexes({p})
      BY <2>1, <2>2, ShowFacts
    <3>2. w.screen[p.block] = p.version
      BY <2>1, <2>2, ShowFacts
    <3>3. \A b \in Block : b # p.block => w.screen[b] = v.screen[b]
      BY <2>1, <2>2, ShowFacts
    <3>4. v.expected = Cardinality(ps)
      BY <1>1, <1>2, <2>2 DEF Shown
    <3> QED  BY <1>2, <2>1, <2>2, <3>1, <3>2, <3>3, <3>4
  <2>3. CASE /\ p.update > v.last
             /\ \E x \in View : /\ x.session = v.session /\ x.last = p.update /\ x.acked = {}
                                /\ x.expected = p.count /\ x.queue = v.queue
                                /\ x.screen = v.screen
                                /\ w = Show(x, {p})
    <3> PICK x \in View : /\ x.session = v.session /\ x.last = p.update /\ x.acked = {}
                          /\ x.expected = p.count /\ x.queue = v.queue
                          /\ x.screen = v.screen
                          /\ w = Show(x, {p})
      BY <2>3
    <3>1. /\ w.session = x.session /\ w.last = x.last /\ w.queue = x.queue
          /\ w.expected = x.expected
          /\ w.acked = x.acked \cup Indexes({p})
      BY <2>1, ShowFacts
    <3>2. w.screen[p.block] = p.version
      BY <2>1, ShowFacts
    <3>3. \A b \in Block : b # p.block => w.screen[b] = x.screen[b]
      BY <2>1, ShowFacts
    <3>4. p.count = Cardinality(ps)
      BY <1>1 DEF Shape
    <3>5. v.last # t.update
      BY <1>2, <1>3, <2>3
    <3> QED  BY <1>2, <2>1, <3>1, <3>2, <3>3, <3>4, <3>5
  <2> QED  BY <1>4, <1>6, <2>2, <2>3
<1>7. CASE w # v
  <2>1. /\ w.session = t.session /\ w.last = t.update
        /\ w.acked = {p.index} \cup (IF v.last = t.update THEN v.acked ELSE {})
        /\ v.last = t.update => v.acked \subseteq w.acked
    BY <1>6, <1>7
  <2>2. Got(ps, t, v) \subseteq Got(ps, t, w)
    BY <2>1 DEF Got
  <2>3. AcksTrue(ps, t, w, acks) /\ Left(ps, t, w)
    BY <1>1, <2>2, GotGrows
  <2>4. InFlight(ps, t, w, net)
    <3>1. ASSUME NEW q \in net, q.kind = "desktop", Passed(q, t, v)
          PROVE  Passed(q, t, w)
      <4>1. q.update \in Int
        BY <3>1, KindsDiffer, PacketFields, UpdatesAreNumbers
      <4>2. q.update < t.update
        BY <3>1 DEF Passed
      <4> QED  BY <2>1, <4>2 DEF Passed
    <3> QED  BY <1>1, <3>1 DEF InFlight
  <2>5. Shown(ps, t, d, w)
    <3>1. \A b \in Block \ BlocksOf(ps) : d.version[b] <= t.update => w.screen[b] = d.version[b]
      <4>1. p.block \in BlocksOf(ps)
        BY DEF BlocksOf
      <4> QED  BY <1>1, <1>6, <1>7, <4>1 DEF Shown
    <3>2. w.acked \subseteq Indexes(ps)
      BY <1>1, <2>1 DEF Shown, Indexes
    <3>3. ASSUME NEW q \in ps, q.index \in w.acked  PROVE w.screen[q.block] = q.version
      <4>1. CASE q = p
        BY <1>6, <1>7, <4>1
      <4>2. CASE q # p
        <5>1. q.index # p.index /\ q.block # p.block
          BY <1>1, <4>2 DEF Shape, Distinct
        <5>2. v.last = t.update /\ q.index \in v.acked
          BY <2>1, <3>3, <5>1
        <5>3. q.block \in Block
          BY PacketFields
        <5> QED  BY <1>1, <1>6, <1>7, <5>1, <5>2, <5>3 DEF Shown
      <4> QED  BY <4>1, <4>2
    <3> QED  BY <1>3, <1>6, <1>7, <2>1, <3>1, <3>2, <3>3 DEF Shown
  <2>6. NotYet(ps, t, w)
    BY <2>1 DEF NotYet
  <2> QED  BY <1>1, <1>6, <1>7, <2>3, <2>4, <2>5, <2>6 DEF Delivering, w
<1> QED  BY <1>5, <1>7 DEF w

\* One to a viewer who is not: it is queued, or it opens the session.
LEMMA QueueDelivers ==
    ASSUME NEW ps \in SUBSET DesktopPacket, NEW t \in Transmitter, NEW d \in Desktop,
           NEW v \in View, NEW net, NEW acks,
           Delivering(ps, t, d, v, net, acks), v.session = 0, QueueOK(v), NEW p \in ps
    PROVE  LET w == AddToQueue(v, p) IN Delivering(ps, t, d, w, net, acks) /\ QueueOK(w)
<1> DEFINE w == AddToQueue(v, p)
           some == {p} \cup {q \in ToSet(v.queue) : q.update = p.update}
<1>1. /\ Shape(ps, t, d) /\ InFlight(ps, t, v, net) /\ AcksTrue(ps, t, v, acks)
      /\ Shown(ps, t, d, v) /\ NotYet(ps, t, v) /\ Left(ps, t, v)
  BY DEF Delivering
<1>2. p \in DesktopPacket /\ p.session = t.session /\ p.update = t.update
  BY <1>1 DEF Shape
<1>3. t.session # 0 /\ t.session \in Int /\ t.update \in Int /\ t.session <= t.update
  BY <1>1, TransmitterFields, UpdatesAreNumbers DEF Shape
<1>4. /\ BlocksOf(ps) = Block
      /\ \A q \in ToSet(v.queue) : q \in ps \/ q.update < t.session
  BY <1>1, <1>3 DEF NotYet
<1>5. ToSet(v.queue) \subseteq DesktopPacket
  BY ViewFields DEF ToSet
<1>6. \A q \in ToSet(v.queue) : q.update \in Int
  BY <1>5, PacketFields, UpdatesAreNumbers
<1>7. \A q \in ToSet(v.queue) : q \in ps <=> q.update = t.update
  BY <1>1, <1>3, <1>4, <1>6 DEF Shape
<1>8. Got(ps, t, v) = Indexes(ToSet(v.queue) \cap ps)
  BY <1>3 DEF Got
<1>9. some = {p} \cup (ToSet(v.queue) \cap ps) /\ some \subseteq ps
  BY <1>2, <1>7
<1>10. \A q \in net : q.kind = "desktop" => q.session = t.session /\ q \in ps
  BY <1>1, <1>3 DEF InFlight, Passed
<1>11. InFlight(ps, t, w, net)
  BY <1>10 DEF InFlight
<1> HIDE DEF some
<1>12. CASE OpensSession(p)
  <2>1. PICK x \in View :
          /\ x.session = p.session /\ x.last = p.update /\ x.acked = {}
          /\ x.expected = p.count /\ x.queue = <<>>
          /\ w = Show(x, some)
    BY <1>2, <1>12, AddToQueueFacts DEF some
  <2>2. some \in SUBSET DesktopPacket
    BY <1>9
  <2> HIDE DEF w
  <2>3. /\ w.session = t.session /\ w.last = t.update /\ w.queue = <<>>
        /\ w.expected = p.count /\ w.acked = Indexes(some)
    <3>1. /\ w.session = x.session /\ w.last = x.last /\ w.queue = x.queue
          /\ w.expected = x.expected /\ w.acked = x.acked \cup Indexes(some)
      BY <2>1, <2>2, ShowFacts
    <3> QED  BY <1>2, <2>1, <3>1
  <2>4. ASSUME NEW q \in ps, q.index \in w.acked  PROVE w.screen[q.block] = q.version
    <3>1. PICK r \in some : r.index = q.index
      BY <2>3, <2>4 DEF Indexes
    <3>2. q \in some
      BY <1>1, <1>9, <3>1 DEF Shape, Distinct
    <3>3. \A r2 \in some : q.block = r2.block => q = r2
      BY <1>1, <1>9, <3>2 DEF Shape
    <3> QED  BY <2>1, <2>2, <3>2, <3>3, ShowFacts
  <2>5. Got(ps, t, v) \subseteq Got(ps, t, w)
    <3>1. Got(ps, t, w) = Indexes(some)
      BY <2>3 DEF Got
    <3> QED  BY <1>8, <1>9, <3>1 DEF Indexes
  <2>6. AcksTrue(ps, t, w, acks) /\ Left(ps, t, w)
    BY <1>1, <2>5, GotGrows
  <2>7. Shown(ps, t, d, w)
    <3>1. p.count = Cardinality(ps)
      BY <1>1 DEF Shape
    <3>2. w.acked \subseteq Indexes(ps)
      BY <1>9, <2>3 DEF Indexes
    <3> QED  BY <1>3, <1>4, <2>3, <2>4, <3>1, <3>2 DEF Shown
  <2>8. NotYet(ps, t, w) /\ QueueOK(w)
    <3>1. ToSet(<<>>) = {}
      BY DEF ToSet
    <3> QED  BY <2>3, <3>1 DEF NotYet, QueueOK
  <2> QED  BY <1>1, <1>11, <2>6, <2>7, <2>8 DEF Delivering, w
<1>13. CASE ~OpensSession(p)
  <2>1. /\ w.session = v.session /\ w.last = v.last
        /\ ToSet(w.queue) = {q \in ToSet(v.queue) : q.update <= p.update} \cup {p}
    BY <1>2, <1>13, AddToQueueFacts
  <2> HIDE DEF w
  <2>2. \A q \in ToSet(v.queue) : q.update <= p.update
    BY <1>2, <1>3, <1>4, <1>6, <1>7
  <2>3. ToSet(w.queue) = ToSet(v.queue) \cup {p}
    BY <2>1, <2>2
  <2>4. Got(ps, t, w) = Indexes(ToSet(w.queue) \cap ps)
    BY <1>3, <2>1 DEF Got
  <2>5. Got(ps, t, v) \subseteq Got(ps, t, w)
    BY <1>8, <2>3, <2>4 DEF Indexes
  <2>6. AcksTrue(ps, t, w, acks) /\ Left(ps, t, w)
    BY <1>1, <2>5, GotGrows
  <2>7. Shown(ps, t, d, w)
    BY <1>3, <2>1 DEF Shown
  <2>8. NotYet(ps, t, w)
    BY <1>1, <1>3, <2>1, <2>3 DEF NotYet
  <2>9. QueueOK(w)
    BY <1>13, <2>1, <2>3 DEF QueueOK
  <2> QED  BY <1>1, <1>11, <2>6, <2>7, <2>8, <2>9 DEF Delivering, w
<1> QED  BY <1>12, <1>13

\* A viewer of another session, or one whose session is closed, has nothing of the
\* transmission, and is still to get all of it.
LEMMA ClosedDelivers ==
    ASSUME NEW ps, NEW t \in Transmitter, NEW d, NEW v \in View, NEW net, NEW acks,
           Delivering(ps, t, d, v, net, acks), QueueOK(v), v.session # 0, v.session # t.session
    PROVE  Delivering(ps, t, d, CloseView(v), net, acks) /\ QueueOK(CloseView(v))
<1> DEFINE w == CloseView(v)
<1>1. /\ Shape(ps, t, d) /\ InFlight(ps, t, v, net) /\ AcksTrue(ps, t, v, acks)
      /\ NotYet(ps, t, v) /\ Left(ps, t, v)
  BY DEF Delivering
<1>2. w.session = 0 /\ w.queue = <<>> /\ ToSet(<<>>) = {}
  BY CloseViewFacts DEF ToSet
<1>3. t.session # 0
  BY TransmitterFields, UpdatesAreNumbers
<1> HIDE DEF w
<1>4. Got(ps, t, v) \subseteq Got(ps, t, w)
  BY <1>2, <1>3 DEF Got, QueueOK
<1>5. AcksTrue(ps, t, w, acks) /\ Left(ps, t, w)
  BY <1>1, <1>4, GotGrows
<1>6. InFlight(ps, t, w, net)
  BY <1>1 DEF InFlight, Passed
<1>7. Shown(ps, t, d, w) /\ NotYet(ps, t, w) /\ QueueOK(w)
  BY <1>1, <1>2, <1>3 DEF Shown, NotYet, QueueOK
<1> QED  BY <1>1, <1>5, <1>6, <1>7 DEF Delivering, w

\* Blocks that change after the transmission began make no difference to it.
LEMMA UpdateDelivers ==
    ASSUME NEW ps \in SUBSET DesktopPacket, NEW t \in Transmitter, NEW d, NEW e,
           \A b \in Block : e.version[b] = d.version[b] \/ ~(e.version[b] <= t.update),
           NEW v, NEW net, NEW acks, Delivering(ps, t, d, v, net, acks)
    PROVE  Delivering(ps, t, e, v, net, acks)
<1>1. Shape(ps, t, e)
  <2>1. \A p \in ps : p.block \in Block
    BY PacketFields
  <2> QED  BY <2>1 DEF Delivering, Shape
<1>2. Shown(ps, t, e, v)
  BY DEF Delivering, Shown
<1> QED  BY <1>1, <1>2 DEF Delivering

\* StartDesktopTransmitter() with a transmitter of the session in place.
LEMMA StartDelivers ==
    ASSUME NEW d \in Desktop, Fresh(d), d.session <= d.update,
           NEW t, TxOK(t), t.session = d.session, t.update <= d.update,
           NEW timer, NEW v \in View, QueueOK(v),
           NEW wire \in SUBSET (DesktopPacket \cup Nak), NEW acks \in SUBSET Ack,
           NEW ps \in SUBSET DesktopPacket, Delivering(ps, t, d, v, wire, acks),
           StartDesktopTransmitter(t, timer, d, wire)
    PROVE  /\ dtx' # None /\ dtx'.session = d.session
           /\ \A m \in down' : m.kind = "nak" => m \in wire
           /\ \E qs \in SUBSET DesktopPacket : Delivering(qs, dtx', d, v, down', acks)
<1> DEFINE new == NewTransmitter(t, d)
<1>1. t \in Transmitter /\ t # None
  BY TransmitterFields DEF TxOK
<1>2. CASE MayStart(t, d)
  <2>1. Done(t) /\ t.update # d.update
    BY <1>1, <1>2 DEF MayStart
  <2>2. t.update < d.update
    <3>1. t.update \in Int /\ d.update \in Int
      BY <1>1, TransmitterFields, DesktopFields, UpdatesAreNumbers
    <3> QED  BY <2>1, <3>1
  <2>3. \E qs \in SUBSET DesktopPacket :
           Delivering(qs, Advance(new), d, v, wire \cup NextPackets(new), acks)
    BY <1>1, <2>1, <2>2, NextDelivers
  <2>4. TxOK(new) /\ new.session = d.session
    BY <1>1, <2>2, NewTransmitterFacts
  <2> HIDE DEF new
  <2>5. /\ Advance(new).session = new.session
        /\ NextPackets(new) \subseteq new.queued
        /\ Advance(new) \in Transmitter
    BY <2>4, AdvanceFacts DEF TxOK
  <2>6. \A m \in NextPackets(new) : m.kind # "nak"
    <3>1. new.queued \in SUBSET DesktopPacket
      BY <2>4, TransmitterFields DEF TxOK
    <3> QED  BY <2>5, <3>1, PacketFields
  <2>7. dtx' = Advance(new) /\ down' = wire \cup NextPackets(new)
    BY <1>2 DEF StartDesktopTransmitter, new
  <2> QED  BY <2>3, <2>4, <2>5, <2>6, <2>7, TransmitterFields
<1>3. CASE ~MayStart(t, d)
  <2>1. dtx' = t /\ down' = wire
    BY <1>3 DEF StartDesktopTransmitter
  <2> QED  BY <1>1, <2>1
<1> QED  BY <1>2, <1>3

\* StartDesktopTransmitter() with none in place.
LEMMA StartFirstDelivers ==
    ASSUME NEW d \in Desktop, Fresh(d), d.session <= d.update,
           NEW timer, NEW v \in View, v.session # d.session,
           \A q \in ToSet(v.queue) : q.update < d.session,
           NEW wire, \A m \in wire : m.kind # "desktop",
           NEW acks, \A a \in acks : a.session # d.session,
           StartDesktopTransmitter(None, timer, d, wire)
    PROVE  /\ dtx' # None /\ dtx'.session = d.session
           /\ \A m \in down' : m.kind = "nak" => m \in wire
           /\ \E qs \in SUBSET DesktopPacket : Delivering(qs, dtx', d, v, down', acks)
<1> DEFINE new == NewTransmitter(None, d)
<1>1. \E qs \in SUBSET DesktopPacket :
         Delivering(qs, Advance(new), d, v, wire \cup NextPackets(new), acks)
  BY FirstDelivers
<1>2. TxOK(new) /\ new.session = d.session
  BY NewTransmitterFacts
<1> HIDE DEF new
<1>3. /\ Advance(new).session = new.session
      /\ NextPackets(new) \subseteq new.queued
      /\ Advance(new) \in Transmitter
  BY <1>2, AdvanceFacts DEF TxOK
<1>4. \A m \in NextPackets(new) : m.kind # "nak"
  <2>1. new.queued \in SUBSET DesktopPacket
    BY <1>2, TransmitterFields DEF TxOK
  <2> QED  BY <1>3, <2>1, PacketFields
<1>5. dtx' = Advance(new) /\ down' = wire \cup NextPackets(new)
  BY DEF StartDesktopTransmitter, MayStart, new
<1> QED  BY <1>1, <1>2, <1>3, <1>4, <1>5, TransmitterFields

\* An acknowledgement takes only packets off the wire that the viewer has got.
LEMMA AckDelivers ==
    ASSUME NEW ps \in SUBSET DesktopPacket, NEW t \in Transmitter, NEW d, NEW v,
           NEW net, NEW acks, Delivering(ps, t, d, v, net, acks),
           NEW a \in acks, a.session = t.session, a.update = t.update,
           NEW n, n.session = t.session, n.update = t.update,
           n.queued \cup n.sent = t.queued \cup (t.sent \ Acked(t, a)),
           NEW more, more \subseteq t.queued \cup t.sent
    PROVE  Delivering(ps, n, d, v, net \cup more, acks \ {a})
<1>1. /\ Shape(ps, t, d) /\ InFlight(ps, t, v, net) /\ AcksTrue(ps, t, v, acks)
      /\ Shown(ps, t, d, v) /\ NotYet(ps, t, v) /\ Left(ps, t, v)
  BY DEF Delivering
<1>2. Got(ps, n, v) = Got(ps, t, v)
  BY DEF Got
<1>3. Shape(ps, n, d) /\ Shown(ps, n, d, v) /\ NotYet(ps, n, v)
  BY <1>1 DEF Shape, Shown, NotYet
<1>4. InFlight(ps, n, v, net \cup more)
  <2>1. \A p \in more : p \in ps /\ p.session = t.session
    BY <1>1 DEF Left, Shape
  <2> QED  BY <1>1, <2>1 DEF InFlight, Passed
<1>5. AcksTrue(ps, n, v, acks \ {a})
  BY <1>1, <1>2 DEF AcksTrue
<1>6. Left(ps, n, v)
  <2>1. a.packets \subseteq Got(ps, t, v)
    BY <1>1 DEF AcksTrue
  <2>2. \A p \in ps \ (n.queued \cup n.sent) :
            p \notin t.queued \cup t.sent \/ p.index \in a.packets
    BY DEF Acked
  <2> QED  BY <1>1, <1>2, <2>1, <2>2 DEF Left
<1> QED  BY <1>3, <1>4, <1>5, <1>6 DEF Delivering

\* So does what the viewer acknowledges.
LEMMA AckIsTrue ==
    ASSUME NEW ps \in SUBSET DesktopPacket, NEW t \in Transmitter, NEW d, NEW v \in View,
           v.session # 0 => v.last # 0, HasAck(v),
           NEW net, NEW acks, Delivering(ps, t, d, v, net, acks)
    PROVE  Delivering(ps, t, d, v, net, acks \cup {AckOf(v)})
<1> DEFINE a == AckOf(v)
<1>1. /\ Shape(ps, t, d) /\ AcksTrue(ps, t, v, acks) /\ Shown(ps, t, d, v) /\ NotYet(ps, t, v)
  BY DEF Delivering
<1>2. /\ a \in Ack /\ a.packets # {}
      /\ v.session # 0 => /\ a.session = v.session /\ a.update = v.last /\ a.packets = v.acked
      /\ v.session = 0 =>
            \A i \in a.packets : \E q \in ToSet(v.queue) :
                q.index = i /\ q.session = a.session /\ q.update = a.update
  BY AckFacts
<1>3. /\ t.session \in Int /\ t.session # 0 /\ t.update \in Int /\ t.session <= t.update
  BY <1>1, TransmitterFields, UpdatesAreNumbers DEF Shape
<1> HIDE DEF a
<1>4. ASSUME a.session = t.session
      PROVE  a.update <= t.update /\ (a.update = t.update => a.packets \subseteq Got(ps, t, v))
  <2>1. CASE v.session # 0
    BY <1>1, <1>2, <1>4, <2>1 DEF Shown, Got
  <2>2. CASE v.session = 0
    <3>1. /\ Got(ps, t, v) = Indexes(ToSet(v.queue) \cap ps)
          /\ \A q \in ToSet(v.queue) : q \in ps \/ q.update < t.session
      BY <1>1, <1>3, <2>2 DEF Got, NotYet
    <3>2. ToSet(v.queue) \subseteq DesktopPacket
      BY ViewFields DEF ToSet
    <3>3. \A q \in ToSet(v.queue) : q.update \in Int
      BY <3>2, PacketFields, UpdatesAreNumbers
    <3>4. \A q \in ToSet(v.queue) : q.update <= t.update /\ (q.update = t.update => q \in ps)
      BY <1>1, <1>3, <3>1, <3>3 DEF Shape
    <3>5. a.update <= t.update
      BY <1>2, <2>2, <3>4
    <3>6. ASSUME a.update = t.update  PROVE a.packets \subseteq Got(ps, t, v)
      BY <1>2, <2>2, <3>1, <3>4, <3>6 DEF Indexes
    <3> QED  BY <3>5, <3>6
  <2> QED  BY <2>1, <2>2
<1>5. AcksTrue(ps, t, v, acks \cup {a})
  BY <1>1, <1>4 DEF AcksTrue
<1> QED  BY <1>5 DEF Delivering, a

\* Whatever arrives, the viewer queues nothing else, and only while it is at no session.
LEMMA AddPacketFacts ==
    ASSUME NEW v \in View, NEW p \in DesktopPacket, QueueOK(v)
    PROVE  LET w == AddPacket(v, p) IN
           /\ QueueOK(w)
           /\ w.session \in {0, v.session, p.session}
           /\ ToSet(w.queue) \subseteq ToSet(v.queue) \cup {p}
<1> DEFINE x == IF v.session # 0 /\ p.session # v.session THEN CloseView(v) ELSE v
           w == AddPacket(v, p)
<1>1. ToSet(<<>>) = {}
  BY DEF ToSet
<1>2. /\ x \in View /\ QueueOK(x)
      /\ x.session \in {0, v.session} /\ (x.session # 0 => x.session = p.session)
      /\ ToSet(x.queue) \subseteq ToSet(v.queue)
  BY <1>1, CloseViewFacts DEF QueueOK
<1>3. w = IF x.session = 0 THEN AddToQueue(x, p) ELSE AddToSession(x, p)
  BY DEF AddPacket
<1> HIDE DEF x, w
<1>4. CASE x.session # 0
  <2>1. w = AddToSession(x, p) /\ p.session = x.session
    BY <1>2, <1>3, <1>4
  <2>2. \/ w = x
        \/ w = Show(x, {p})
        \/ \E y \in View : y.session = x.session /\ y.queue = x.queue /\ w = Show(y, {p})
    BY <1>2, <2>1, AddToSessionFacts
  <2>3. \A y \in View : Show(y, {p}).session = y.session /\ Show(y, {p}).queue = y.queue
    BY ShowFacts
  <2>4. w.session = x.session /\ w.queue = x.queue
    BY <1>2, <2>2, <2>3
  <2> QED  BY <1>2, <2>4 DEF QueueOK, w
<1>5. CASE x.session = 0
  <2>1. w = AddToQueue(x, p)
    BY <1>3, <1>5
  <2>2. CASE OpensSession(p)
    <3>1. PICK y \in View :
             /\ y.session = p.session /\ y.queue = <<>>
             /\ AddToQueue(x, p)
                   = Show(y, {p} \cup {q \in ToSet(x.queue) : q.update = p.update})
      <4>1. x \in View
        BY <1>2
      <4> QED  BY <4>1, <2>2, AddToQueueFacts
    <3>2. ToSet(x.queue) \subseteq DesktopPacket
      BY <1>2, ViewFields DEF ToSet
    <3>3. w.session = y.session /\ w.queue = y.queue
      BY <2>1, <3>1, <3>2, ShowFacts
    <3> QED  BY <1>1, <3>1, <3>3 DEF QueueOK, w
  <2>3. CASE ~OpensSession(p)
    <3>1. /\ w.session = x.session
          /\ ToSet(w.queue) = {q \in ToSet(x.queue) : q.update <= p.update} \cup {p}
      BY <1>2, <2>1, <2>3, AddToQueueFacts
    <3> QED  BY <1>2, <1>5, <2>3, <3>1 DEF QueueOK, w
  <2> QED  BY <2>2, <2>3
<1> QED  BY <1>4, <1>5

-----------------------------------------------------------------------------
(* The invariant of the sessions: the transmitter is of the session of the *)
(* desktop, and there is one if the viewer subscribes to a desktop; what   *)
(* is in flight or held is of sessions the source has opened; no nak of    *)
(* the session that is sent is under way; and the transmission delivers.   *)

Live ==
    /\ dtx # None <=> subscribed /\ desktop # None
    /\ dtx # None => dtx.session = desktop.session
    /\ closing # 0 /\ desktop # None => desktop.session = closing

KnownTo(n, v, net, acks) ==
    /\ v.session <= n
    /\ \A q \in ToSet(v.queue) : q.session <= n /\ q.update <= n
    /\ \A a \in acks : a.session <= n
    /\ \A m \in net : m.session <= n /\ (m.kind = "desktop" => m.update <= n)

Known ==
    /\ KnownTo(updates, view, down, up)
    /\ closed # None => closed.session <= updates

NoNak ==
    dtx # None => /\ \A m \in down : m.kind = "nak" => m.session # dtx.session
                  /\ naktimer /\ closed # None => closed.session # dtx.session

ViewClosed ==
    /\ QueueOK(view)
    /\ ~subscribed => view.session = 0 /\ view.queue = <<>>

Delivered ==
    dtx # None =>
        \E ps \in SUBSET DesktopPacket : Delivering(ps, dtx, desktop, view, down, up)

SessionInv == Live /\ Known /\ NoNak /\ ViewClosed /\ Delivered

LEMMA Types ==
    ASSUME BaseInv
    PROVE  /\ updates \in Nat /\ view \in View /\ down \in SUBSET (DesktopPacket \cup Nak)
           /\ up \in SUBSET Ack /\ closed \in ClosedSession \cup {None}
           /\ view.session # 0 => view.last # 0
           /\ dtx # None => dtx \in Transmitter /\ TxOK(dtx) /\ dtx.session <= updates
           /\ desktop # None => /\ desktop \in Desktop /\ Fresh(desktop)
                                /\ desktop.session <= desktop.update
                                /\ desktop.update <= updates
           /\ dtx # None /\ desktop # None /\ dtx.session = desktop.session
                 => dtx.update <= desktop.update
BY Numbers DEF BaseInv, TypeOK, DesktopFresh, TransmitterOK, ViewDated

LEMMA KnownAreNumbers ==
    ASSUME NEW v \in View, NEW net \in SUBSET (DesktopPacket \cup Nak), NEW acks \in SUBSET Ack
    PROVE  /\ v.session \in Int
           /\ \A q \in ToSet(v.queue) : q.session \in Int /\ q.update \in Int
           /\ \A a \in acks : a.session \in Int
           /\ \A m \in net : m.session \in Int /\ (m.kind = "desktop" => m.update \in Int)
<1>1. \A p \in DesktopPacket : p.session \in Int /\ p.update \in Int
  BY PacketFields, UpdatesAreNumbers
<1>2. \A a \in Ack : a.session \in Int
  BY UpdatesAreNumbers DEF Ack
<1>3. \A m \in Nak : m.session \in Int /\ m.kind # "desktop"
  BY UpdatesAreNumbers DEF Nak
<1>4. ToSet(v.queue) \subseteq DesktopPacket
  BY ViewFields DEF ToSet
<1> QED  BY <1>1, <1>2, <1>3, <1>4, ViewFields, UpdatesAreNumbers

\* More updates make no difference.
LEMMA KnownLater ==
    ASSUME NEW n \in Nat, NEW v \in View, NEW net \in SUBSET (DesktopPacket \cup Nak),
           NEW acks \in SUBSET Ack, KnownTo(n, v, net, acks)
    PROVE  KnownTo(n + 1, v, net, acks)
BY KnownAreNumbers DEF KnownTo

\* Packets in flight are of the session that is sent.
LEMMA FlightKnown ==
    ASSUME NEW n \in Nat, NEW t \in Transmitter, t.session <= n, t.update <= n,
           NEW ps \in SUBSET DesktopPacket, NEW d, NEW v,
           NEW net \in SUBSET (DesktopPacket \cup Nak), NEW acks,
           Delivering(ps, t, d, v, net, acks)
    PROVE  \A m \in net : m.kind = "desktop" => m.session <= n /\ m.update <= n
<1>1. t.update \in Int
  BY TransmitterFields, UpdatesAreNumbers
<1> SUFFICES ASSUME NEW m \in net, m.kind = "desktop"
             PROVE  m.session <= n /\ m.update <= n
  OBVIOUS
<1>2. m.update \in Int
  BY KindsDiffer, PacketFields, UpdatesAreNumbers
<1>3. m.session = t.session /\ (m.update = t.update \/ m.update < t.update)
  BY DEF Delivering, InFlight, Passed, Shape
<1> QED  BY <1>1, <1>2, <1>3

LEMMA SendUpdateDelivers ==
    ASSUME BaseInv, SessionInv, NEW bs \in Changes, SendUpdate(bs), BaseInv'
    PROVE  SessionInv'
<1>1. /\ desktop # None /\ closing = 0 /\ updates' = updates + 1
      /\ desktop' = [desktop EXCEPT !.update = updates',
                        !.version = [b \in Block |-> IF b \in bs THEN updates'
                                                     ELSE desktop.version[b]]]
      /\ Forward(down)
      /\ UNCHANGED <<closing, subscribed, closed, naktimer, viewer, up>>
  BY DEF SendUpdate
<1>2. /\ updates \in Nat /\ view \in View /\ up \in SUBSET Ack
      /\ down \in SUBSET (DesktopPacket \cup Nak)
      /\ desktop \in Desktop /\ desktop.session <= desktop.update /\ desktop.update <= updates
  BY <1>1, Types
<1>3. updates' \in Nat /\ updates' \in Update
  BY <1>1, <1>2, Numbers DEF SendUpdate, Update
<1>4. /\ desktop' \in Desktop
      /\ desktop'.session = desktop.session /\ desktop'.update = updates'
      /\ \A b \in Block : desktop'.version[b] = IF b \in bs THEN updates'
                                                ELSE desktop.version[b]
  BY <1>1, <1>2, <1>3 DEF Desktop
<1>5. desktop' # None /\ Fresh(desktop') /\ desktop'.session <= desktop'.update
  BY <1>4, DesktopFields DEF BaseInv, DesktopFresh
<1>6. KnownTo(updates', view, down, up) /\ (closed # None => closed.session <= updates')
  <2>1. closed # None => closed.session \in Int
    BY Types, UpdatesAreNumbers DEF ClosedSession
  <2> QED  BY <1>1, <1>2, <2>1, KnownLater DEF SessionInv, Known
<1>7. CASE ~subscribed
  <2>1. dtx = None /\ dtx' = None /\ down' = down
    BY <1>1, <1>7 DEF Forward, SessionInv, Live
  <2> QED
    BY <1>1, <1>6, <1>7, <2>1 DEF SessionInv, Live, Known, NoNak, ViewClosed, Delivered, viewer
<1>8. CASE subscribed
  <2>1. dtx # None /\ dtx.session = desktop.session /\ dtx.session = desktop'.session
    BY <1>1, <1>4, <1>8 DEF SessionInv, Live
  <2>2. /\ dtx \in Transmitter /\ TxOK(dtx) /\ dtx.update <= desktop.update
        /\ dtx.update \in Int /\ desktop.update \in Int
    BY <1>1, <1>2, <2>1, Types, TransmitterFields, DesktopFields, UpdatesAreNumbers
  <2>3. dtx.update < updates'
    BY <1>1, <1>2, <2>2
  <2>4. PICK ps \in SUBSET DesktopPacket : Delivering(ps, dtx, desktop, view, down, up)
    BY <2>1 DEF SessionInv, Delivered
  <2>5. \A b \in Block : desktop'.version[b] = desktop.version[b]
                            \/ ~(desktop'.version[b] <= dtx.update)
    BY <1>3, <1>4, <2>2, <2>3
  <2>6. Delivering(ps, dtx, desktop', view, down, up)
    BY <2>2, <2>4, <2>5, UpdateDelivers
  <2>7. StartDesktopTransmitter(dtx, rtx, desktop', down)
    BY <1>1, <1>8, <2>1, TimerFacts, Zenon DEF Forward
  <2>8. /\ dtx' # None /\ dtx'.session = desktop'.session
        /\ \A m \in down' : m.kind = "nak" => m \in down
        /\ \E qs \in SUBSET DesktopPacket : Delivering(qs, dtx', desktop', view, down', up)
    <3>1. QueueOK(view) /\ dtx.update <= desktop'.update
      BY <1>3, <1>4, <2>2, <2>3 DEF SessionInv, ViewClosed
    <3> QED  BY <1>2, <1>4, <1>5, <2>1, <2>2, <2>6, <2>7, <3>1, StartDelivers
  <2>9. Live'
    BY <1>1, <1>5, <1>8, <2>8 DEF Live
  <2>10. Delivered' /\ ViewClosed' /\ NoNak'
    BY <1>1, <2>1, <2>8 DEF Delivered, ViewClosed, NoNak, SessionInv, viewer
  <2>11. \A m \in down' : m.kind = "desktop" => m.session <= updates' /\ m.update <= updates'
    <3>1. /\ dtx' \in Transmitter /\ dtx'.session <= updates' /\ dtx'.update <= updates'
          /\ down' \in SUBSET (DesktopPacket \cup Nak)
      BY <1>4, <1>5, <2>8 DEF BaseInv, TypeOK, TransmitterOK
    <3>2. PICK qs \in SUBSET DesktopPacket : Delivering(qs, dtx', desktop', view, down', up)
      BY <2>8
    <3> QED  BY <1>3, <3>1, <3>2, FlightKnown
  <2>12. \A m \in down' : m.session <= updates' /\ (m.kind = "desktop" => m.update <= updates')
    <3>1. \A m \in down' : m.kind = "nak" \/ m.kind = "desktop"
      BY PacketFields DEF BaseInv, TypeOK, Nak
    <3> QED  BY <1>6, <2>8, <2>11, <3>1 DEF KnownTo
  <2>13. Known'
    BY <1>1, <1>6, <2>12 DEF Known, KnownTo, viewer
  <2> QED  BY <2>9, <2>10, <2>13 DEF SessionInv
<1> QED  BY <1>7, <1>8

LEMMA OpenSessionDelivers ==
    ASSUME BaseInv, SessionInv, OpenSession, BaseInv'
    PROVE  SessionInv'
<1>1. /\ updates' = updates + 1 /\ closing' = 0
      /\ desktop' = [session |-> updates', update |-> updates',
                     version |-> [b \in Block |-> updates']]
      /\ Forward(down \cap Nak)
      /\ UNCHANGED <<subscribed, closed, naktimer, viewer, up>>
  BY DEF OpenSession
<1>2. /\ updates \in Nat /\ view \in View /\ up \in SUBSET Ack
      /\ down \in SUBSET (DesktopPacket \cup Nak)
  BY Types
<1>3. updates' \in Nat /\ updates' \in Update
  BY <1>1, <1>2, Numbers DEF OpenSession, Update
<1>4. /\ desktop' \in Desktop
      /\ desktop'.session = updates' /\ desktop'.update = updates'
  BY <1>1, <1>3 DEF Desktop
<1>5. desktop' # None /\ Fresh(desktop') /\ desktop'.session <= desktop'.update
  BY <1>4, DesktopFields DEF BaseInv, DesktopFresh
<1>6. /\ KnownTo(updates, view, down, up)
      /\ KnownTo(updates', view, down, up) /\ (closed # None => closed.session < updates')
  <2>1. closed # None => closed.session \in Int
    BY Types, UpdatesAreNumbers DEF ClosedSession
  <2> QED  BY <1>1, <1>2, <2>1, KnownLater DEF SessionInv, Known
<1>7. \A m \in down \cap Nak : m.kind # "desktop" /\ m \in down
  BY DEF Nak
<1>8. CASE ~subscribed
  <2>1. dtx = None /\ dtx' = None /\ down' = down \cap Nak
    BY <1>1, <1>8 DEF Forward, SessionInv, Live
  <2>2. KnownTo(updates', view, down', up)
    BY <1>6, <2>1 DEF KnownTo
  <2>3. closed # None => closed.session <= updates'
    <3>1. closed # None => closed.session \in Int
      BY Types, UpdatesAreNumbers DEF ClosedSession
    <3> QED  BY <1>3, <1>6, <3>1
  <2> QED
    BY <1>1, <1>8, <2>1, <2>2, <2>3 DEF SessionInv, Live, Known, NoNak, ViewClosed, Delivered, viewer
<1>9. CASE subscribed
  <2>1. dtx # None => dtx.session # desktop'.session
    <3>1. dtx # None => dtx.session \in Int /\ dtx.session <= updates
      BY Types, TransmitterFields, UpdatesAreNumbers
    <3> QED  BY <1>1, <1>2, <1>4, <3>1
  <2>2. StartDesktopTransmitter(None, FALSE, desktop', down \cap Nak)
    BY <1>1, <1>9, <2>1, Zenon DEF Forward
  <2>3. /\ view.session # desktop'.session
        /\ \A q \in ToSet(view.queue) : q.update < desktop'.session
        /\ \A a \in up : a.session # desktop'.session
        /\ \A m \in down : m.session # desktop'.session
    BY <1>1, <1>2, <1>4, <1>6, KnownAreNumbers DEF KnownTo
  <2>4. /\ dtx' # None /\ dtx'.session = desktop'.session
        /\ \A m \in down' : m.kind = "nak" => m \in down \cap Nak
        /\ \E qs \in SUBSET DesktopPacket : Delivering(qs, dtx', desktop', view, down', up)
    BY <1>2, <1>4, <1>5, <1>7, <2>2, <2>3, StartFirstDelivers
  <2>5. Live'
    BY <1>1, <1>5, <1>9, <2>4 DEF Live
  <2>6. Delivered' /\ ViewClosed'
    BY <1>1, <2>4 DEF Delivered, ViewClosed, SessionInv, viewer
  <2>7. NoNak'
    <3>1. closed # None => closed.session # desktop'.session
      <4>1. closed # None => closed.session \in Int
        BY Types, UpdatesAreNumbers DEF ClosedSession
      <4> QED  BY <1>3, <1>4, <1>6, <4>1
    <3> QED  BY <1>1, <2>3, <2>4, <3>1 DEF NoNak
  <2>8. \A m \in down' : m.kind = "desktop" => m.session <= updates' /\ m.update <= updates'
    <3>1. /\ dtx' \in Transmitter /\ dtx'.session <= updates' /\ dtx'.update <= updates'
          /\ down' \in SUBSET (DesktopPacket \cup Nak)
      BY <1>4, <1>5, <2>4 DEF BaseInv, TypeOK, TransmitterOK
    <3>2. PICK qs \in SUBSET DesktopPacket : Delivering(qs, dtx', desktop', view, down', up)
      BY <2>4
    <3> QED  BY <1>3, <3>1, <3>2, FlightKnown
  <2>9. \A m \in down' : m.session <= updates' /\ (m.kind = "desktop" => m.update <= updates')
    <3>1. \A m \in down' : m.kind = "nak" \/ m.kind = "desktop"
      BY PacketFields DEF BaseInv, TypeOK, Nak
    <3> QED  BY <1>6, <2>4, <2>8, <3>1 DEF KnownTo
  <2>10. Known'
    <3>1. closed # None => closed.session <= updates'
      <4>1. closed # None => closed.session \in Int
        BY Types, UpdatesAreNumbers DEF ClosedSession
      <4> QED  BY <1>3, <1>6, <4>1
    <3> QED  BY <1>1, <1>6, <2>9, <3>1 DEF Known, KnownTo, viewer
  <2> QED  BY <2>5, <2>6, <2>7, <2>10 DEF SessionInv
<1> QED  BY <1>8, <1>9

LEMMA CloseSessionDelivers ==
    ASSUME SessionInv, CloseSession
    PROVE  SessionInv'
<1>1. closing' = desktop.session
  BY DEF CloseSession
<1>2. UNCHANGED <<updates, desktop, subscribed, dtx, rtx, closed, naktimer, viewer, down, up>>
  BY DEF CloseSession
<1> QED
  BY <1>1, <1>2 DEF SessionInv, Live, Known, NoNak, ViewClosed, Delivered, viewer

LEMMA StopIsKnown ==
    ASSUME BaseInv, SessionInv, StopDesktopTransmitter
    PROVE  closed' # None => closed'.session <= updates
BY StopFacts, Types DEF SessionInv, Known

LEMMA ReceiveSourceNakDelivers ==
    ASSUME BaseInv, SessionInv, ReceiveSourceNak
    PROVE  SessionInv'
<1>1. /\ closing # 0
      /\ desktop' = None
      /\ UNCHANGED <<updates, subscribed, viewer, down, up>>
  BY DEF ReceiveSourceNak, SessionInv, Live
<1>2. dtx' = None /\ (closed' # None => closed'.session <= updates)
  <2>1. CASE subscribed
    <3>1. StopDesktopTransmitter
      BY <2>1 DEF ReceiveSourceNak
    <3> QED  BY <3>1, StopFacts, StopIsKnown
  <2>2. CASE ~subscribed
    BY <2>2 DEF ReceiveSourceNak, SessionInv, Live, Known
  <2> QED  BY <2>1, <2>2
<1> QED
  BY <1>1, <1>2 DEF SessionInv, Live, Known, NoNak, ViewClosed, Delivered, viewer

LEMMA UnsubscribeDelivers ==
    ASSUME BaseInv, SessionInv, Unsubscribe
    PROVE  SessionInv'
<1>1. /\ subscribed' = FALSE /\ StopDesktopTransmitter /\ view' = CloseView(view)
      /\ UNCHANGED <<source, desktop, down, up>>
  BY DEF Unsubscribe
<1>2. dtx' = None /\ (closed' # None => closed'.session <= updates)
  BY <1>1, StopFacts, StopIsKnown
<1>3. view'.session = 0 /\ view'.queue = <<>> /\ ToSet(<<>>) = {}
  BY <1>1, Types, CloseViewFacts DEF ToSet
<1>4. KnownTo(updates, view', down, up)
  BY <1>3, Types DEF SessionInv, Known, KnownTo
<1> QED
  BY <1>1, <1>2, <1>3, <1>4 DEF SessionInv, Live, Known, NoNak, ViewClosed, Delivered, QueueOK, source

\* What is in flight changes only by losses, naks of other sessions, and packets of
\* the transmission.
LEMMA NetDelivers ==
    ASSUME BaseInv, SessionInv, UNCHANGED <<source, desktop, subscribed, dtx, viewer>>,
           up' \subseteq up,
           \A m \in down' :
              \/ m \in down
              \/ m.kind = "nak" /\ m.session <= updates /\ (dtx # None => m.session # dtx.session)
              \/ dtx # None /\ m \in dtx.queued \cup dtx.sent,
           closed' # None => closed' = closed,
           naktimer' => naktimer
    PROVE  SessionInv'
<1>1. Live' /\ ViewClosed'
  BY DEF SessionInv, Live, ViewClosed, source, viewer
<1>2. "nak" # "desktop"
  OBVIOUS
<1>3. Delivered'
  <2>1. ASSUME dtx # None
        PROVE  \E ps \in SUBSET DesktopPacket : Delivering(ps, dtx, desktop, view, down', up')
    <3>1. PICK ps \in SUBSET DesktopPacket : Delivering(ps, dtx, desktop, view, down, up)
      BY <2>1 DEF SessionInv, Delivered
    <3>2. dtx.queued \cup dtx.sent \subseteq ps
      BY <3>1 DEF Delivering, Left
    <3>3. \A m \in down' : m \in down \/ m \in ps \/ m.kind # "desktop"
      BY <1>2, <3>2
    <3>4. up' \in SUBSET up
      OBVIOUS
    <3>5. Delivering(ps, dtx, desktop, view, down', up')
      BY <3>1, <3>3, <3>4, NetChanges
    <3> QED  BY <3>5
  <2> QED  BY <2>1 DEF Delivered, viewer
<1>4. ASSUME dtx # None
      PROVE  \A p \in dtx.queued \cup dtx.sent : /\ p.kind = "desktop"
                                                 /\ p.session <= updates /\ p.update <= updates
  <2>1. /\ dtx \in Transmitter /\ dtx.session <= updates /\ desktop # None
        /\ dtx.update <= desktop.update /\ desktop.update <= updates
        /\ dtx.queued \cup dtx.sent \in SUBSET DesktopPacket
    BY <1>4, Types, TransmitterFields DEF SessionInv, Live
  <2>2. dtx.update <= updates
    <3>1. dtx.update \in Int /\ desktop.update \in Int /\ updates \in Int
      BY <2>1, Types, TransmitterFields, DesktopFields, UpdatesAreNumbers
    <3> QED  BY <2>1, <3>1
  <2>3. PICK ps \in SUBSET DesktopPacket : Delivering(ps, dtx, desktop, view, down, up)
    BY <1>4 DEF SessionInv, Delivered
  <2>4. \A p \in dtx.queued \cup dtx.sent : p.session = dtx.session /\ p.update = dtx.update
    BY <2>3 DEF Delivering, Left, Shape
  <2> QED  BY <2>1, <2>2, <2>4, PacketFields
<1>5. NoNak'
  BY <1>2, <1>4 DEF SessionInv, NoNak
<1>6. \A m \in down' : m.session <= updates /\ (m.kind = "desktop" => m.update <= updates)
  BY <1>2, <1>4 DEF SessionInv, Known, KnownTo
<1>7. Known'
  BY <1>6 DEF SessionInv, Known, KnownTo, source, viewer
<1> QED  BY <1>1, <1>3, <1>5, <1>7 DEF SessionInv

LEMMA SendNakDelivers ==
    ASSUME BaseInv, SessionInv, SendNak
    PROVE  SessionInv'
<1>1. /\ naktimer /\ naktimer' = FALSE
      /\ down' = down \cup (IF closed = None THEN {}
                            ELSE {[kind |-> "nak", session |-> closed.session]})
      /\ UNCHANGED <<source, desktop, subscribed, dtx, rtx, closed, viewer, up>>
  BY DEF SendNak
<1>2. \A m \in down' :
         \/ m \in down
         \/ m.kind = "nak" /\ m.session <= updates /\ (dtx # None => m.session # dtx.session)
  BY <1>1 DEF SessionInv, Known, NoNak
<1> QED  BY <1>1, <1>2, NetDelivers

LEMMA RetransmitDelivers ==
    ASSUME BaseInv, SessionInv, RetransmitDesktopPackets
    PROVE  SessionInv'
<1>1. UNCHANGED <<source, desktop, subscribed, dtx, closed, naktimer, viewer, up>>
  BY DEF RetransmitDesktopPackets
<1>2. \A m \in down' : m \in down \/ (dtx # None /\ m \in dtx.queued \cup dtx.sent)
  BY DEF RetransmitDesktopPackets, Lowest
<1> QED  BY <1>1, <1>2, NetDelivers

LEMMA LoseDelivers ==
    ASSUME BaseInv, SessionInv, Lose
    PROVE  SessionInv'
<1>1. /\ down' \subseteq down /\ up' \subseteq up
      /\ UNCHANGED <<source, desktop, subscribed, dtx, rtx, closed, naktimer, viewer>>
  BY DEF Lose
<1> QED  BY <1>1, NetDelivers

LEMMA SendAckDelivers ==
    ASSUME BaseInv, SessionInv, SendAck
    PROVE  SessionInv'
<1>1. /\ up' = up \cup (IF HasAck(view) THEN {AckOf(view)} ELSE {})
      /\ UNCHANGED <<source, desktop, subscribed, dtx, rtx, closed, naktimer, view, down>>
  BY DEF SendAck
<1>2. /\ view \in View /\ (view.session # 0 => view.last # 0)
      /\ dtx # None => dtx \in Transmitter
  BY Types
<1>3. CASE ~HasAck(view)
  <2>1. up' = up
    BY <1>1, <1>3
  <2> QED
    BY <1>1, <2>1 DEF SessionInv, Live, Known, NoNak, ViewClosed, Delivered, source
<1>4. CASE HasAck(view)
  <2>1. up' = up \cup {AckOf(view)}
    BY <1>1, <1>4
  <2>2. AckOf(view).session <= updates
    <3>1. /\ AckOf(view).packets # {}
          /\ view.session # 0 => AckOf(view).session = view.session
          /\ view.session = 0 =>
                \A i \in AckOf(view).packets : \E q \in ToSet(view.queue) :
                    q.index = i /\ q.session = AckOf(view).session
                    /\ q.update = AckOf(view).update
      BY <1>2, <1>4, AckFacts
    <3>2. CASE view.session # 0
      BY <3>1, <3>2 DEF SessionInv, Known, KnownTo
    <3>3. CASE view.session = 0
      <4>1. \E q \in ToSet(view.queue) : q.session = AckOf(view).session
        BY <3>1, <3>3
      <4> QED  BY <4>1 DEF SessionInv, Known, KnownTo
    <3> QED  BY <3>2, <3>3
  <2>3. Known'
    BY <1>1, <2>1, <2>2 DEF SessionInv, Known, KnownTo, source
  <2>4. Delivered'
    <3>1. ASSUME dtx # None
          PROVE  \E ps \in SUBSET DesktopPacket : Delivering(ps, dtx, desktop, view, down, up')
      <4>1. PICK ps \in SUBSET DesktopPacket : Delivering(ps, dtx, desktop, view, down, up)
        BY <3>1 DEF SessionInv, Delivered
      <4>2. Delivering(ps, dtx, desktop, view, down, up')
        BY <1>2, <1>4, <2>1, <3>1, <4>1, AckIsTrue
      <4> QED  BY <4>2
    <3> QED  BY <1>1, <3>1 DEF Delivered
  <2> QED
    BY <1>1, <2>3, <2>4 DEF SessionInv, Live, NoNak, ViewClosed, source
<1> QED  BY <1>3, <1>4

LEMMA SubscribeDelivers ==
    ASSUME BaseInv, SessionInv, Subscribe
    PROVE  SessionInv'
<1>1. /\ ~subscribed /\ down = {} /\ up = {} /\ ~naktimer
      /\ subscribed' = TRUE
      /\ IF desktop # None THEN StartDesktopTransmitter(dtx, rtx, desktop, down)
         ELSE UNCHANGED <<dtx, rtx, down>>
      /\ UNCHANGED <<source, desktop, closed, naktimer, viewer, up>>
  BY DEF Subscribe
<1>2. dtx = None /\ view.session = 0 /\ view.queue = <<>> /\ ToSet(<<>>) = {}
  BY <1>1 DEF SessionInv, Live, ViewClosed, ToSet
<1>3. ViewClosed'
  BY <1>1 DEF SessionInv, ViewClosed, viewer
<1>4. CASE desktop = None
  <2>1. dtx' = None /\ down' = {} /\ up' = {}
    BY <1>1, <1>2, <1>4
  <2> QED
    BY <1>1, <1>2, <1>3, <1>4, <2>1
       DEF SessionInv, Live, Known, KnownTo, NoNak, Delivered, source, viewer
<1>5. CASE desktop # None
  <2>1. /\ desktop \in Desktop /\ Fresh(desktop) /\ desktop.session <= desktop.update
        /\ desktop.update <= updates /\ updates \in Nat /\ view \in View
    BY <1>5, Types
  <2>2. desktop.session # 0 /\ desktop.session \in Int /\ desktop.update \in Int
    BY <2>1, DesktopFields, UpdatesAreNumbers
  <2>3. /\ dtx' # None /\ dtx'.session = desktop.session
        /\ \A m \in down' : m.kind = "nak" => m \in down
        /\ \E qs \in SUBSET DesktopPacket : Delivering(qs, dtx', desktop, view, down', up)
    <3>1. StartDesktopTransmitter(None, rtx, desktop, down)
      BY <1>1, <1>2, <1>5
    <3>2. /\ view.session # desktop.session
          /\ \A q \in ToSet(view.queue) : q.update < desktop.session
          /\ \A m \in down : m.kind # "desktop"
          /\ \A a \in up : a.session # desktop.session
      BY <1>1, <1>2, <2>2
    <3> QED  BY <2>1, <3>1, <3>2, StartFirstDelivers
  <2>4. Live' /\ NoNak' /\ Delivered'
    BY <1>1, <1>5, <2>3 DEF SessionInv, Live, NoNak, Delivered, source, viewer
  <2>5. \A m \in down' : m.session <= updates /\ (m.kind = "desktop" => m.update <= updates)
    <3>1. BaseInv'
      BY SubscribeKeeps
    <3>2. /\ dtx' \in Transmitter /\ dtx'.session <= updates
          /\ dtx'.update <= desktop.update
          /\ down' \in SUBSET (DesktopPacket \cup Nak)
      BY <1>1, <1>5, <2>3, <3>1 DEF BaseInv, TypeOK, TransmitterOK, source
    <3>3. dtx'.update <= updates
      <4>1. dtx'.update \in Int
        BY <3>2, TransmitterFields, UpdatesAreNumbers
      <4> QED  BY <2>1, <2>2, <3>2, <4>1
    <3>4. PICK qs \in SUBSET DesktopPacket : Delivering(qs, dtx', desktop, view, down', up)
      BY <2>3
    <3>5. \A m \in down' : m.kind = "desktop" => m.session <= updates /\ m.update <= updates
      BY <2>1, <3>2, <3>3, <3>4, FlightKnown
    <3>6. \A m \in down' : m.kind = "desktop"
      BY <1>1, <2>3, <3>2, PacketFields DEF Nak
    <3> QED  BY <3>5, <3>6
  <2>6. Known'
    BY <1>1, <2>5 DEF SessionInv, Known, KnownTo, source, viewer
  <2> QED  BY <1>3, <2>4, <2>6 DEF SessionInv
<1> QED  BY <1>4, <1>5

\* An acknowledgement of another session is answered with its nak, if at all.
LEMMA OldAckDelivers ==
    ASSUME BaseInv, SessionInv, NEW a \in up, up' = up \ {a}, ReceiveOldAck(a),
           UNCHANGED <<source, desktop, subscribed, naktimer, viewer>>
    PROVE  SessionInv'
<1>1. /\ dtx # None => dtx.session # a.session
      /\ dtx' = dtx
      /\ closed' \in {closed, None}
      /\ down' \subseteq down \cup {[kind |-> "nak", session |-> a.session]}
  BY DEF ReceiveOldAck
<1>2. a.session <= updates
  BY DEF SessionInv, Known, KnownTo
<1>3. \A m \in down' :
         \/ m \in down
         \/ m.kind = "nak" /\ m.session <= updates /\ (dtx # None => m.session # dtx.session)
  BY <1>1, <1>2
<1> QED  BY <1>1, <1>3, NetDelivers

LEMMA AckReceivedDelivers ==
    ASSUME BaseInv, SessionInv, NEW a \in up, up' = up \ {a}, ReceiveAck(a), BaseInv',
           UNCHANGED <<source, desktop, subscribed, naktimer, viewer>>
    PROVE  SessionInv'
<1>1. dtx # None /\ dtx.session = a.session /\ closed' = closed
  BY DEF ReceiveAck
<1>2. CASE dtx.update # a.update
  <2>1. dtx' = dtx /\ down' = down
    BY <1>2 DEF ReceiveAck
  <2> QED  BY <1>1, <2>1, NetDelivers
<1>3. CASE dtx.update = a.update
  <2>1. /\ subscribed /\ desktop # None /\ dtx.session = desktop.session
        /\ desktop \in Desktop /\ Fresh(desktop) /\ desktop.session <= desktop.update
        /\ desktop.update <= updates /\ updates \in Nat
        /\ dtx \in Transmitter /\ TxOK(dtx) /\ dtx.update <= desktop.update
        /\ view \in View /\ up \in SUBSET Ack /\ a \in Ack /\ QueueOK(view)
        /\ down \in SUBSET (DesktopPacket \cup Nak)
    BY <1>1, Types DEF SessionInv, Live, ViewClosed
  <2>2. a.packets # {}
    BY DEF BaseInv, AcksTell
  <2> DEFINE u(lost) == [ProcessAck(dtx, a) EXCEPT !.tx = @ - Cardinality(lost)]
  <2>3. PICK lost \in Resendable(ProcessAck(dtx, a)) :
           LET n == Advance(u(lost))
               wire == down \cup lost \cup NextPackets(u(lost))
           IN  IF Done(n) /\ desktop # None
               THEN StartDesktopTransmitter(n, FALSE, desktop, wire)
               ELSE dtx' = n /\ rtx' = (rtx /\ ~Done(n)) /\ down' = wire
    BY <1>3 DEF ReceiveAck
  <2> DEFINE n == Advance(u(lost))
             more == lost \cup NextPackets(u(lost))
  <2>4. /\ TxOK(n)
        /\ n.session = dtx.session /\ n.update = dtx.update
        /\ n.queued \cup n.sent = dtx.queued \cup (dtx.sent \ Acked(dtx, a))
        /\ lost \subseteq dtx.sent /\ NextPackets(u(lost)) \subseteq dtx.queued
    BY <2>1, <2>2, AckedTransmitter
  <2>5. more \subseteq dtx.queued \cup dtx.sent
    BY <2>4
  <2>6. down \cup lost \cup NextPackets(u(lost)) = down \cup more
    OBVIOUS
  <2>7. IF Done(n) /\ desktop # None
        THEN StartDesktopTransmitter(n, FALSE, desktop, down \cup more)
        ELSE dtx' = n /\ rtx' = (rtx /\ ~Done(n)) /\ down' = down \cup more
    BY <2>3, <2>6
  <2> HIDE DEF n, more
  <2>8. PICK ps \in SUBSET DesktopPacket : Delivering(ps, dtx, desktop, view, down, up)
    BY <1>1 DEF SessionInv, Delivered
  <2>9. Delivering(ps, n, desktop, view, down \cup more, up \ {a})
    BY <1>1, <1>3, <2>1, <2>4, <2>5, <2>8, AckDelivers
  <2>10. more \in SUBSET DesktopPacket
    BY <2>1, <2>5, SentFinite
  <2>11. /\ dtx' # None /\ dtx'.session = desktop.session
         /\ \A m \in down' : m.kind = "nak" => m \in down \cup more
         /\ \E qs \in SUBSET DesktopPacket : Delivering(qs, dtx', desktop, view, down', up')
    <3>1. CASE Done(n)
      <4>1. StartDesktopTransmitter(n, FALSE, desktop, down \cup more)
        BY <2>1, <2>7, <3>1
      <4>2. n.session = desktop.session /\ n.update <= desktop.update
        BY <2>1, <2>4
      <4>3. down \cup more \in SUBSET (DesktopPacket \cup Nak) /\ up \ {a} \in SUBSET Ack
        BY <2>1, <2>10
      <4> QED  BY <2>1, <2>4, <2>9, <4>1, <4>2, <4>3, StartDelivers
    <3>2. CASE ~Done(n)
      <4>1. dtx' = n /\ down' = down \cup more
        BY <2>7, <3>2
      <4>2. n # None
        BY <2>4, TransmitterFields DEF TxOK
      <4> QED  BY <2>1, <2>4, <2>9, <4>1, <4>2
    <3> QED  BY <3>1, <3>2
  <2>12. \A m \in down' : m.kind = "nak" => m \in down
    BY <2>10, <2>11, PacketFields
  <2>13. Live' /\ NoNak' /\ Delivered' /\ ViewClosed'
    BY <1>1, <2>1, <2>11, <2>12 DEF SessionInv, Live, NoNak, Delivered, ViewClosed, source, viewer
  <2>14. \A m \in down' : m.session <= updates /\ (m.kind = "desktop" => m.update <= updates)
    <3>1. /\ dtx' \in Transmitter /\ dtx'.session <= updates
          /\ dtx'.update <= desktop.update
          /\ down' \in SUBSET (DesktopPacket \cup Nak)
      BY <2>1, <2>11 DEF BaseInv, TypeOK, TransmitterOK, source
    <3>2. dtx'.update <= updates
      <4>1. dtx'.update \in Int /\ desktop.update \in Int
        BY <2>1, <3>1, TransmitterFields, DesktopFields, UpdatesAreNumbers
      <4> QED  BY <2>1, <3>1, <4>1
    <3>3. PICK qs \in SUBSET DesktopPacket : Delivering(qs, dtx', desktop, view, down', up')
      BY <2>11
    <3>4. \A m \in down' : m.kind = "desktop" => m.session <= updates /\ m.update <= updates
      BY <2>1, <3>1, <3>2, <3>3, FlightKnown
    <3>5. \A m \in down' : m.kind = "nak" \/ m.kind = "desktop"
      BY <3>1, PacketFields DEF Nak
    <3> QED  BY <2>12, <3>4, <3>5 DEF SessionInv, Known, KnownTo
  <2>15. Known'
    BY <1>1, <2>14 DEF SessionInv, Known, KnownTo, source, viewer
  <2> QED  BY <2>13, <2>15 DEF SessionInv
<1> QED  BY <1>2, <1>3

LEMMA ReceiveAtServerDelivers ==
    ASSUME BaseInv, SessionInv, ReceiveAtServer, BaseInv'
    PROVE  SessionInv'
<1>1. PICK a \in up :
         /\ up' = up \ {a}
         /\ ReceiveOldAck(a) \/ ReceiveAck(a)
         /\ UNCHANGED <<source, desktop, subscribed, naktimer, viewer>>
  BY DEF ReceiveAtServer
<1> QED  BY <1>1, OldAckDelivers, AckReceivedDelivers

\* A packet the viewer takes: of the transmission, or one that changes nothing.
LEMMA PacketDelivers ==
    ASSUME NEW ps \in SUBSET DesktopPacket, NEW t \in Transmitter, NEW d \in Desktop,
           NEW v \in View, NEW net \in SUBSET (DesktopPacket \cup Nak), NEW acks,
           Delivering(ps, t, d, v, net, acks), QueueOK(v),
           NEW p \in net, p.kind = "desktop", p.update >= v.last
    PROVE  Delivering(ps, t, d, AddPacket(v, p), net, acks)
<1>1. p \in DesktopPacket /\ p.session = t.session /\ (p \in ps \/ Passed(p, t, v))
  BY KindsDiffer DEF Delivering, InFlight
<1>2. t.session # 0
  BY TransmitterFields, UpdatesAreNumbers
<1>3. CASE Passed(p, t, v)
  <2>1. AddPacket(v, p) = v
    BY <1>1, <1>3, PassedChangesNothing
  <2> QED  BY <2>1
<1>4. CASE p \in ps /\ v.session = t.session
  <2>1. AddPacket(v, p) = AddToSession(v, p)
    BY <1>1, <1>2, <1>4 DEF AddPacket
  <2>2. Delivering(ps, t, d, AddToSession(v, p), net, acks)
    BY <1>4, SessionDelivers
  <2> QED  BY <2>1, <2>2
<1>5. CASE p \in ps /\ v.session # t.session /\ v.session # 0
  <2> DEFINE w == CloseView(v)
  <2>1. Delivering(ps, t, d, w, net, acks) /\ QueueOK(w) /\ w \in View /\ w.session = 0
    BY <1>5, ClosedDelivers, CloseViewFacts
  <2>2. AddPacket(v, p) = AddToQueue(w, p)
    BY <1>1, <1>5, <2>1 DEF AddPacket
  <2> HIDE DEF w
  <2>3. Delivering(ps, t, d, AddToQueue(w, p), net, acks)
    BY <1>5, <2>1, QueueDelivers
  <2> QED  BY <2>2, <2>3
<1>6. CASE p \in ps /\ v.session = 0
  <2>1. AddPacket(v, p) = AddToQueue(v, p)
    BY <1>6 DEF AddPacket
  <2>2. Delivering(ps, t, d, AddToQueue(v, p), net, acks)
    BY <1>6, QueueDelivers
  <2> QED  BY <2>1, <2>2
<1> QED  BY <1>1, <1>3, <1>4, <1>5, <1>6

LEMMA ReceiveAtViewerDelivers ==
    ASSUME BaseInv, SessionInv, ReceiveAtViewer
    PROVE  SessionInv'
<1>1. PICK m \in down :
         /\ IF m.kind = "nak" THEN ReceiveNak(m) ELSE ReceivePacket(m)
         /\ down' = down \ {m}
         /\ UNCHANGED <<source, desktop, subscribed, dtx, rtx, closed, naktimer, up>>
  BY DEF ReceiveAtViewer
<1>2. /\ view \in View /\ down \in SUBSET (DesktopPacket \cup Nak)
      /\ dtx # None => dtx \in Transmitter
      /\ desktop # None => desktop \in Desktop
      /\ QueueOK(view)
  BY Types DEF SessionInv, ViewClosed
<1>3. Live' /\ NoNak'
  BY <1>1 DEF SessionInv, Live, NoNak, source
<1>4. KnownTo(updates, view, down, up)
  BY DEF SessionInv, Known
<1>5. ASSUME /\ QueueOK(view')
             /\ ~subscribed => view'.session = 0 /\ view'.queue = <<>>
             /\ view'.session \in {0, view.session} \cup {p.session : p \in down}
             /\ ToSet(view'.queue) \subseteq
                   ToSet(view.queue) \cup {p \in down : p.kind = "desktop"}
             /\ \A ps \in SUBSET DesktopPacket :
                   dtx # None /\ Delivering(ps, dtx, desktop, view, down, up)
                      => Delivering(ps, dtx, desktop, view', down, up)
      PROVE  SessionInv'
  <2>1. Known'
    <3>1. view'.session <= updates
      BY <1>4, <1>5, Types DEF KnownTo
    <3>2. \A q \in ToSet(view'.queue) : q.session <= updates /\ q.update <= updates
      BY <1>4, <1>5 DEF KnownTo
    <3> QED  BY <1>1, <1>4, <3>1, <3>2 DEF SessionInv, Known, KnownTo, source
  <2>2. Delivered'
    <3>1. ASSUME dtx # None
          PROVE  \E ps \in SUBSET DesktopPacket : Delivering(ps, dtx, desktop, view', down', up)
      <4>1. PICK ps \in SUBSET DesktopPacket : Delivering(ps, dtx, desktop, view, down, up)
        BY <3>1 DEF SessionInv, Delivered
      <4>2. Delivering(ps, dtx, desktop, view', down, up)
        BY <1>5, <3>1, <4>1
      <4>3. \A x \in down' : x \in down \/ x \in ps \/ x.kind # "desktop"
        BY <1>1
      <4>4. Delivering(ps, dtx, desktop, view', down', up)
        <5>1. up \in SUBSET up
          OBVIOUS
        <5> QED  BY <4>2, <4>3, <5>1, NetChanges
      <4> QED  BY <4>4
    <3> QED  BY <1>1, <3>1 DEF Delivered
  <2>3. ViewClosed'
    BY <1>1, <1>5 DEF ViewClosed
  <2> QED  BY <1>3, <2>1, <2>2, <2>3 DEF SessionInv
<1>6. CASE view' = view
  BY <1>5, <1>6 DEF SessionInv, ViewClosed
<1>7. CASE m.kind = "nak" /\ m.session = view.session
  <2>1. view' = CloseView(view)
    BY <1>1, <1>7 DEF ReceiveNak
  <2>2. view'.session = 0 /\ view'.queue = <<>> /\ ToSet(<<>>) = {}
    BY <1>2, <2>1, CloseViewFacts DEF ToSet
  <2>3. view.session # 0
    <3>1. m \in Nak
      BY <1>2, <1>7, KindsDiffer
    <3> QED  BY <1>7, <3>1, UpdatesAreNumbers DEF Nak
  <2>4. dtx # None => view.session # dtx.session
    BY <1>7 DEF SessionInv, NoNak
  <2>5. ASSUME NEW ps \in SUBSET DesktopPacket, dtx # None,
               Delivering(ps, dtx, desktop, view, down, up)
        PROVE  Delivering(ps, dtx, desktop, view', down, up)
    BY <1>2, <2>1, <2>3, <2>4, <2>5, ClosedDelivers
  <2>6. QueueOK(view')
    BY <2>2 DEF QueueOK
  <2> QED  BY <1>5, <2>2, <2>5, <2>6
<1>8. CASE m.kind # "nak" /\ subscribed /\ m.update >= view.last
  <2>1. view' = AddPacket(view, m)
    BY <1>1, <1>8 DEF ReceivePacket
  <2>2. m \in DesktopPacket /\ m.kind = "desktop"
    BY <1>2, <1>8, KindsDiffer, PacketFields
  <2>3. /\ QueueOK(view')
        /\ view'.session \in {0, view.session, m.session}
        /\ ToSet(view'.queue) \subseteq ToSet(view.queue) \cup {m}
    BY <1>2, <2>1, <2>2, AddPacketFacts
  <2>4. ASSUME NEW ps \in SUBSET DesktopPacket, dtx # None,
               Delivering(ps, dtx, desktop, view, down, up)
        PROVE  Delivering(ps, dtx, desktop, view', down, up)
    <3>1. dtx \in Transmitter /\ desktop \in Desktop
      BY <1>2, <2>4 DEF SessionInv, Live
    <3> QED  BY <1>2, <1>8, <2>1, <2>2, <2>4, <3>1, PacketDelivers
  <2> QED  BY <1>5, <1>8, <2>2, <2>3, <2>4
<1>9. view' = view \/ (m.kind = "nak" /\ m.session = view.session)
      \/ (m.kind # "nak" /\ subscribed /\ m.update >= view.last)
  BY <1>1 DEF ReceiveNak, ReceivePacket, viewer
<1> QED  BY <1>6, <1>7, <1>8, <1>9

LEMMA InitSession ==
    ASSUME Init
    PROVE  SessionInv
<1>1. NoView.session = 0 /\ NoView.queue = <<>> /\ ToSet(<<>>) = {}
  BY DEF NoView, ToSet
<1>2. dtx = None /\ desktop = None /\ closing = 0 /\ closed = None /\ updates = 0
      /\ view = NoView /\ down = {} /\ up = {}
  BY DEF Init
<1>3. Live /\ NoNak /\ Delivered
  BY <1>2 DEF Live, NoNak, Delivered
<1>4. Known /\ ViewClosed
  BY <1>1, <1>2 DEF Known, KnownTo, ViewClosed, QueueOK
<1> QED  BY <1>3, <1>4 DEF SessionInv

LEMMA NextSession ==
    ASSUME BaseInv, SessionInv, BaseInv', [Next]_vars
    PROVE  SessionInv'
<1>1. CASE UNCHANGED vars
  BY <1>1 DEF SessionInv, Live, Known, NoNak, ViewClosed, Delivered, vars, source, viewer
<1>2. CASE Next
  BY <1>2, SendUpdateDelivers, OpenSessionDelivers, CloseSessionDelivers,
     ReceiveSourceNakDelivers, SendNakDelivers, RetransmitDelivers, ReceiveAtServerDelivers,
     ReceiveAtViewerDelivers, SendAckDelivers, SubscribeDelivers, UnsubscribeDelivers,
     LoseDelivers DEF Next
<1> QED  BY <1>1, <1>2

\* The invariant of the sessions holds.
THEOREM SessionInvariant == Spec => []SessionInv
<1>1. Init => SessionInv
  BY InitSession
<1>2. BaseInv /\ BaseInv' /\ SessionInv /\ [Next]_vars => SessionInv'
  BY NextSession
<1> QED  BY <1>1, <1>2, Invariant, PTL DEF Spec

\* When the server takes a transmission to be done, the viewer shows every block that
\* did not change since, as it was sent, whatever was lost, repeated or came in another
\* order: the next transmission may leave these blocks out
\* (ServerNode::StartDesktopTransmitter(), ClientUser::AddPacket()).
THEOREM DoneTransmissionsAreShown == Spec => []DoneMeansShown
<1>1. ASSUME BaseInv, SessionInv  PROVE DoneMeansShown
  <2> SUFFICES ASSUME subscribed, dtx # None, Done(dtx), desktop # None
               PROVE  /\ view.session = desktop.session
                      /\ \A b \in Block : desktop.version[b] =< dtx.update
                                             => view.screen[b] = desktop.version[b]
    BY DEF DoneMeansShown
  <2>1. dtx.session = desktop.session
    BY <1>1 DEF SessionInv, Live
  <2>2. PICK ps \in SUBSET DesktopPacket : Delivering(ps, dtx, desktop, view, down, up)
    BY <1>1 DEF SessionInv, Delivered
  <2>3. dtx \in Transmitter /\ desktop \in Desktop /\ view \in View /\ QueueOK(view)
    BY <1>1, Types DEF SessionInv, ViewClosed
  <2> QED  BY <2>1, <2>2, <2>3, DoneShows
<1> QED  BY <1>1, Invariant, SessionInvariant, PTL
=============================================================================
