-------------------------- MODULE ServerNodeProofs --------------------------
(***************************************************************************)
(* Proofs, for every set of users, accounts and channels, of what the      *)
(* server's bookkeeping promises.                                          *)
(***************************************************************************)
EXTENDS ServerNode, FiniteSetTheorems, TLAPS

\* The ancestors of every channel exist and have among their own ancestors only
\* its ancestors, and no channel is above itself. This is what makes a subtree
\* closed, and with it the set of channels any handler removes. On the way up
\* from a channel to an ancestor lies a sub channel of the ancestor, so that a
\* channel that has others below it has a sub channel.
Lineage ==
    /\ Root \in Channels
    /\ chan[Root].above = {}
    /\ \A c \in Channels :
          /\ c \notin chan[c].above
          /\ \A d \in chan[c].above :
                /\ d \in Channels
                /\ chan[d].above \subseteq chan[c].above
                /\ \E e \in Channels :
                      chan[e].parent = d /\ (e = c \/ e \in chan[c].above)

\* A set of channels that holds everything below each of its members.
Closed(Gone) ==
    \A c \in Gone, d \in Channels : c \in chan[d].above => d \in Gone

-----------------------------------------------------------------------------
(* Facts about subtrees and the channels handlers remove. *)

\* A channel belongs to its own subtree, the first that RemoveChannel takes.
LEMMA SubtreeSelf == ASSUME NEW c \in Channels PROVE c \in Subtree(c)
BY DEF Subtree

\* The subtree of a channel below another is part of the other's subtree.
LEMMA SubtreeNests ==
    ASSUME Lineage, NEW c \in Channels, NEW d \in Channels, c \in chan[d].above
    PROVE  Subtree(d) \subseteq Subtree(c)
BY DEF Lineage, Subtree

\* What CleanChannels removes is never the root, holds everything below its members,
\* has no users but those who leave, and spares the channel being entered.
LEMMA CleanedClosed ==
    ASSUME Lineage, NEW K, NEW kept
    PROVE  /\ Cleaned(K, kept) \subseteq Channels \ {Root}
           /\ Closed(Cleaned(K, kept))
           /\ \A c \in Cleaned(K, kept) : chan[c].users \subseteq K /\ c # kept
<1>1. Cleaned(K, kept) \subseteq Channels \ {Root}
  BY DEF Cleaned
<1>2. ASSUME NEW c \in Cleaned(K, kept), NEW d \in Channels, c \in chan[d].above
      PROVE  d \in Cleaned(K, kept)
  <2>1. c \in Channels
    BY <1>1, <1>2
  <2>2. Subtree(d) \subseteq Subtree(c)
    BY <1>2, <2>1, SubtreeNests
  <2>3. d # Root
    BY <1>2 DEF Lineage
  <2> QED
    BY <1>2, <2>2, <2>3 DEF Cleaned
<1>3. \A c \in Cleaned(K, kept) : chan[c].users \subseteq K /\ c # kept
  BY <1>1, SubtreeSelf DEF Cleaned
<1> QED
  BY <1>1, <1>2, <1>3 DEF Closed

\* A subtree holds everything below each of its channels.
LEMMA SubtreeClosed ==
    ASSUME Lineage, NEW c \in Channels
    PROVE  Subtree(c) \subseteq Channels /\ Closed(Subtree(c))
<1>1. ASSUME NEW e \in Subtree(c), NEW d \in Channels, e \in chan[d].above
      PROVE  d \in Subtree(c)
  BY <1>1 DEF Lineage, Subtree
<1> QED
  BY <1>1 DEF Closed, Subtree

\* The ancestors a removal climbs to hold no users.
LEMMA CleanedAboveClosed ==
    ASSUME Lineage, NEW c \in Channels
    PROVE  /\ CleanedAbove(c) \subseteq Channels \ {Root}
           /\ Closed(Subtree(c) \cup CleanedAbove(c))
           /\ \A d \in CleanedAbove(c) : chan[d].users = {}
<1>1. CleanedAbove(c) \subseteq Channels \ {Root}
  BY DEF Lineage, CleanedAbove
<1>2. \A d \in CleanedAbove(c) : d \in Subtree(d) \ Subtree(c)
  BY <1>1, SubtreeSelf DEF Lineage, CleanedAbove, Subtree
<1>3. \A d \in CleanedAbove(c) : chan[d].users = {}
  BY <1>2 DEF CleanedAbove
<1>4. ASSUME NEW d \in CleanedAbove(c), NEW e \in Channels, d \in chan[e].above,
             e \notin Subtree(c)
      PROVE  e \in CleanedAbove(c)
  <2>1. d \in Channels
    BY <1>1
  <2>2. Subtree(e) \subseteq Subtree(d)
    BY <1>4, <2>1, SubtreeNests
  <2>3. e \in Subtree(d) \ Subtree(c)
    BY <1>4, <2>2, SubtreeSelf
  <2>4. e \in chan[c].above
    BY <2>3 DEF CleanedAbove
  <2>5. e # Root
    BY <1>4 DEF Lineage
  <2> QED
    BY <2>2, <2>4, <2>5 DEF CleanedAbove
<1> QED
  BY <1>1, <1>3, <1>4, SubtreeClosed DEF Closed

-----------------------------------------------------------------------------
(* Trees as values: what pruning and growing do to them. *)

TreeType == [Channel -> ChannelState \cup {None}]

\* Two trees agree on what a client is told once, when a channel is made.
SameFrame(a, b) ==
    a.parent = b.parent /\ a.above = b.above /\ a.hidden = b.hidden

\* On the way up from channel c to channel d lies a sub channel of d.
Leads(t, c, d) ==
    \E e \in Channel :
        t[e] # None /\ t[e].parent = d /\ (e = c \/ e \in t[c].above)

\* Lineage and TreeWellFormed, of a tree.
GoodTree(t) ==
    /\ t \in TreeType
    /\ t[Root] # None
    /\ t[Root].above = {}
    /\ \A c \in Channel : t[c] # None =>
          /\ c \notin t[c].above
          /\ \A d \in t[c].above : t[d] # None /\ t[d].above \subseteq t[c].above
          /\ \A d \in t[c].above : Leads(t, c, d)
    /\ \A c \in Channel \ {Root} : t[c] # None =>
          /\ t[c].parent \in Channel
          /\ t[t[c].parent] # None
          /\ t[c].above = t[t[c].parent].above \cup {t[c].parent}
          /\ ~t[t[c].parent].hidden

\* GoodTree of the server's tree is what the two invariants say of it.
LEMMA GoodTreeIsInvariant ==
    TypeOK => (GoodTree(chan) <=> Lineage /\ TreeWellFormed)
<1> SUFFICES ASSUME TypeOK PROVE GoodTree(chan) <=> Lineage /\ TreeWellFormed
  OBVIOUS
<1>1. chan \in TreeType
  BY DEF TypeOK, TreeType
<1>2. \A c \in Channels : chan[c] \in ChannelState /\ chan[c].above \subseteq Channel
  BY DEF TypeOK, Channels, ChannelState
<1>3. GoodTree(chan) => Lineage /\ TreeWellFormed
  BY <1>2, RootAssumption DEF GoodTree, Leads, Lineage, TreeWellFormed, Channels
<1>4. Lineage /\ TreeWellFormed => GoodTree(chan)
  BY <1>1, <1>2, RootAssumption DEF GoodTree, Leads, Lineage, TreeWellFormed, Channels
<1> QED
  BY <1>3, <1>4

\* Taking users, operators and a closed set of channels away leaves a good tree.
LEMMA PruneIsGood ==
    ASSUME TypeOK, GoodTree(chan), NEW Gone, Root \notin Gone, Closed(Gone),
           NEW t \in TreeType,
           \A c \in Channel : t[c] # None <=> c \in Channels \ Gone,
           \A c \in Channels \ Gone : SameFrame(t[c], chan[c])
    PROVE  GoodTree(t)
<1>1. Root \in Channels \ Gone
  BY RootAssumption DEF GoodTree, Channels
<1>2. \A c \in Channels : chan[c].above \subseteq Channels
  BY DEF GoodTree, TypeOK, Channels, ChannelState
<1>3. ASSUME NEW c \in Channel, t[c] # None
      PROVE  /\ c \notin t[c].above
             /\ \A d \in t[c].above : t[d] # None /\ t[d].above \subseteq t[c].above
             /\ \A d \in t[c].above : Leads(t, c, d)
  <2>1. c \in Channels \ Gone /\ t[c].above = chan[c].above
    BY <1>3 DEF SameFrame
  <2>2. c \notin chan[c].above
    BY <2>1 DEF GoodTree, Channels
  <2>3. ASSUME NEW d \in chan[c].above PROVE d \in Channels \ Gone
    BY <1>2, <2>1, <2>3 DEF Closed
  <2>4. ASSUME NEW d \in chan[c].above
        PROVE  t[d].above = chan[d].above /\ chan[d].above \subseteq chan[c].above
    BY <2>1, <2>3, <2>4 DEF SameFrame, GoodTree, Channels
  <2>5. ASSUME NEW d \in chan[c].above PROVE Leads(t, c, d)
    <3>1. PICK e \in Channel :
             chan[e] # None /\ chan[e].parent = d /\ (e = c \/ e \in chan[c].above)
      BY <2>1, <2>5 DEF GoodTree, Leads, Channels
    <3>2. e \in Channels \ Gone
      BY <2>1, <2>3, <3>1
    <3> QED
      BY <2>1, <3>1, <3>2 DEF Leads, SameFrame
  <2> QED
    BY <2>1, <2>2, <2>3, <2>4, <2>5 DEF Channels
<1>4. ASSUME NEW c \in Channel \ {Root}, t[c] # None
      PROVE  /\ t[c].parent \in Channel
             /\ t[t[c].parent] # None
             /\ t[c].above = t[t[c].parent].above \cup {t[c].parent}
             /\ ~t[t[c].parent].hidden
  <2>1. c \in Channels \ Gone /\ SameFrame(t[c], chan[c])
    BY <1>4
  <2> DEFINE p == chan[c].parent
  <2>2. /\ p \in Channels
        /\ chan[c].above = chan[p].above \cup {p}
        /\ ~chan[p].hidden
    BY <1>4, <2>1 DEF GoodTree, Channels
  <2>3. p \in Channels \ Gone
    BY <2>1, <2>2 DEF Closed
  <2>4. SameFrame(t[p], chan[p])
    BY <2>3
  <2> QED
    BY <2>1, <2>2, <2>3, <2>4 DEF SameFrame, Channels
<1> QED
  BY <1>1, <1>3, <1>4, RootAssumption DEF GoodTree, SameFrame

\* A new leaf below a channel that is not hidden leaves a good tree.
LEMMA GrowthIsGood ==
    ASSUME NEW t, GoodTree(t), NEW c \in Channel, t[c] = None,
           NEW p \in Channel, t[p] # None, ~t[p].hidden,
           NEW leaf \in ChannelState, leaf # None, leaf.parent = p,
           leaf.above = t[p].above \cup {p}
    PROVE  GoodTree([t EXCEPT ![c] = leaf])
<1> DEFINE s == [t EXCEPT ![c] = leaf]
<1>1. /\ s \in TreeType
      /\ s[c] = leaf
      /\ \A d \in Channel \ {c} : s[d] = t[d]
  BY DEF GoodTree, TreeType
<1>2. c # Root /\ c # p /\ \A d \in Channel : t[d] # None => c \notin t[d].above
  BY DEF GoodTree
<1>3. \A d \in Channel : t[d] # None => t[d].above \subseteq Channel
  BY DEF GoodTree, TreeType, ChannelState
<1>4. ASSUME NEW d \in Channel, s[d] # None
      PROVE  /\ d \notin s[d].above
             /\ \A e \in s[d].above : s[e] # None /\ s[e].above \subseteq s[d].above
             /\ \A e \in s[d].above : Leads(s, d, e)
  <2>1. CASE d = c
    <3>1. s[d].above = t[p].above \cup {p}
      BY <1>1, <2>1
    <3>2. \A e \in t[p].above \cup {p} :
             e \in Channel \ {c} /\ t[e] # None /\ t[e].above \subseteq t[p].above
      BY <1>2, <1>3 DEF GoodTree
    <3>3. Leads(s, c, p)
      BY <1>1 DEF Leads
    <3>4. ASSUME NEW e \in t[p].above PROVE Leads(s, c, e)
      <4>1. PICK f \in Channel :
               t[f] # None /\ t[f].parent = e /\ (f = p \/ f \in t[p].above)
        BY <3>4 DEF GoodTree, Leads
      <4> QED
        BY <1>1, <2>1, <3>1, <4>1 DEF Leads
    <3> QED
      BY <1>1, <1>2, <2>1, <3>1, <3>2, <3>3, <3>4
  <2>2. CASE d # c
    <3>1. s[d] = t[d] /\ t[d] # None
      BY <1>1, <1>4, <2>2
    <3>2. \A e \in t[d].above : e \in Channel \ {c}
      BY <1>2, <1>3, <3>1
    <3>3. ASSUME NEW e \in t[d].above PROVE Leads(s, d, e)
      <4>1. Leads(t, d, e)
        BY <3>1, <3>3 DEF GoodTree
      <4>2. PICK f \in Channel :
               t[f] # None /\ t[f].parent = e /\ (f = d \/ f \in t[d].above)
        BY <4>1 DEF Leads
      <4>3. f # c
        BY <4>2
      <4> QED
        BY <1>1, <3>1, <4>2, <4>3 DEF Leads
    <3>4. /\ d \notin t[d].above
          /\ \A e \in t[d].above : t[e] # None /\ t[e].above \subseteq t[d].above
      BY <3>1 DEF GoodTree
    <3>5. \A e \in t[d].above : s[e] = t[e]
      BY <1>1, <3>2
    <3> HIDE DEF s
    <3> QED
      BY <3>1, <3>3, <3>4, <3>5
  <2> QED
    BY <2>1, <2>2
<1>5. ASSUME NEW d \in Channel \ {Root}, s[d] # None
      PROVE  /\ s[d].parent \in Channel
             /\ s[s[d].parent] # None
             /\ s[d].above = s[s[d].parent].above \cup {s[d].parent}
             /\ ~s[s[d].parent].hidden
  <2>1. CASE d = c
    BY <1>1, <1>2, <2>1
  <2>2. CASE d # c
    BY <1>1, <1>2, <1>5, <2>2 DEF GoodTree
  <2> QED
    BY <2>1, <2>2
<1> QED
  BY <1>1, <1>2, <1>4, <1>5, RootAssumption DEF GoodTree

-----------------------------------------------------------------------------
(* What the operators that prune the tree leave of it. *)

\* Every channel in use has a state, and its users and ancestors are users and ids.
LEMMA ChannelsHaveStates ==
    ASSUME TypeOK
    PROVE  /\ \A c \in Channels :
                /\ chan[c] \in ChannelState
                /\ chan[c].above \subseteq Channel
                /\ chan[c].users \subseteq User
                /\ chan[c].ops \subseteq User
           /\ Channels \subseteq Channel
BY DEF TypeOK, Channels, ChannelState

\* What is left of the tree after users have left and channels are removed.
LEMMA WithoutIs ==
    ASSUME TypeOK, NEW K, NEW Gone
    PROVE  /\ Without(K, Gone) \in TreeType
           /\ \A c \in Channel :
                Without(K, Gone)[c] # None <=> c \in Channels \ Gone
           /\ \A c \in Channels \ Gone :
                /\ SameFrame(Without(K, Gone)[c], chan[c])
                /\ Without(K, Gone)[c].users = chan[c].users \ K
                /\ Without(K, Gone)[c].ops = chan[c].ops
<1>1. ASSUME NEW c \in Channels
      PROVE  /\ [chan[c] EXCEPT !.users = @ \ K] \in ChannelState
             /\ SameFrame([chan[c] EXCEPT !.users = @ \ K], chan[c])
             /\ [chan[c] EXCEPT !.users = @ \ K].users = chan[c].users \ K
             /\ [chan[c] EXCEPT !.users = @ \ K].ops = chan[c].ops
  BY ChannelsHaveStates DEF ChannelState, SameFrame
<1>2. \A c \in Channels : [chan[c] EXCEPT !.users = @ \ K] # None
  BY <1>1, NoneAssumption
<1> QED
  BY <1>1, <1>2, ChannelsHaveStates DEF Without, TreeType

\* RemoveOperator from the root down changes nothing but lists of operators.
LEMMA DeOpAllIs ==
    ASSUME NEW tree \in TreeType, NEW K
    PROVE  /\ DeOpAll(K, tree) \in TreeType
           /\ \A c \in Channel : DeOpAll(K, tree)[c] # None <=> tree[c] # None
           /\ \A c \in Channel : tree[c] # None =>
                /\ SameFrame(DeOpAll(K, tree)[c], tree[c])
                /\ DeOpAll(K, tree)[c].users = tree[c].users
                /\ DeOpAll(K, tree)[c].ops = tree[c].ops \ K
<1>1. ASSUME NEW c \in Channel, tree[c] # None
      PROVE  /\ [tree[c] EXCEPT !.ops = @ \ K] \in ChannelState
             /\ SameFrame([tree[c] EXCEPT !.ops = @ \ K], tree[c])
             /\ [tree[c] EXCEPT !.ops = @ \ K].users = tree[c].users
             /\ [tree[c] EXCEPT !.ops = @ \ K].ops = tree[c].ops \ K
  BY <1>1 DEF TreeType, ChannelState, SameFrame
<1>2. \A c \in Channel : tree[c] # None => [tree[c] EXCEPT !.ops = @ \ K] # None
  BY <1>1, NoneAssumption
<1> QED
  BY <1>1, <1>2 DEF DeOpAll, TreeType

\* The whole of a logout, of any set of users, seen from the tree.
LEMMA LoggedOutIs ==
    ASSUME TypeOK, Lineage, TreeWellFormed, NEW K
    PROVE  /\ GoodTree(LoggedOut(K))
           /\ \A c \in Channel :
                LoggedOut(K)[c] # None <=> c \in Channels \ Cleaned(K, None)
           /\ \A c \in Channels \ Cleaned(K, None) :
                /\ LoggedOut(K)[c].users = chan[c].users \ K
                /\ LoggedOut(K)[c].ops = chan[c].ops \ K
<1> DEFINE t == Without(K, Cleaned(K, None))
<1>1. t \in TreeType
  BY WithoutIs
<1>2. \A c \in Channel : LoggedOut(K)[c] # None <=> c \in Channels \ Cleaned(K, None)
  BY <1>1, WithoutIs, DeOpAllIs DEF LoggedOut
<1>3. ASSUME NEW c \in Channels \ Cleaned(K, None)
      PROVE  /\ SameFrame(LoggedOut(K)[c], chan[c])
             /\ LoggedOut(K)[c].users = chan[c].users \ K
             /\ LoggedOut(K)[c].ops = chan[c].ops \ K
  <2>1. c \in Channel /\ t[c] # None
    BY <1>3, WithoutIs, ChannelsHaveStates
  <2>2. /\ SameFrame(t[c], chan[c])
        /\ t[c].users = chan[c].users \ K
        /\ t[c].ops = chan[c].ops
    BY <1>3, WithoutIs
  <2>3. /\ SameFrame(LoggedOut(K)[c], t[c])
        /\ LoggedOut(K)[c].users = t[c].users
        /\ LoggedOut(K)[c].ops = t[c].ops \ K
    BY <1>1, <2>1, DeOpAllIs DEF LoggedOut
  <2> QED
    BY <2>2, <2>3 DEF SameFrame
<1>4. LoggedOut(K) \in TreeType
  BY <1>1, DeOpAllIs DEF LoggedOut
<1>5. GoodTree(LoggedOut(K))
  BY <1>2, <1>3, <1>4, GoodTreeIsInvariant, CleanedClosed, PruneIsGood
<1> QED
  BY <1>2, <1>3, <1>5

\* Leaving and removing a closed set of channels below the root leaves a good tree.
LEMMA WithoutIsGood ==
    ASSUME TypeOK, Lineage, TreeWellFormed, NEW K, NEW Gone,
           Root \notin Gone, Closed(Gone)
    PROVE  GoodTree(Without(K, Gone))
<1> DEFINE t == Without(K, Gone)
<1>1. /\ t \in TreeType
      /\ \A c \in Channel : t[c] # None <=> c \in Channels \ Gone
      /\ \A c \in Channels \ Gone : SameFrame(t[c], chan[c])
  BY WithoutIs
<1>2. GoodTree(chan)
  BY GoodTreeIsInvariant
<1> HIDE DEF t
<1>3. GoodTree(t)
  BY <1>1, <1>2, PruneIsGood
<1> QED
  BY <1>3 DEF t

-----------------------------------------------------------------------------
(* Membership, of a tree and the users' channels. *)

Agrees(t, where) ==
    /\ where \in [User -> Channel \cup {None}]
    /\ \A u \in User : where[u] # None =>
          t[where[u]] # None /\ u \in t[where[u]].users
    /\ \A c \in Channel : t[c] # None => \A u \in t[c].users : where[u] = c

\* Agrees of the server's tree and users is MembershipAgrees.
LEMMA AgreesIsInvariant ==
    TypeOK => (Agrees(chan, chanOf) <=> MembershipAgrees)
BY DEF TypeOK, Agrees, MembershipAgrees, Channels

\* Users leave, and channels with no other users go.
LEMMA LeavingAgrees ==
    ASSUME TypeOK, MembershipAgrees, NEW K, NEW Gone, NEW t \in TreeType,
           \A c \in Gone : c \in Channels => chan[c].users \subseteq K,
           \A c \in Channel : t[c] # None <=> c \in Channels \ Gone,
           \A c \in Channels \ Gone : t[c].users = chan[c].users \ K
    PROVE  Agrees(t, Forget(chanOf, K, None))
<1> DEFINE w == Forget(chanOf, K, None)
<1>1. w \in [User -> Channel \cup {None}]
  BY DEF Forget, TypeOK
<1>2. ASSUME NEW u \in User, w[u] # None
      PROVE  t[w[u]] # None /\ u \in t[w[u]].users
  <2>1. u \notin K /\ w[u] = chanOf[u]
    BY <1>2 DEF Forget
  <2>2. w[u] \in Channels /\ u \in chan[w[u]].users
    BY <1>2, <2>1 DEF MembershipAgrees
  <2>3. w[u] \in Channels \ Gone
    BY <2>1, <2>2
  <2> QED
    BY <2>1, <2>2, <2>3, ChannelsHaveStates
<1>3. ASSUME NEW c \in Channel, t[c] # None, NEW u \in t[c].users
      PROVE  w[u] = c
  <2>1. c \in Channels \ Gone /\ u \in chan[c].users \ K
    BY <1>3
  <2>2. u \in User /\ chanOf[u] = c
    BY <2>1, ChannelsHaveStates DEF MembershipAgrees
  <2> QED
    BY <2>1, <2>2 DEF Forget
<1> QED
  BY <1>1, <1>2, <1>3 DEF Agrees

\* A user who is in no channel enters one.
LEMMA EnteringAgrees ==
    ASSUME NEW t \in TreeType, NEW where, Agrees(t, where), NEW u \in User,
           where[u] = None, NEW c \in Channel, NEW s \in TreeType,
           \A d \in Channel \ {c} : s[d] = t[d],
           s[c] # None,
           s[c].users = (IF t[c] # None THEN t[c].users ELSE {}) \cup {u}
    PROVE  Agrees(s, [where EXCEPT ![u] = c])
<1> DEFINE w == [where EXCEPT ![u] = c]
<1>1. w \in [User -> Channel \cup {None}] /\ w[u] = c
      /\ \A v \in User \ {u} : w[v] = where[v]
  BY DEF Agrees
<1>2. ASSUME NEW v \in User, w[v] # None
      PROVE  s[w[v]] # None /\ v \in s[w[v]].users
  <2>1. CASE v = u
    BY <1>1, <2>1
  <2>2. CASE v # u
    <3>1. /\ w[v] = where[v] /\ where[v] \in Channel
          /\ t[where[v]] # None /\ v \in t[where[v]].users
      BY <1>1, <1>2, <2>2 DEF Agrees
    <3> QED
      BY <3>1
  <2> QED
    BY <2>1, <2>2
<1>3. ASSUME NEW d \in Channel, s[d] # None, NEW v \in s[d].users
      PROVE  w[v] = d
  <2>1. v \in User
    BY <1>3 DEF TreeType, ChannelState
  <2>2. CASE v = u
    <3>1. \A e \in Channel : t[e] # None => u \notin t[e].users
      BY NoneAssumption DEF Agrees
    <3> QED
      BY <1>1, <1>3, <2>2, <3>1
  <2>3. CASE v # u
    <3>1. t[d] # None /\ v \in t[d].users
      BY <1>3, <2>3
    <3> QED
      BY <1>1, <2>1, <2>3, <3>1 DEF Agrees
  <2> QED
    BY <2>2, <2>3
<1> QED
  BY <1>1, <1>2, <1>3 DEF Agrees

\* Changing channels in ways that clients are told of later, name, users, operators
\* and so on, leaves a good tree.
LEMMA RepaintIsGood ==
    ASSUME NEW t, GoodTree(t), NEW s \in TreeType,
           \A c \in Channel : s[c] # None <=> t[c] # None,
           \A c \in Channel : t[c] # None => SameFrame(s[c], t[c])
    PROVE  GoodTree(s)
<1>1. \A c \in Channel : t[c] # None => t[c].above \subseteq Channel
  BY DEF GoodTree, TreeType, ChannelState
<1>2. s[Root] # None /\ s[Root].above = {}
  BY RootAssumption DEF GoodTree, SameFrame
<1>3. ASSUME NEW c \in Channel, s[c] # None
      PROVE  /\ c \notin s[c].above
             /\ \A d \in s[c].above : s[d] # None /\ s[d].above \subseteq s[c].above
             /\ \A d \in s[c].above : Leads(s, c, d)
  BY <1>1, <1>3 DEF GoodTree, SameFrame, Leads
<1>4. ASSUME NEW c \in Channel \ {Root}, s[c] # None
      PROVE  /\ s[c].parent \in Channel
             /\ s[s[c].parent] # None
             /\ s[c].above = s[s[c].parent].above \cup {s[c].parent}
             /\ ~s[s[c].parent].hidden
  BY <1>4 DEF GoodTree, SameFrame
<1> QED
  BY <1>2, <1>3, <1>4 DEF GoodTree

-----------------------------------------------------------------------------
(* The inductive invariant. *)

Inv ==
    /\ TypeOK
    /\ Lineage
    /\ TreeWellFormed
    /\ MembershipAgrees
    /\ MembersHaveSessions
    /\ AdminCacheExact
    /\ OperatorsHaveSessions
    /\ SingleSession

\* The part of it that speaks of the tree, of a tree, the users' channels and the
\* authorized users.
Orderly(t, where, sessions) ==
    /\ GoodTree(t)
    /\ Agrees(t, where)
    /\ \A u \in User : where[u] # None => u \in sessions
    /\ \A c \in Channel : t[c] # None => t[c].ops \subseteq sessions

\* Orderly of the server's state is what the invariants say of it.
LEMMA OrderlyIsInvariant ==
    TypeOK => (Orderly(chan, chanOf, Authorized) <=>
                  /\ Lineage /\ TreeWellFormed /\ MembershipAgrees
                  /\ \A u \in User : chanOf[u] # None => u \in Authorized
                  /\ OperatorsHaveSessions)
BY GoodTreeIsInvariant, AgreesIsInvariant
   DEF Orderly, OperatorsHaveSessions, Channels

\* Forgetting one user is an assignment to it.
LEMMA ForgetOne ==
    ASSUME NEW S, NEW f \in [User -> S], NEW u \in User
    PROVE  Forget(f, {u}, None) = [f EXCEPT ![u] = None]
BY DEF Forget

\* UserLogout leaves tree, users and sessions orderly.
LEMMA LogoutIsOrderly ==
    ASSUME Inv, NEW K \in SUBSET User
    PROVE  Orderly(LoggedOut(K), Forget(chanOf, K, None), Authorized \ K)
<1> USE DEF Inv
<1>1. GoodTree(LoggedOut(K))
  BY LoggedOutIs
<1>2. LoggedOut(K) \in TreeType
  BY <1>1 DEF GoodTree
<1>3. Agrees(LoggedOut(K), Forget(chanOf, K, None))
  BY <1>2, LoggedOutIs, CleanedClosed, LeavingAgrees
<1>4. \A u \in User : Forget(chanOf, K, None)[u] # None => u \in Authorized \ K
  BY DEF Forget, MembersHaveSessions
<1>5. ASSUME NEW c \in Channel, LoggedOut(K)[c] # None
      PROVE  LoggedOut(K)[c].ops \subseteq Authorized \ K
  <2>1. c \in Channels \ Cleaned(K, None) /\ LoggedOut(K)[c].ops = chan[c].ops \ K
    BY <1>5, LoggedOutIs
  <2> QED
    BY <2>1 DEF OperatorsHaveSessions
<1> QED
  BY <1>1, <1>3, <1>4, <1>5 DEF Orderly

\* Users leave channels without logging out.
LEMMA LeavingIsOrderly ==
    ASSUME Inv, NEW K \in SUBSET User, NEW Gone \in SUBSET Channels,
           Root \notin Gone, Closed(Gone),
           \A c \in Gone : chan[c].users \subseteq K
    PROVE  Orderly(Without(K, Gone), Forget(chanOf, K, None), Authorized)
<1> USE DEF Inv
<1> DEFINE t == Without(K, Gone)
<1>1. /\ t \in TreeType
      /\ \A c \in Channel : t[c] # None <=> c \in Channels \ Gone
      /\ \A c \in Channels \ Gone : /\ t[c].users = chan[c].users \ K
                                    /\ t[c].ops = chan[c].ops
  BY WithoutIs
<1>2. GoodTree(t)
  BY WithoutIsGood
<1> HIDE DEF t
<1>3. Agrees(t, Forget(chanOf, K, None))
  BY <1>1, LeavingAgrees
<1>4. \A u \in User : Forget(chanOf, K, None)[u] # None => u \in Authorized
  BY DEF Forget, MembersHaveSessions
<1>5. \A c \in Channel : t[c] # None => t[c].ops \subseteq Authorized
  BY <1>1 DEF OperatorsHaveSessions
<1>6. Orderly(t, Forget(chanOf, K, None), Authorized)
  BY <1>2, <1>3, <1>4, <1>5 DEF Orderly
<1> QED
  BY <1>6 DEF t

\* The tree in which a user who joins has left its old channel, if any.
LEMMA LeftForJoinIsOrderly ==
    ASSUME Inv, NEW u \in User, NEW kept \in Channels,
           NEW tree,
           tree = IF chanOf[u] = None THEN chan ELSE Without({u}, Cleaned({u}, kept))
    PROVE  /\ Orderly(tree, [chanOf EXCEPT ![u] = None], Authorized)
           /\ tree[kept] # None
           /\ SameFrame(tree[kept], chan[kept])
           /\ \A c \in Channel : tree[c] # None => chan[c] # None
<1> USE DEF Inv
<1>1. CASE chanOf[u] = None
  <2>1. [chanOf EXCEPT ![u] = None] = chanOf
    BY <1>1 DEF TypeOK
  <2>2. Orderly(chan, chanOf, Authorized)
    BY OrderlyIsInvariant DEF MembersHaveSessions
  <2> QED
    BY <1>1, <2>1, <2>2 DEF SameFrame, Channels
<1>2. CASE chanOf[u] # None
  <2>1. /\ Cleaned({u}, kept) \subseteq Channels \ {Root}
        /\ Closed(Cleaned({u}, kept))
        /\ \A c \in Cleaned({u}, kept) : chan[c].users \subseteq {u} /\ c # kept
    BY CleanedClosed
  <2>2. Orderly(tree, Forget(chanOf, {u}, None), Authorized)
    BY <1>2, <2>1, LeavingIsOrderly
  <2>3. Forget(chanOf, {u}, None) = [chanOf EXCEPT ![u] = None]
    BY ForgetOne DEF TypeOK
  <2>4. kept \in Channels \ Cleaned({u}, kept) /\ kept \in Channel
    BY <2>1 DEF Channels
  <2>5. tree[kept] # None /\ SameFrame(tree[kept], chan[kept])
    BY <1>2, <2>4, WithoutIs
  <2>6. \A c \in Channel : tree[c] # None => chan[c] # None
    BY <1>2, WithoutIs DEF Channels
  <2> QED
    BY <2>2, <2>3, <2>5, <2>6
<1> QED
  BY <1>1, <1>2

\* A user who is in no channel enters one, perhaps as its operator.
LEMMA EnteringIsOrderly ==
    ASSUME NEW t, NEW where, NEW sessions, Orderly(t, where, sessions),
           NEW u \in User, u \in sessions, where[u] = None,
           NEW c \in Channel, NEW s, GoodTree(s),
           \A d \in Channel \ {c} : s[d] = t[d],
           s[c] # None,
           s[c].users = (IF t[c] # None THEN t[c].users ELSE {}) \cup {u},
           s[c].ops \subseteq (IF t[c] # None THEN t[c].ops ELSE {}) \cup {u}
    PROVE  Orderly(s, [where EXCEPT ![u] = c], sessions)
<1>1. t \in TreeType /\ s \in TreeType /\ Agrees(t, where)
  BY DEF Orderly, GoodTree
<1>2. Agrees(s, [where EXCEPT ![u] = c])
  BY <1>1, EnteringAgrees
<1>3. \A v \in User : [where EXCEPT ![u] = c][v] # None => v \in sessions
  BY <1>1 DEF Orderly, Agrees
<1>4. \A d \in Channel : s[d] # None => s[d].ops \subseteq sessions
  BY DEF Orderly
<1> QED
  BY <1>2, <1>3, <1>4 DEF Orderly

\* The invariant after a step, from its parts.
LEMMA InvFromParts ==
    /\ ip \in [User -> Ip \cup {None}]
    /\ acct \in [User -> Account \cup {None}]
    /\ admins \in [User -> Nat]
    /\ Orderly(chan, chanOf, Authorized)
    /\ Authorized \subseteq Connected
    /\ AdminCacheExact
    /\ SingleSession
    => Inv
<1> SUFFICES ASSUME ip \in [User -> Ip \cup {None}],
                    acct \in [User -> Account \cup {None}],
                    admins \in [User -> Nat],
                    Orderly(chan, chanOf, Authorized),
                    Authorized \subseteq Connected,
                    AdminCacheExact,
                    SingleSession
             PROVE  Inv
  OBVIOUS
<1>1. chan \in TreeType /\ chanOf \in [User -> Channel \cup {None}]
  BY DEF Orderly, GoodTree, Agrees
<1>2. TypeOK
  BY <1>1 DEF TypeOK, TreeType
<1> QED
  BY <1>2, OrderlyIsInvariant DEF Inv, MembersHaveSessions

\* A step that leaves the sessions alone keeps the invariant if it keeps the tree
\* orderly.
LEMMA TreeStepKeepsInv ==
    ASSUME Inv, UNCHANGED <<ip, acct, admins>>,
           Orderly(chan', chanOf', Authorized)
    PROVE  Inv'
<1>1. Authorized' = Authorized /\ Connected' = Connected
  BY DEF Authorized, Connected
<1>2. AdminCacheExact' /\ SingleSession'
  BY <1>1 DEF Inv, AdminCacheExact, SingleSession, IsAdmin, Has
<1>3. Orderly(chan', chanOf', Authorized')
  BY <1>1
<1>4. /\ (ip \in [User -> Ip \cup {None}])'
      /\ (acct \in [User -> Account \cup {None}])'
      /\ (admins \in [User -> Nat])'
      /\ Authorized' \subseteq Connected'
  BY <1>1 DEF Inv, TypeOK, MembersHaveSessions
<1>5. (/\ ip \in [User -> Ip \cup {None}]
       /\ acct \in [User -> Account \cup {None}]
       /\ admins \in [User -> Nat]
       /\ Orderly(chan, chanOf, Authorized)
       /\ Authorized \subseteq Connected
       /\ AdminCacheExact
       /\ SingleSession)' => Inv'
  BY InvFromParts, PTL
<1> QED
  BY <1>2, <1>3, <1>4, <1>5

-----------------------------------------------------------------------------
(* One lemma for each kind of step. *)

\* OnOpened keeps the invariant.
LEMMA ConnectKeepsInv ==
    ASSUME Inv, NEW u \in User, NEW i \in Ip, Connect(u, i)
    PROVE  Inv'
<1> USE DEF Inv
<1>1. UNCHANGED <<acct, chanOf, admins, chan>>
  BY DEF Connect
<1>2. ip' \in [User -> Ip \cup {None}] /\ Connected \subseteq Connected'
  BY NoneAssumption DEF Connect, TypeOK, Connected
<1> QED
  BY <1>1, <1>2
     DEF TypeOK, Lineage, TreeWellFormed, MembershipAgrees, MembersHaveSessions,
         AdminCacheExact, OperatorsHaveSessions, SingleSession, Channels, Authorized,
         IsAdmin, Has

\* The sessions of K end, and one may begin.
LEMMA SessionsStepKeepsInv ==
    ASSUME Inv, NEW K \in SUBSET User,
           chan' = LoggedOut(K),
           chanOf' = Forget(chanOf, K, None),
           ip' \in [User -> Ip \cup {None}],
           acct' \in [User -> Account \cup {None}],
           admins' \in [User -> Nat],
           Authorized \ K \subseteq Authorized',
           Authorized' \subseteq Connected',
           AdminCacheExact', SingleSession'
    PROVE  Inv'
<1>1. Orderly(chan', chanOf', Authorized \ K)
  BY LogoutIsOrderly
<1>2. Orderly(chan', chanOf', Authorized')
  BY <1>1 DEF Orderly
<1>3. (/\ ip \in [User -> Ip \cup {None}]
       /\ acct \in [User -> Account \cup {None}]
       /\ admins \in [User -> Nat]
       /\ Orderly(chan, chanOf, Authorized)
       /\ Authorized \subseteq Connected
       /\ AdminCacheExact
       /\ SingleSession)' => Inv'
  BY InvFromParts, PTL
<1> QED
  BY <1>2, <1>3

\* UserLogin, with the sessions it kicks, keeps the invariant.
LEMMA LoginKeepsInv ==
    ASSUME Inv, NEW u \in User, NEW a \in Account, Login(u, a)
    PROVE  Inv'
<1> USE DEF Inv
<1> DEFINE K == KickedByLogin(a)
<1>1. /\ u \in Connected /\ u \notin Authorized /\ acct[u] = None /\ admins[u] = 0
      /\ K \in SUBSET Authorized /\ u \notin K
      /\ a # None
  BY NoneAssumption
     DEF Login, KickedByLogin, SameUsername, Authorized, AdminCacheExact, IsAdmin
<1>2. /\ chan' = LoggedOut(K)
      /\ chanOf' = Forget(chanOf, K, None)
      /\ acct' = [Forget(acct, K, None) EXCEPT ![u] = a]
      /\ admins' = [v \in User |->
                       IF v \in K /\ admins[v] > 0 THEN admins[v] - 1
                       ELSE IF v = u /\ a.admin THEN admins[v] + 1
                       ELSE admins[v]]
      /\ ip' = ip
  BY DEF Login
<1>3. \A v \in User : acct'[v] = IF v = u THEN a ELSE IF v \in K THEN None ELSE acct[v]
  BY <1>2 DEF Forget, TypeOK
<1>4. acct' \in [User -> Account \cup {None}]
  BY <1>2 DEF Forget, TypeOK
<1>5. admins' \in [User -> Nat]
  BY <1>2 DEF TypeOK
<1>6. Authorized' = (Authorized \ K) \cup {u}
  BY <1>1, <1>3 DEF Authorized
<1>7. Authorized' \subseteq Connected'
  BY <1>1, <1>2, <1>6 DEF MembersHaveSessions, Connected
<1>8. AdminCacheExact'
  <2> SUFFICES ASSUME NEW v \in User
               PROVE  admins'[v] = IF IsAdmin(v)' THEN 1 ELSE 0
    BY DEF AdminCacheExact
  <2>1. admins[v] = IF IsAdmin(v) THEN 1 ELSE 0
    BY DEF AdminCacheExact
  <2>2. CASE v = u
    BY <1>1, <1>2, <1>3, <2>2 DEF IsAdmin
  <2>3. CASE v # u /\ v \in K
    BY <1>2, <1>3, <2>1, <2>3 DEF IsAdmin
  <2>4. CASE v # u /\ v \notin K
    BY <1>2, <1>3, <2>1, <2>4 DEF IsAdmin
  <2> QED
    BY <2>2, <2>3, <2>4
<1>9. SingleSession'
  <2> SUFFICES ASSUME NEW v \in Authorized', NEW w \in Authorized', v # w,
                      acct'[v].username = acct'[w].username
               PROVE  "MULTI_LOGIN" \in acct'[v].rights \/ "MULTI_LOGIN" \in acct'[w].rights
    BY DEF SingleSession, Has
  <2>1. \A x \in Authorized \ K :
            acct[x].username = a.username => "MULTI_LOGIN" \in a.rights
    BY DEF KickedByLogin, SameUsername
  <2>2. v \in User /\ w \in User
    BY DEF Authorized
  <2>3. CASE v = u
    BY <1>1, <1>3, <1>6, <2>1, <2>2, <2>3
  <2>4. CASE w = u
    BY <1>1, <1>3, <1>6, <2>1, <2>2, <2>4
  <2>5. CASE v # u /\ w # u
    BY <1>3, <1>6, <2>2, <2>5 DEF SingleSession, Has
  <2> QED
    BY <2>3, <2>4, <2>5
<1> QED
  BY <1>1, <1>2, <1>4, <1>5, <1>6, <1>7, <1>8, <1>9, SessionsStepKeepsInv
     DEF TypeOK, Authorized

\* Sessions end and none begins.
LEMMA SessionsEndKeepsInv ==
    ASSUME Inv, NEW K \in SUBSET Authorized,
           chan' = LoggedOut(K),
           chanOf' = Forget(chanOf, K, None),
           acct' = Forget(acct, K, None),
           admins' = [v \in User |-> IF v \in K /\ admins[v] > 0 THEN admins[v] - 1
                                     ELSE admins[v]],
           ip' \in [User -> Ip \cup {None}],
           \A v \in Authorized \ K : ip'[v] = ip[v]
    PROVE  Inv'
<1> USE DEF Inv
<1>1. \A v \in User : acct'[v] = IF v \in K THEN None ELSE acct[v]
  BY DEF Forget
<1>2. acct' \in [User -> Account \cup {None}] /\ admins' \in [User -> Nat]
  BY DEF Forget, TypeOK
<1>3. Authorized' = Authorized \ K
  BY <1>1 DEF Authorized
<1>4. Authorized' \subseteq Connected'
  BY <1>3 DEF MembersHaveSessions, Connected
<1>5. AdminCacheExact'
  BY <1>1 DEF AdminCacheExact, IsAdmin
<1>6. SingleSession'
  BY <1>1, <1>3 DEF SingleSession, Has, Authorized
<1> QED
  BY <1>2, <1>3, <1>4, <1>5, <1>6, SessionsStepKeepsInv DEF Authorized

\* A login refused after it has kicked sessions keeps the invariant.
LEMMA LoginRefusedKeepsInv ==
    ASSUME Inv, NEW u \in User, NEW a \in Account, LoginRefusedAfterKick(u, a)
    PROVE  Inv'
<1>1. KickedByLogin(a) \subseteq Authorized
  BY DEF KickedByLogin, SameUsername
<1> QED
  BY <1>1, SessionsEndKeepsInv DEF LoginRefusedAfterKick, Inv, TypeOK

\* UserLogout keeps the invariant, also when the connection goes with it.
LEMMA LogoutEffectKeepsInv ==
    ASSUME Inv, NEW u \in Authorized, LogoutEffect(u),
           ip' \in [User -> Ip \cup {None}],
           \A v \in User \ {u} : ip'[v] = ip[v]
    PROVE  Inv'
<1>1. u \in User /\ Authorized \subseteq User
  BY DEF Authorized
<1>2. /\ chanOf' = Forget(chanOf, {u}, None)
      /\ acct' = Forget(acct, {u}, None)
  BY <1>1, ForgetOne DEF LogoutEffect, Inv, TypeOK
<1>3. admins' = [v \in User |-> IF v \in {u} /\ admins[v] > 0 THEN admins[v] - 1
                                ELSE admins[v]]
  BY <1>1 DEF LogoutEffect, Inv, TypeOK
<1> QED
  BY <1>1, <1>2, <1>3, SessionsEndKeepsInv DEF LogoutEffect

\* UserDisconnected keeps the invariant.
LEMMA DisconnectKeepsInv ==
    ASSUME Inv, NEW u \in User, Disconnect(u)
    PROVE  Inv'
<1>1. /\ ip' \in [User -> Ip \cup {None}]
      /\ \A v \in User \ {u} : ip'[v] = ip[v]
  BY DEF Disconnect, Inv, TypeOK
<1>2. CASE u \in Authorized /\ LogoutEffect(u)
  BY <1>1, <1>2, LogoutEffectKeepsInv
<1>3. CASE u \notin Authorized /\ UNCHANGED <<acct, chanOf, admins, chan>>
  <2>1. Authorized' = Authorized /\ Channels' = Channels
    BY <1>3 DEF Authorized, Channels
  <2>2. Authorized' \subseteq Connected'
    BY <1>1, <1>3, <2>1 DEF Connected, Authorized, Inv, MembersHaveSessions
  <2> QED
    BY <1>1, <1>3, <2>1, <2>2
       DEF Inv, TypeOK, Lineage, TreeWellFormed, MembershipAgrees, MembersHaveSessions,
           AdminCacheExact, OperatorsHaveSessions, SingleSession, IsAdmin, Has
<1> QED
  BY <1>2, <1>3 DEF Disconnect

\* UserLeaveChannel keeps the invariant.
LEMMA LeaveKeepsInv ==
    ASSUME Inv, NEW u \in User, NEW c, UserLeaveChannel(u, c)
    PROVE  Inv'
<1>1. /\ Cleaned({u}, None) \subseteq Channels \ {Root}
      /\ Closed(Cleaned({u}, None))
      /\ \A d \in Cleaned({u}, None) : chan[d].users \subseteq {u}
  BY CleanedClosed DEF Inv
<1>2. Orderly(Without({u}, Cleaned({u}, None)), Forget(chanOf, {u}, None), Authorized)
  BY <1>1, LeavingIsOrderly
<1>3. Forget(chanOf, {u}, None) = [chanOf EXCEPT ![u] = None]
  BY ForgetOne DEF Inv, TypeOK
<1> QED
  BY <1>2, <1>3, TreeStepKeepsInv DEF UserLeaveChannel

\* UserJoinChannel into a channel that exists keeps the invariant.
LEMMA JoinKeepsInv ==
    ASSUME Inv, NEW u \in Authorized, NEW c, UserJoinChannel(u, c)
    PROVE  Inv'
<1> DEFINE tree == IF chanOf[u] = None THEN chan ELSE Without({u}, Cleaned({u}, c))
           makeop == IsOwner(u, c) \/ IsAutoOperator(u, c)
           users == tree[c].users \cup {u}
           ops == IF makeop THEN tree[c].ops \cup {u} ELSE tree[c].ops
           new == [tree[c] EXCEPT !.users = users, !.ops = ops]
           s == [tree EXCEPT ![c] = new]
           w == [chanOf EXCEPT ![u] = None]
<1>1. u \in User /\ c \in Channels /\ c \in Channel
  BY DEF Authorized, UserJoinChannel, Channels
<1>2. /\ Orderly(tree, w, Authorized)
      /\ tree[c] # None
  BY <1>1, LeftForJoinIsOrderly
<1>3. chan' = [tree EXCEPT ![c].users = @ \cup {u},
                           ![c].ops = IF makeop THEN @ \cup {u} ELSE @]
      /\ chanOf' = [chanOf EXCEPT ![u] = c]
  BY DEF UserJoinChannel
<1>4. w[u] = None /\ [w EXCEPT ![u] = c] = [chanOf EXCEPT ![u] = c]
  BY <1>1 DEF Inv, TypeOK
<1> HIDE DEF tree, makeop, w
<1>5. tree \in TreeType /\ GoodTree(tree)
  BY <1>2 DEF Orderly, GoodTree
<1>6. tree[c] \in ChannelState
  BY <1>1, <1>2, <1>5 DEF TreeType
<1>7. chan' = s
  BY <1>1, <1>3, <1>5, <1>6 DEF TreeType, ChannelState
<1>8. users \in SUBSET User /\ ops \in SUBSET User /\ ops \subseteq tree[c].ops \cup {u}
  BY <1>1, <1>6 DEF ChannelState
<1> HIDE DEF users, ops
<1>9. /\ new \in ChannelState
      /\ SameFrame(new, tree[c])
      /\ new.users = users
      /\ new.ops = ops
  BY <1>6, <1>8 DEF ChannelState, SameFrame
<1> HIDE DEF new
<1>10. /\ s[c] = new
       /\ new # None
       /\ \A d \in Channel \ {c} : s[d] = tree[d]
       /\ s \in TreeType
  BY <1>1, <1>5, <1>9, NoneAssumption DEF TreeType
<1> HIDE DEF s
<1>11. GoodTree(s)
  BY <1>2, <1>5, <1>9, <1>10, RepaintIsGood DEF SameFrame
<1>12. s[c].users = tree[c].users \cup {u} /\ s[c].ops \subseteq tree[c].ops \cup {u}
  BY <1>8, <1>9, <1>10 DEF users
<1>13. Orderly(s, [w EXCEPT ![u] = c], Authorized)
  BY <1>1, <1>2, <1>4, <1>10, <1>11, <1>12, EnteringIsOrderly
<1> QED
  BY <1>3, <1>4, <1>7, <1>13, TreeStepKeepsInv DEF UserJoinChannel

\* A new channel is a leaf below its parent.
LEMMA NewChannelIs ==
    ASSUME Inv, NEW u \in Authorized, NEW p \in Channels, NEW n \in ChannelName,
           NEW permanent \in BOOLEAN, NEW hidden \in BOOLEAN, NEW max \in Capacity,
           NEW users \in SUBSET User,
           NEW leaf, leaf = NewChannel(u, p, n, permanent, hidden, max, users)
    PROVE  /\ leaf \in ChannelState
           /\ leaf # None
           /\ leaf.parent = p
           /\ leaf.above = chan[p].above \cup {p}
           /\ leaf.users = users
           /\ leaf.ops = users
<1>1. acct[u] \in UserAccount
  BY AccountAssumption DEF Inv, TypeOK, Authorized
<1>2. p \in Channel /\ chan[p].above \subseteq Channel
  BY ChannelsHaveStates DEF Inv
<1>3. (IF acct[u].web THEN acct[u].username ELSE None) \in Username \cup {None}
  BY <1>1 DEF UserAccount
<1>4. leaf \in ChannelState
  BY <1>2, <1>3 DEF NewChannel, ChannelState
<1> QED
  BY <1>4, NoneAssumption DEF NewChannel

\* UserJoinChannel into a channel it makes keeps the invariant.
LEMMA JoinNewKeepsInv ==
    ASSUME Inv, NEW u \in User, NEW c \in Channel, NEW p \in Channel,
           NEW n \in ChannelName, NEW permanent \in BOOLEAN, NEW hidden \in BOOLEAN,
           JoinNewChannel(u, c, p, n, permanent, hidden)
    PROVE  Inv'
<1> DEFINE tree == IF chanOf[u] = None THEN chan ELSE Without({u}, Cleaned({u}, p))
           leaf == NewChannel(u, p, n, permanent, hidden, MaxUsers, {u})
           s == [tree EXCEPT ![c] = leaf]
           w == [chanOf EXCEPT ![u] = None]
<1>1. /\ u \in Authorized /\ p \in Channels
      /\ chan[c] = None /\ ~chan[p].hidden
  BY DEF JoinNewChannel, CanMakeChannel, Channels
<1>2. /\ leaf \in ChannelState
      /\ leaf # None
      /\ leaf.parent = p
      /\ leaf.above = chan[p].above \cup {p}
      /\ leaf.users = {u}
      /\ leaf.ops = {u}
  BY <1>1, NewChannelIs, LimitAssumption
<1>3. /\ Orderly(tree, w, Authorized)
      /\ tree[p] # None
      /\ SameFrame(tree[p], chan[p])
      /\ tree[c] = None
  BY <1>1, LeftForJoinIsOrderly
<1>4. GoodTree(tree) /\ tree \in TreeType
  BY <1>3 DEF Orderly, GoodTree
<1>5. w[u] = None /\ [w EXCEPT ![u] = c] = [chanOf EXCEPT ![u] = c]
  BY DEF Inv, TypeOK
<1>6. chan' = s /\ chanOf' = [chanOf EXCEPT ![u] = c]
  BY DEF JoinNewChannel
<1> HIDE DEF tree, leaf, w
<1>7. GoodTree(s)
  BY <1>1, <1>2, <1>3, <1>4, GrowthIsGood DEF SameFrame
<1>8. s[c] = leaf /\ \A d \in Channel \ {c} : s[d] = tree[d]
  BY <1>4 DEF TreeType
<1> HIDE DEF s
<1>9. Orderly(s, [w EXCEPT ![u] = c], Authorized)
  BY <1>1, <1>2, <1>3, <1>5, <1>7, <1>8, EnteringIsOrderly
<1> QED
  BY <1>5, <1>6, <1>9, TreeStepKeepsInv DEF JoinNewChannel

\* A new channel that nobody has entered.
LEMMA EmptyChannelKeepsInv ==
    ASSUME Inv, NEW u \in Authorized, NEW c \in Channel, NEW p \in Channel,
           NEW n \in ChannelName, NEW permanent \in BOOLEAN, NEW hidden \in BOOLEAN,
           NEW max \in Capacity, CanMakeChannel(c, p, n),
           chan' = [chan EXCEPT ![c] = NewChannel(u, p, n, permanent, hidden, max, {})],
           UNCHANGED <<ip, acct, admins, chanOf>>
    PROVE  Inv'
<1> DEFINE leaf == NewChannel(u, p, n, permanent, hidden, max, {})
<1>1. p \in Channels /\ chan[p] # None /\ chan[c] = None /\ ~chan[p].hidden
  BY DEF CanMakeChannel, Channels
<1>2. /\ leaf \in ChannelState
      /\ leaf # None
      /\ leaf.parent = p
      /\ leaf.above = chan[p].above \cup {p}
      /\ leaf.users = {}
      /\ leaf.ops = {}
  BY <1>1, NewChannelIs
<1>3. Orderly(chan, chanOf, Authorized)
  BY OrderlyIsInvariant DEF Inv, MembersHaveSessions
<1>4. GoodTree(chan) /\ chan \in TreeType
  BY <1>3 DEF Orderly, GoodTree
<1> DEFINE t == [chan EXCEPT ![c] = leaf]
<1>5. chan' = t
  OBVIOUS
<1> HIDE DEF leaf
<1>6. GoodTree(t)
  BY <1>1, <1>2, <1>4, GrowthIsGood
<1>7. t[c] = leaf /\ \A d \in Channel \ {c} : t[d] = chan[d]
  BY <1>4 DEF TreeType
<1> HIDE DEF t
<1>8. Agrees(t, chanOf)
  BY <1>1, <1>2, <1>3, <1>7 DEF Orderly, Agrees
<1>9. Orderly(t, chanOf, Authorized)
  BY <1>2, <1>3, <1>6, <1>7, <1>8 DEF Orderly
<1> QED
  BY <1>5, <1>9, TreeStepKeepsInv

\* A channel's properties or operators change.
LEMMA RepaintKeepsInv ==
    ASSUME Inv, NEW c \in Channels, NEW new \in ChannelState,
           SameFrame(new, chan[c]), new.users = chan[c].users,
           new.ops \subseteq chan[c].ops \cup Authorized,
           chan' = [chan EXCEPT ![c] = new],
           UNCHANGED <<ip, acct, admins, chanOf>>
    PROVE  Inv'
<1>1. Orderly(chan, chanOf, Authorized)
  BY OrderlyIsInvariant DEF Inv, MembersHaveSessions
<1>2. GoodTree(chan) /\ chan \in TreeType /\ c \in Channel /\ chan[c] # None
  BY <1>1 DEF Orderly, GoodTree, Channels
<1> DEFINE t == [chan EXCEPT ![c] = new]
<1>3. /\ t \in TreeType
      /\ t[c] = new /\ new # None
      /\ \A d \in Channel \ {c} : t[d] = chan[d]
  BY <1>2, NoneAssumption DEF TreeType
<1>4. chan' = t
  OBVIOUS
<1> HIDE DEF t
<1>5. GoodTree(t)
  BY <1>2, <1>3, RepaintIsGood DEF SameFrame
<1>6. Agrees(t, chanOf)
  BY <1>1, <1>2, <1>3 DEF Orderly, Agrees
<1>7. Orderly(t, chanOf, Authorized)
  BY <1>1, <1>2, <1>3, <1>5, <1>6 DEF Orderly
<1> QED
  BY <1>4, <1>7, TreeStepKeepsInv

\* UserUpdateChannel keeps the invariant.
LEMMA UpdateKeepsInv ==
    ASSUME Inv, NEW u \in User, NEW c \in Channel, NEW n \in ChannelName \cup {None},
           NEW permanent \in BOOLEAN, NEW max \in Capacity,
           UpdateChannel(u, c, n, permanent, max)
    PROVE  Inv'
<1> DEFINE new == [chan[c] EXCEPT !.name = n, !.permanent = permanent,
                                  !.maxusers = max]
<1>1. c \in Channels /\ chan[c] \in ChannelState
  BY ChannelsHaveStates DEF UpdateChannel, Inv
<1>2. /\ new \in ChannelState
      /\ SameFrame(new, chan[c])
      /\ new.users = chan[c].users
      /\ new.ops = chan[c].ops
  BY <1>1 DEF ChannelState, SameFrame
<1>3. chan' = [chan EXCEPT ![c] = new]
  BY <1>1 DEF UpdateChannel, Inv, TypeOK, ChannelState
<1> HIDE DEF new
<1> QED
  BY <1>1, <1>2, <1>3, RepaintKeepsInv DEF UpdateChannel

\* UserOpDeOp keeps the invariant.
LEMMA ChannelOpKeepsInv ==
    ASSUME Inv, NEW u \in User, NEW v \in User, NEW c \in Channel, NEW op \in BOOLEAN,
           ChannelOp(u, v, c, op)
    PROVE  Inv'
<1> DEFINE ops == IF op THEN chan[c].ops \cup {v} ELSE chan[c].ops \ {v}
           new == [chan[c] EXCEPT !.ops = ops]
<1>1. c \in Channels /\ chan[c] \in ChannelState /\ v \in Authorized
  BY ChannelsHaveStates DEF ChannelOp, Finds, Inv
<1>2. ops \in SUBSET User /\ ops \subseteq chan[c].ops \cup Authorized
  BY <1>1 DEF ChannelState
<1>3. chan' = [chan EXCEPT ![c] = new]
  BY <1>1 DEF ChannelOp
<1> HIDE DEF ops
<1>4. /\ new \in ChannelState
      /\ SameFrame(new, chan[c])
      /\ new.users = chan[c].users
      /\ new.ops = ops
  BY <1>1, <1>2 DEF ChannelState, SameFrame
<1> HIDE DEF new
<1> QED
  BY <1>1, <1>2, <1>3, <1>4, RepaintKeepsInv DEF ChannelOp

\* The channels of Gone and all below them go, and the root's users if it is in Gone.
LEMMA RemoveSubtreesKeepsInv ==
    ASSUME Inv, NEW Gone \in SUBSET Channels, Closed(Gone), RemoveSubtrees(Gone)
    PROVE  Inv'
<1> DEFINE K == UsersIn(Gone)
           Below == Gone \ {Root}
<1>1. K \in SUBSET User /\ \A c \in Gone : chan[c].users \subseteq K
  BY ChannelsHaveStates DEF UsersIn, Inv
<1>2. Closed(Below)
  BY DEF Closed, Inv, TreeWellFormed
<1>3. Orderly(Without(K, Below), Forget(chanOf, K, None), Authorized)
  BY <1>1, <1>2, LeavingIsOrderly
<1> QED
  BY <1>3, TreeStepKeepsInv DEF RemoveSubtrees

\* A removal that is carried through, with the climb it may end in.
LEMMA RemoveChannelKeepsInv ==
    ASSUME Inv, NEW u \in User, NEW c \in Channel, RemoveChannel(u, c)
    PROVE  Inv'
<1>1. c \in Channels /\ Lineage
  BY DEF RemoveChannel, Inv
<1>2. Subtree(c) \subseteq Channels /\ Closed(Subtree(c))
  BY <1>1, SubtreeClosed
<1>3. /\ Subtree(c) \cup CleanedAbove(c) \subseteq Channels
      /\ Closed(Subtree(c) \cup CleanedAbove(c))
  BY <1>1, <1>2, CleanedAboveClosed
<1>4. \/ RemoveSubtrees(Subtree(c) \cup CleanedAbove(c))
      \/ RemoveSubtrees(Subtree(c) \cup {})
  BY DEF RemoveChannel
<1>5. Subtree(c) \cup {} = Subtree(c)
  OBVIOUS
<1>6. CASE RemoveSubtrees(Subtree(c) \cup CleanedAbove(c))
  BY <1>3, <1>6, RemoveSubtreesKeepsInv
<1>7. CASE RemoveSubtrees(Subtree(c) \cup {})
  BY <1>2, <1>5, <1>7, RemoveSubtreesKeepsInv
<1> QED
  BY <1>4, <1>6, <1>7

\* A removal that stops after some subtrees are gone.
LEMMA RemoveChannelFailsKeepsInv ==
    ASSUME Inv, NEW u \in User, NEW c \in Channel, RemoveChannelFails(u, c)
    PROVE  Inv'
<1>1. Lineage
  BY DEF Inv
<1>2. PICK Tops : /\ Tops \subseteq Channels
                  /\ RemoveSubtrees(UNION {Subtree(e) : e \in Tops})
  BY DEF RemoveChannelFails, Subtree
<1> DEFINE Gone == UNION {Subtree(e) : e \in Tops}
<1>3. Gone \in SUBSET Channels
  BY <1>1, <1>2, SubtreeClosed
<1>4. Closed(Gone)
  <2> SUFFICES ASSUME NEW x \in Gone, NEW d \in Channels, x \in chan[d].above
               PROVE  d \in Gone
    BY DEF Closed
  <2>1. PICK e \in Tops : x \in Subtree(e)
    OBVIOUS
  <2>2. d \in Subtree(e)
    BY <1>1, <1>2, <2>1, SubtreeClosed DEF Closed
  <2> QED
    BY <2>2
<1> HIDE DEF Gone
<1>5. RemoveSubtrees(Gone)
  BY <1>2 DEF Gone
<1> QED
  BY <1>3, <1>4, <1>5, RemoveSubtreesKeepsInv

-----------------------------------------------------------------------------
(* The theorems. *)

\* The server starts in a state that satisfies the invariant.
LEMMA InitHasInv == Init => Inv
<1> SUFFICES ASSUME Init PROVE Inv
  OBVIOUS
<1> DEFINE root(max) ==
             [parent |-> None, above |-> {}, name |-> None,
              permanent |-> TRUE, hidden |-> FALSE, maxusers |-> max,
              owner |-> None, users |-> {}, ops |-> {}]
<1>1. PICK max \in Capacity :
         chan = [c \in Channel |-> IF c = Root THEN root(max) ELSE None]
  BY DEF Init
<1>2. root(max) \in ChannelState
  BY DEF ChannelState
<1>3. /\ root(max).above = {} /\ root(max).users = {} /\ root(max).ops = {}
  OBVIOUS
<1> HIDE DEF root
<1>4. /\ \A c \in Channel : chan[c] = IF c = Root THEN root(max) ELSE None
      /\ chan \in [Channel -> ChannelState \cup {None}]
      /\ root(max) # None
  BY <1>1, <1>2, NoneAssumption
<1>5. Channels = {Root}
  BY <1>4, RootAssumption DEF Channels
<1>6. TypeOK
  BY <1>4 DEF Init, TypeOK
<1>7. Lineage /\ TreeWellFormed
  BY <1>3, <1>4, <1>5, RootAssumption DEF Lineage, TreeWellFormed
<1>8. MembershipAgrees /\ OperatorsHaveSessions
  BY <1>3, <1>4, <1>5, RootAssumption
     DEF Init, MembershipAgrees, OperatorsHaveSessions
<1>9. Authorized = {}
  BY DEF Init, Authorized
<1>10. MembersHaveSessions /\ AdminCacheExact /\ SingleSession
  BY <1>9 DEF Init, MembersHaveSessions, AdminCacheExact, IsAdmin, SingleSession
<1> QED
  BY <1>6, <1>7, <1>8, <1>10 DEF Inv

\* Every step keeps it.
LEMMA NextKeepsInv == Inv /\ [Next]_vars => Inv'
<1> SUFFICES ASSUME Inv, [Next]_vars PROVE Inv'
  OBVIOUS
<1>1. ASSUME NEW u \in User, NEW i \in Ip, Connect(u, i) PROVE Inv'
  BY <1>1, ConnectKeepsInv
<1>2. ASSUME NEW u \in User, NEW a \in Account, Login(u, a) PROVE Inv'
  BY <1>2, LoginKeepsInv
<1>3. ASSUME NEW u \in User, NEW a \in Account, LoginRefusedAfterKick(u, a) PROVE Inv'
  BY <1>3, LoginRefusedKeepsInv
<1>4. ASSUME NEW u \in User, Logout(u) PROVE Inv'
  BY <1>4, LogoutEffectKeepsInv DEF Logout, Inv, TypeOK
<1>5. ASSUME NEW u \in User, Disconnect(u) PROVE Inv'
  BY <1>5, DisconnectKeepsInv
<1>6. ASSUME NEW u \in User, NEW v \in User, KickFromServer(u, v) PROVE Inv'
  BY <1>6, LogoutEffectKeepsInv DEF KickFromServer, Finds, Inv, TypeOK
<1>7. ASSUME NEW u \in User, LeaveChannel(u) PROVE Inv'
  BY <1>7, LeaveKeepsInv DEF LeaveChannel
<1>8. ASSUME NEW u \in User, NEW c \in Channel, JoinChannel(u, c) PROVE Inv'
  BY <1>8, JoinKeepsInv DEF JoinChannel
<1>9. ASSUME NEW u \in User, NEW v \in User, NEW c \in Channel, MoveUser(u, v, c)
      PROVE  Inv'
  BY <1>9, JoinKeepsInv DEF MoveUser, Finds
<1>10. ASSUME NEW u \in User, NEW v \in User, NEW c \in Channel,
              KickFromChannel(u, v, c)
       PROVE  Inv'
  BY <1>10, LeaveKeepsInv DEF KickFromChannel
<1>11. ASSUME NEW u \in User, NEW c \in Channel, NEW p \in Channel,
              NEW n \in ChannelName, NEW permanent \in BOOLEAN, NEW hidden \in BOOLEAN,
              \/ JoinNewChannel(u, c, p, n, permanent, hidden)
              \/ JoinNewChannelFails(u, c, p, n, permanent, hidden)
              \/ \E max \in Capacity : MakeChannel(u, c, p, n, permanent, hidden, max)
       PROVE  Inv'
  <2>1. CASE JoinNewChannel(u, c, p, n, permanent, hidden)
    BY <2>1, JoinNewKeepsInv
  <2>2. CASE JoinNewChannelFails(u, c, p, n, permanent, hidden)
    BY <2>2, EmptyChannelKeepsInv, LimitAssumption DEF JoinNewChannelFails
  <2>3. ASSUME NEW max \in Capacity, MakeChannel(u, c, p, n, permanent, hidden, max)
        PROVE  Inv'
    BY <2>3, EmptyChannelKeepsInv DEF MakeChannel
  <2> QED
    BY <1>11, <2>1, <2>2, <2>3
<1>12. ASSUME NEW u \in User, NEW c \in Channel, NEW n \in ChannelName \cup {None},
              NEW permanent \in BOOLEAN, NEW max \in Capacity,
              UpdateChannel(u, c, n, permanent, max)
       PROVE  Inv'
  BY <1>12, UpdateKeepsInv
<1>13. ASSUME NEW u \in User, NEW c \in Channel, NEW v \in User, NEW op \in BOOLEAN,
              ChannelOp(u, v, c, op)
       PROVE  Inv'
  BY <1>13, ChannelOpKeepsInv DEF ChannelOp
<1>14. ASSUME NEW u \in User, NEW c \in Channel,
              RemoveChannel(u, c) \/ RemoveChannelFails(u, c)
       PROVE  Inv'
  BY <1>14, RemoveChannelKeepsInv, RemoveChannelFailsKeepsInv
<1>15. CASE UNCHANGED vars
  BY <1>15
     DEF vars, Inv, TypeOK, Lineage, TreeWellFormed, MembershipAgrees,
         MembersHaveSessions, AdminCacheExact, OperatorsHaveSessions, SingleSession,
         Channels, Authorized, Connected, IsAdmin, Has
<1>16. CASE SessionNext
  BY <1>1, <1>2, <1>3, <1>4, <1>5, <1>6, <1>16 DEF SessionNext
<1>17. CASE MemberNext
  BY <1>7, <1>8, <1>9, <1>10, <1>17 DEF MemberNext
<1>18. CASE TreeNext
  BY <1>11, <1>12, <1>13, <1>14, <1>18 DEF TreeNext
<1> QED
  BY <1>15, <1>16, <1>17, <1>18 DEF Next

\* The bookkeeping of sessions, membership and the tree is always consistent.
THEOREM Consistent == Spec => []Inv
<1>1. Init => Inv
  BY InitHasInv
<1>2. Inv /\ [Next]_vars => Inv'
  BY NextKeepsInv
<1> QED
  BY <1>1, <1>2, PTL DEF Spec

\* Every variable keeps holding values of its kind.
THEOREM TypeCorrect == Spec => []TypeOK
<1>1. Inv => TypeOK
  BY DEF Inv
<1> QED
  BY <1>1, Consistent, PTL

\* The channel a user believes to be in and the user lists of the channels always
\* agree, only logged in users are in channels, and only the connected are logged
\* in, however a session ends.
THEOREM MembershipIsConsistent == Spec => []MembershipConsistent
<1>1. Inv => MembershipConsistent
  BY DEF Inv, MembershipConsistent
<1> QED
  BY <1>1, Consistent, PTL

\* The channels always form a tree below the root.
THEOREM TreeStaysWellFormed == Spec => []TreeWellFormed
<1>1. Inv => TreeWellFormed
  BY DEF Inv
<1> QED
  BY <1>1, Consistent, PTL

\* The admin cache holds each administrator once and nobody else.
THEOREM AdminCacheStaysExact == Spec => []AdminCacheExact
<1>1. Inv => AdminCacheExact
  BY DEF Inv
<1> QED
  BY <1>1, Consistent, PTL

\* No user id is operator of a channel without being logged in.
THEOREM OperatorsStayLoggedIn == Spec => []OperatorsHaveSessions
<1>1. Inv => OperatorsHaveSessions
  BY DEF Inv
<1> QED
  BY <1>1, Consistent, PTL

\* Two sessions with one user name are never both without MULTI_LOGIN.
THEOREM DoubleLoginsEnd == Spec => []SingleSession
<1>1. Inv => SingleSession
  BY DEF Inv
<1> QED
  BY <1>1, Consistent, PTL

-----------------------------------------------------------------------------
(* Names of siblings. *)

\* SiblingNamesDiffer, of a tree.
Distinct(t) ==
    \A c, d \in Channel \ {Root} :
        t[c] # None /\ t[d] # None /\ c # d /\ t[c].parent = t[d].parent
            => t[c].name # t[d].name

\* A tree with some of the server's channels, each in its place.
PartOfTree(t) ==
    \A c \in Channel : t[c] # None =>
        chan[c] # None /\ t[c].parent = chan[c].parent /\ t[c].name = chan[c].name

\* Leaving, removing and logging out neither move nor rename channels.
LEMMA PruningKeepsNames ==
    ASSUME TypeOK, Distinct(chan), NEW K, NEW Gone
    PROVE  /\ Without(K, Gone) \in TreeType
           /\ PartOfTree(Without(K, Gone))
           /\ Distinct(Without(K, Gone))
           /\ Distinct(DeOpAll(K, Without(K, Gone)))
<1> DEFINE t == Without(K, Gone)
<1>1. t \in TreeType
  BY WithoutIs
<1>2. ASSUME NEW c \in Channels
      PROVE  /\ [chan[c] EXCEPT !.users = @ \ K].parent = chan[c].parent
             /\ [chan[c] EXCEPT !.users = @ \ K].name = chan[c].name
  BY ChannelsHaveStates DEF ChannelState
<1>3. PartOfTree(t)
  BY <1>2 DEF Without, PartOfTree, Channels
<1>4. ASSUME NEW c \in Channel, t[c] # None
      PROVE  /\ [t[c] EXCEPT !.ops = @ \ K].parent = t[c].parent
             /\ [t[c] EXCEPT !.ops = @ \ K].name = t[c].name
  BY <1>1, <1>4 DEF TreeType, ChannelState
<1> HIDE DEF t
<1>5. PartOfTree(DeOpAll(K, t))
  BY <1>3, <1>4 DEF DeOpAll, PartOfTree
<1>6. ASSUME NEW s, PartOfTree(s) PROVE Distinct(s)
  BY <1>6 DEF PartOfTree, Distinct
<1> QED
  BY <1>1, <1>3, <1>5, <1>6 DEF t

\* A channel may be put where no sibling has its name.
LEMMA SettingKeepsNames ==
    ASSUME NEW t \in TreeType, Distinct(t), NEW c \in Channel, NEW new,
           \A d \in Channel \ {Root, c} :
              c # Root /\ t[d] # None /\ t[d].parent = new.parent => t[d].name # new.name
    PROVE  Distinct([t EXCEPT ![c] = new])
BY DEF Distinct, TreeType

\* UserJoinChannel neither moves nor renames channels.
LEMMA JoinKeepsNames ==
    ASSUME Inv, Distinct(chan), NEW u \in Authorized, NEW c, UserJoinChannel(u, c)
    PROVE  Distinct(chan')
<1> DEFINE tree == IF chanOf[u] = None THEN chan ELSE Without({u}, Cleaned({u}, c))
           users == tree[c].users \cup {u}
           ops == IF IsOwner(u, c) \/ IsAutoOperator(u, c)
                  THEN tree[c].ops \cup {u} ELSE tree[c].ops
           new == [tree[c] EXCEPT !.users = users, !.ops = ops]
<1>1. u \in User /\ c \in Channels /\ c \in Channel
  BY DEF Authorized, UserJoinChannel, Channels
<1>2. tree[c] # None
  BY <1>1, LeftForJoinIsOrderly
<1>3. tree \in TreeType /\ Distinct(tree)
  BY PruningKeepsNames DEF Inv, TypeOK, TreeType
<1>4. chan' = [tree EXCEPT ![c].users = @ \cup {u},
                           ![c].ops = IF IsOwner(u, c) \/ IsAutoOperator(u, c)
                                      THEN @ \cup {u} ELSE @]
  BY DEF UserJoinChannel
<1> HIDE DEF tree
<1>5. tree[c] \in ChannelState
  BY <1>1, <1>2, <1>3 DEF TreeType
<1>6. chan' = [tree EXCEPT ![c] = new]
  BY <1>1, <1>3, <1>4, <1>5 DEF TreeType, ChannelState
<1> HIDE DEF users, ops
<1>7. new.parent = tree[c].parent /\ new.name = tree[c].name
  BY <1>5 DEF ChannelState
<1> HIDE DEF new
<1>8. \A d \in Channel \ {Root, c} :
         c # Root /\ tree[d] # None /\ tree[d].parent = new.parent
             => tree[d].name # new.name
  BY <1>1, <1>2, <1>3, <1>7 DEF Distinct
<1> QED
  BY <1>1, <1>3, <1>6, <1>8, SettingKeepsNames

\* Every step keeps the names of siblings apart.
LEMMA NextKeepsNames == Inv /\ Distinct(chan) /\ [Next]_vars => Distinct(chan')
<1> SUFFICES ASSUME Inv, Distinct(chan), [Next]_vars PROVE Distinct(chan')
  OBVIOUS
<1> USE DEF Inv
<1>1. chan \in TreeType
  BY DEF TypeOK, TreeType
<1>2. ASSUME NEW K, chan' = LoggedOut(K) PROVE Distinct(chan')
  BY <1>2, PruningKeepsNames DEF LoggedOut
<1>7. \A K, Gone : Distinct(Without(K, Gone))
  BY PruningKeepsNames
<1>3. CASE SessionNext
  BY <1>2, <1>3 DEF SessionNext, Connect, Login, LoginRefusedAfterKick, Logout,
                    Disconnect, KickFromServer, LogoutEffect
<1>4. CASE MemberNext
  <2>1. ASSUME NEW u \in User, NEW c, UserLeaveChannel(u, c) PROVE Distinct(chan')
    BY <2>1, PruningKeepsNames DEF UserLeaveChannel
  <2>2. ASSUME NEW u \in Authorized, NEW c, UserJoinChannel(u, c) PROVE Distinct(chan')
    BY <2>2, JoinKeepsNames
  <2> QED
    BY <1>4, <2>1, <2>2
       DEF MemberNext, LeaveChannel, JoinChannel, MoveUser, KickFromChannel, Finds
<1>5. CASE TreeNext
  <2>1. ASSUME NEW u \in User, NEW c \in Channel, NEW p \in Channel,
               NEW n \in ChannelName, NEW permanent \in BOOLEAN, NEW hidden \in BOOLEAN,
               \/ JoinNewChannel(u, c, p, n, permanent, hidden)
               \/ JoinNewChannelFails(u, c, p, n, permanent, hidden)
               \/ \E max \in Capacity : MakeChannel(u, c, p, n, permanent, hidden, max)
        PROVE  Distinct(chan')
    <3> DEFINE tree == IF chanOf[u] = None THEN chan ELSE Without({u}, Cleaned({u}, p))
    <3>1. CanMakeChannel(c, p, n)
      BY <2>1 DEF JoinNewChannel, JoinNewChannelFails, MakeChannel
    <3>2. \A d \in Channel : chan[d] # None /\ chan[d].parent = p => chan[d].name # n
      BY <3>1 DEF CanMakeChannel, Names, SubChannels, Channels
    <3>3. tree \in TreeType /\ Distinct(tree) /\ PartOfTree(tree)
      BY <1>1, PruningKeepsNames DEF PartOfTree
    <3>4. \E max \in Capacity, users \in SUBSET User, t \in {tree, chan} :
             chan' = [t EXCEPT ![c] =
                         NewChannel(u, p, n, permanent, hidden, max, users)]
      BY <2>1, LimitAssumption DEF JoinNewChannel, JoinNewChannelFails, MakeChannel
    <3> HIDE DEF tree
    <3>5. PICK max \in Capacity, users \in SUBSET User, t \in {tree, chan} :
             chan' = [t EXCEPT ![c] =
                         NewChannel(u, p, n, permanent, hidden, max, users)]
      BY <3>4
    <3> DEFINE new == NewChannel(u, p, n, permanent, hidden, max, users)
    <3>6. new.parent = p /\ new.name = n
      BY DEF NewChannel
    <3>7. \A d \in Channel : t[d] # None /\ t[d].parent = p => t[d].name # n
      BY <3>2, <3>3 DEF PartOfTree
    <3>8. t \in TreeType /\ Distinct(t)
      BY <1>1, <3>3
    <3> HIDE DEF new
    <3> QED
      BY <3>5, <3>6, <3>7, <3>8, SettingKeepsNames DEF new
  <2>2. ASSUME NEW u \in User, NEW c \in Channel, NEW n \in ChannelName \cup {None},
               NEW permanent \in BOOLEAN, NEW max \in Capacity,
               UpdateChannel(u, c, n, permanent, max)
        PROVE  Distinct(chan')
    <3> DEFINE new == [chan[c] EXCEPT !.name = n, !.permanent = permanent,
                                      !.maxusers = max]
    <3>1. c \in Channels /\ chan[c] \in ChannelState
      BY <2>2, ChannelsHaveStates DEF UpdateChannel
    <3>2. new.parent = chan[c].parent /\ new.name = n
      BY <3>1 DEF ChannelState
    <3>3. chan' = [chan EXCEPT ![c] = new]
      BY <2>2, <3>1 DEF UpdateChannel, TypeOK, ChannelState
    <3>4. c # Root => n \notin Names(SubChannels(chan[c].parent) \ {c})
      BY <2>2 DEF UpdateChannel
    <3> HIDE DEF new
    <3>5. \A d \in Channel \ {Root, c} :
             c # Root /\ chan[d] # None /\ chan[d].parent = new.parent
                 => chan[d].name # new.name
      BY <3>2, <3>4 DEF Names, SubChannels, Channels
    <3> QED
      BY <1>1, <3>3, <3>5, SettingKeepsNames
  <2>3. ASSUME NEW u \in User, NEW c \in Channel, NEW v \in User, NEW op \in BOOLEAN,
               ChannelOp(u, v, c, op)
        PROVE  Distinct(chan')
    <3> DEFINE ops == IF op THEN chan[c].ops \cup {v} ELSE chan[c].ops \ {v}
               new == [chan[c] EXCEPT !.ops = ops]
    <3>1. c \in Channels /\ chan[c] \in ChannelState
      BY <2>3, ChannelsHaveStates DEF ChannelOp
    <3>2. chan' = [chan EXCEPT ![c] = new]
      BY <2>3, <3>1 DEF ChannelOp, TypeOK, ChannelState
    <3> HIDE DEF ops
    <3>3. new.parent = chan[c].parent /\ new.name = chan[c].name
      BY <3>1 DEF ChannelState
    <3> HIDE DEF new
    <3>4. \A d \in Channel \ {Root, c} :
             c # Root /\ chan[d] # None /\ chan[d].parent = new.parent
                 => chan[d].name # new.name
      BY <3>1, <3>3 DEF Distinct, Channels
    <3> QED
      BY <1>1, <3>2, <3>4, SettingKeepsNames
  <2>4. ASSUME NEW u \in User, NEW c \in Channel,
               RemoveChannel(u, c) \/ RemoveChannelFails(u, c)
        PROVE  Distinct(chan')
    <3>1. PICK Gone : RemoveSubtrees(Gone)
      BY <2>4 DEF RemoveChannel, RemoveChannelFails
    <3> QED
      BY <1>7, <3>1 DEF RemoveSubtrees
  <2> QED
    BY <1>5, <2>1, <2>2, <2>3, <2>4 DEF TreeNext
<1>6. CASE UNCHANGED vars
  BY <1>6 DEF vars
<1> QED
  BY <1>3, <1>4, <1>5, <1>6 DEF Next

\* Siblings always differ in name, so that removing a channel by its name removes
\* that channel (Channel.h:278-288).
THEOREM SiblingsKeepNames == Spec => []SiblingNamesDiffer
<1> DEFINE Named == Distinct(chan)
<1>1. Init => Named
  BY DEF Init, Distinct
<1>2. Inv /\ Named /\ [Next]_vars => Named'
  BY NextKeepsNames
<1>3. Named => SiblingNamesDiffer
  BY DEF Distinct, SiblingNamesDiffer, Channels
<1> HIDE DEF Named
<1> QED
  BY <1>1, <1>2, <1>3, Consistent, PTL DEF Spec

-----------------------------------------------------------------------------
(* Barren channels. *)

\* Barren, of a tree.
Hollow(t, c) ==
    /\ t[c] # None
    /\ ~t[c].permanent
    /\ t[c].users = {}
    /\ \A d \in Channel : t[d] # None => t[d].parent # c

\* Leaving and logging out do not make a channel permanent or temporary.
LEMMA PruningKeepsKind ==
    ASSUME TypeOK, NEW K, NEW Gone, NEW c \in Channels \ Gone
    PROVE  /\ Without(K, Gone)[c].permanent = chan[c].permanent
           /\ DeOpAll(K, Without(K, Gone))[c].permanent = chan[c].permanent
<1> DEFINE t == Without(K, Gone)
<1>1. c \in Channel /\ t[c] \in ChannelState
  BY WithoutIs, ChannelsHaveStates DEF TreeType
<1>2. t[c] = [chan[c] EXCEPT !.users = @ \ K]
  BY <1>1 DEF Without
<1>3. t[c].permanent = chan[c].permanent
  BY <1>2, ChannelsHaveStates DEF ChannelState
<1>4. t[c] # None
  BY <1>1, NoneAssumption
<1> HIDE DEF t
<1>5. DeOpAll(K, t)[c] = [t[c] EXCEPT !.ops = @ \ K]
  BY <1>1, <1>4 DEF DeOpAll
<1>6. DeOpAll(K, t)[c].permanent = t[c].permanent
  BY <1>1, <1>5 DEF ChannelState
<1> QED
  BY <1>3, <1>6 DEF t

\* A tree that users of K have left, with what CleanChannels does afterwards.
LeftBy(t, K, kept) ==
    /\ \A c \in Channel : t[c] # None <=> c \in Channels \ Cleaned(K, kept)
    /\ \A c \in Channels \ Cleaned(K, kept) :
          /\ t[c].parent = chan[c].parent
          /\ t[c].users = chan[c].users \ K
          /\ t[c].permanent = chan[c].permanent

\* That is the tree after UserLeaveChannel, and after UserLogout.
LEMMA LeavingLeaves ==
    ASSUME TypeOK, NEW K, NEW kept
    PROVE  /\ LeftBy(Without(K, Cleaned(K, kept)), K, kept)
           /\ LeftBy(DeOpAll(K, Without(K, Cleaned(K, kept))), K, kept)
<1> DEFINE t == Without(K, Cleaned(K, kept))
           s == DeOpAll(K, t)
<1>1. /\ t \in TreeType
      /\ \A c \in Channel : t[c] # None <=> c \in Channels \ Cleaned(K, kept)
  BY WithoutIs
<1>2. ASSUME NEW c \in Channels \ Cleaned(K, kept)
      PROVE  /\ t[c].parent = chan[c].parent /\ t[c].users = chan[c].users \ K
             /\ t[c].permanent = chan[c].permanent
             /\ s[c].permanent = chan[c].permanent
  BY WithoutIs, PruningKeepsKind DEF SameFrame
<1> HIDE DEF t
<1>3. LeftBy(t, K, kept)
  BY <1>1, <1>2 DEF LeftBy
<1>4. /\ \A c \in Channel : s[c] # None <=> t[c] # None
      /\ \A c \in Channel : t[c] # None =>
            s[c].parent = t[c].parent /\ s[c].users = t[c].users
  BY <1>1, DeOpAllIs DEF SameFrame
<1>5. \A c \in Channels \ Cleaned(K, kept) : c \in Channel /\ t[c] # None
  BY <1>1, ChannelsHaveStates
<1> HIDE DEF s
<1>6. LeftBy(s, K, kept)
  BY <1>1, <1>2, <1>4, <1>5 DEF LeftBy
<1> QED
  BY <1>3, <1>6 DEF s, t

\* CleanChannels takes all that is barren because users left, whatever channel
\* keeps it from going further: that channel is still below what it kept.
LEMMA LeavingHollowsNone ==
    ASSUME Inv, NEW K, NEW kept, NEW t, LeftBy(t, K, kept),
           NEW c \in Channel \ {Root}, c # kept, Hollow(t, c)
    PROVE  Hollow(chan, c)
<1> USE DEF Inv
<1>1. /\ c \in Channels \ Cleaned(K, kept)
      /\ ~chan[c].permanent /\ chan[c].users \subseteq K
  BY DEF Hollow, LeftBy
<1>2. PICK d \in Subtree(c) :
         \/ d = kept \/ chan[d].permanent \/ ~(chan[d].users \subseteq K)
         \/ SubChannels(d) = {} /\ chan[d].users = {}
  BY <1>1 DEF Cleaned
<1>3. d \in Channels \ Cleaned(K, kept)
  BY <1>2, SubtreeSelf DEF Subtree, Cleaned
<1>4. CASE d = c
  BY <1>1, <1>2, <1>4, ChannelsHaveStates DEF Hollow, SubChannels, Channels
<1>5. CASE d # c
  <2>1. c \in chan[d].above
    BY <1>2, <1>5 DEF Subtree
  <2>2. PICK e \in Channels : chan[e].parent = c /\ (e = d \/ e \in chan[d].above)
    BY <1>3, <2>1 DEF Lineage
  <2>3. e \notin Cleaned(K, kept)
    BY <1>3, <2>2, CleanedClosed DEF Closed
  <2>4. e \in Channel /\ t[e] # None /\ t[e].parent = c
    BY <2>2, <2>3, ChannelsHaveStates DEF LeftBy
  <2> QED
    BY <2>4 DEF Hollow
<1> QED
  BY <1>4, <1>5

\* Nor does changing a channel that neither loses users nor becomes temporary.
LEMMA SettingHollowsNone ==
    ASSUME NEW t \in TreeType, NEW k \in Channel, t[k] # None,
           NEW new, new # None, new.parent = t[k].parent,
           t[k].users \subseteq new.users, t[k].permanent => new.permanent,
           NEW c \in Channel, Hollow([t EXCEPT ![k] = new], c)
    PROVE  Hollow(t, c)
<1> DEFINE s == [t EXCEPT ![k] = new]
<1>1. s[k] = new /\ \A d \in Channel \ {k} : s[d] = t[d]
  BY DEF TreeType
<1>2. \A d \in Channel : t[d] # None => s[d] # None /\ s[d].parent = t[d].parent
  BY <1>1
<1>3. /\ t[c] # None
      /\ s[c] # None => t[c].users \subseteq s[c].users
      /\ t[c].permanent => s[c].permanent
  BY <1>1 DEF Hollow
<1> HIDE DEF s
<1>4. Hollow(s, c)
  BY DEF s
<1> QED
  BY <1>2, <1>3, <1>4 DEF Hollow

\* Nor does making a channel with somebody in it.
LEMMA GrowingHollowsNone ==
    ASSUME NEW t \in TreeType, NEW k \in Channel, t[k] = None,
           NEW new, new # None, new.users # {},
           NEW c \in Channel, Hollow([t EXCEPT ![k] = new], c)
    PROVE  Hollow(t, c) /\ c # new.parent
<1> DEFINE s == [t EXCEPT ![k] = new]
<1>1. s[k] = new /\ \A d \in Channel \ {k} : s[d] = t[d]
  BY DEF TreeType
<1> HIDE DEF s
<1>2. Hollow(s, c)
  BY DEF s
<1>3. c # k /\ c # new.parent
  BY <1>1, <1>2 DEF Hollow
<1> QED
  BY <1>1, <1>2, <1>3 DEF Hollow

\* UserJoinChannel takes away what it empties.
LEMMA JoinHollowsNone ==
    ASSUME Inv, NEW u \in Authorized, NEW k, UserJoinChannel(u, k),
           NEW c \in Channel \ {Root}, Hollow(chan', c)
    PROVE  Hollow(chan, c)
<1> DEFINE tree == IF chanOf[u] = None THEN chan ELSE Without({u}, Cleaned({u}, k))
           users == tree[k].users \cup {u}
           ops == IF IsOwner(u, k) \/ IsAutoOperator(u, k)
                  THEN tree[k].ops \cup {u} ELSE tree[k].ops
           new == [tree[k] EXCEPT !.users = users, !.ops = ops]
<1>1. u \in User /\ k \in Channels /\ k \in Channel
  BY DEF Authorized, UserJoinChannel, Channels
<1>2. tree[k] # None
  BY <1>1, LeftForJoinIsOrderly
<1>3. tree \in TreeType
  BY WithoutIs DEF Inv, TypeOK, TreeType
<1>4. chan' = [tree EXCEPT ![k].users = @ \cup {u},
                           ![k].ops = IF IsOwner(u, k) \/ IsAutoOperator(u, k)
                                      THEN @ \cup {u} ELSE @]
  BY DEF UserJoinChannel
<1>5. tree = chan \/ LeftBy(tree, {u}, k)
  BY LeavingLeaves DEF Inv
<1> HIDE DEF tree
<1>6. tree[k] \in ChannelState
  BY <1>1, <1>2, <1>3 DEF TreeType
<1>7. chan' = [tree EXCEPT ![k] = new]
  BY <1>1, <1>3, <1>4, <1>6 DEF TreeType, ChannelState
<1>8. users \in SUBSET User /\ ops \in SUBSET User
  BY <1>1, <1>6 DEF ChannelState
<1> HIDE DEF users, ops
<1>9. /\ new \in ChannelState
      /\ new.parent = tree[k].parent /\ new.permanent = tree[k].permanent
      /\ new.users = users
  BY <1>6, <1>8 DEF ChannelState
<1>10. new # None /\ tree[k].users \subseteq new.users /\ u \in new.users
  BY <1>9, NoneAssumption DEF users
<1> HIDE DEF new
<1>11. Hollow(tree, c)
  BY <1>1, <1>2, <1>3, <1>7, <1>9, <1>10, SettingHollowsNone
<1>12. c # k
  BY <1>1, <1>3, <1>7, <1>10 DEF Hollow, TreeType
<1> QED
  BY <1>5, <1>11, <1>12, LeavingHollowsNone

\* So does UserJoinChannel into a channel it makes.
LEMMA JoinNewHollowsNone ==
    ASSUME Inv, NEW u \in User, NEW k \in Channel, NEW p \in Channel,
           NEW n \in ChannelName, NEW permanent \in BOOLEAN, NEW hidden \in BOOLEAN,
           JoinNewChannel(u, k, p, n, permanent, hidden),
           NEW c \in Channel \ {Root}, Hollow(chan', c)
    PROVE  Hollow(chan, c)
<1> DEFINE tree == IF chanOf[u] = None THEN chan ELSE Without({u}, Cleaned({u}, p))
           new == NewChannel(u, p, n, permanent, hidden, MaxUsers, {u})
<1>1. u \in Authorized /\ p \in Channels /\ chan[k] = None
  BY DEF JoinNewChannel, CanMakeChannel, Channels
<1>2. chan' = [tree EXCEPT ![k] = new]
  BY DEF JoinNewChannel
<1>3. tree \in TreeType /\ (tree = chan \/ LeftBy(tree, {u}, p))
  BY WithoutIs, LeavingLeaves DEF Inv, TypeOK, TreeType
<1>4. tree[k] = None
  BY <1>1, LeftForJoinIsOrderly
<1>5. new # None /\ new.users = {u} /\ new.parent = p
  <2>1. MaxUsers \in Capacity /\ {u} \in SUBSET User
    BY LimitAssumption
  <2>2. new \in ChannelState /\ new.parent = p
    BY <1>1, <2>1, NewChannelIs
  <2>3. new.users = {u}
    BY DEF NewChannel
  <2> QED
    BY <2>2, <2>3, NoneAssumption
<1> HIDE DEF tree, new
<1>6. Hollow(tree, c) /\ c # p
  BY <1>2, <1>3, <1>4, <1>5, GrowingHollowsNone
<1> QED
  BY <1>3, <1>6, LeavingHollowsNone

\* Nobody may modify channels.
NoEditor == \A u \in Authorized : ~Has(u, "MODIFY_CHANNELS")

\* Every step of a server in which nobody may modify channels.
LEMMA NextHollowsNone ==
    ASSUME MaxUsers # 0, Inv, Next, NoEditor,
           NEW c \in Channel \ {Root}, Hollow(chan', c)
    PROVE  Hollow(chan, c)
<1> USE DEF Inv
<1>1. chan \in TreeType /\ c # None /\ TypeOK
  BY NoneAssumption DEF TypeOK, TreeType
<1>2. ASSUME NEW K, chan' = LoggedOut(K) PROVE Hollow(chan, c)
  <2>1. LeftBy(LoggedOut(K), K, None)
    BY <1>1, LeavingLeaves DEF LoggedOut
  <2> QED
    BY <1>1, <1>2, <2>1, LeavingHollowsNone
<1>3. CASE SessionNext
  <2>1. \/ chan' = chan
        \/ \E K : chan' = LoggedOut(K)
    BY <1>3 DEF SessionNext, Connect, Login, LoginRefusedAfterKick, Logout,
                Disconnect, KickFromServer, LogoutEffect
  <2> QED
    BY <1>2, <2>1
<1>4. CASE MemberNext
  <2>1. ASSUME NEW u \in User, NEW k, UserLeaveChannel(u, k) PROVE Hollow(chan, c)
    <3>1. chan' = Without({u}, Cleaned({u}, None))
      BY <2>1 DEF UserLeaveChannel
    <3>2. LeftBy(chan', {u}, None)
      BY <1>1, <3>1, LeavingLeaves
    <3> QED
      BY <1>1, <3>2, LeavingHollowsNone
  <2>2. ASSUME NEW u \in Authorized, NEW k, UserJoinChannel(u, k)
        PROVE  Hollow(chan, c)
    BY <2>2, JoinHollowsNone
  <2> QED
    BY <1>4, <2>1, <2>2
       DEF MemberNext, LeaveChannel, JoinChannel, MoveUser, KickFromChannel, Finds
<1>5. CASE TreeNext
  <2>1. ASSUME NEW u \in User, NEW k \in Channel, NEW p \in Channel,
               NEW n \in ChannelName, NEW permanent \in BOOLEAN, NEW hidden \in BOOLEAN,
               JoinNewChannel(u, k, p, n, permanent, hidden)
        PROVE  Hollow(chan, c)
    BY <2>1, JoinNewHollowsNone
  <2>2. ASSUME NEW u \in User, NEW k \in Channel, NEW p \in Channel,
               NEW n \in ChannelName, NEW permanent \in BOOLEAN, NEW hidden \in BOOLEAN,
               \/ JoinNewChannelFails(u, k, p, n, permanent, hidden)
               \/ \E max \in Capacity : MakeChannel(u, k, p, n, permanent, hidden, max)
        PROVE  FALSE
    BY <2>2 DEF NoEditor, JoinNewChannelFails, MayCreate, MakeChannel
  <2>3. ASSUME NEW u \in User, NEW k \in Channel, NEW n \in ChannelName \cup {None},
               NEW permanent \in BOOLEAN, NEW max \in Capacity,
               UpdateChannel(u, k, n, permanent, max)
        PROVE  Hollow(chan, c)
    <3> DEFINE new == [chan[k] EXCEPT !.name = n, !.permanent = permanent,
                                      !.maxusers = max]
    <3>1. k \in Channels /\ chan[k] \in ChannelState /\ chan[k] # None
      BY <1>1, <2>3, ChannelsHaveStates DEF UpdateChannel, Channels
    <3>2. chan' = [chan EXCEPT ![k] = new]
      BY <1>1, <2>3, <3>1 DEF UpdateChannel, TypeOK, ChannelState
    <3>3. permanent = chan[k].permanent
      BY <2>3 DEF UpdateChannel, NoEditor
    <3>4. /\ new \in ChannelState /\ new.parent = chan[k].parent
          /\ new.users = chan[k].users /\ new.permanent = permanent
      BY <3>1 DEF ChannelState
    <3>5. new # None
      BY <3>4, NoneAssumption
    <3> HIDE DEF new
    <3> QED
      BY <1>1, <3>1, <3>2, <3>3, <3>4, <3>5, SettingHollowsNone
  <2>4. ASSUME NEW u \in User, NEW k \in Channel, NEW v \in User, NEW op \in BOOLEAN,
               ChannelOp(u, v, k, op)
        PROVE  Hollow(chan, c)
    <3> DEFINE ops == IF op THEN chan[k].ops \cup {v} ELSE chan[k].ops \ {v}
               new == [chan[k] EXCEPT !.ops = ops]
    <3>1. k \in Channels /\ chan[k] \in ChannelState /\ chan[k] # None
      BY <1>1, <2>4, ChannelsHaveStates DEF ChannelOp, Channels
    <3>2. chan' = [chan EXCEPT ![k] = new]
      BY <1>1, <2>4, <3>1 DEF ChannelOp, TypeOK, ChannelState
    <3>3. ops \in SUBSET User
      BY <3>1 DEF ChannelState
    <3> HIDE DEF ops
    <3>4. /\ new \in ChannelState /\ new.parent = chan[k].parent
          /\ new.users = chan[k].users /\ new.permanent = chan[k].permanent
      BY <3>1, <3>3 DEF ChannelState
    <3>5. new # None
      BY <3>4, NoneAssumption
    <3> HIDE DEF new
    <3> QED
      BY <1>1, <3>1, <3>2, <3>4, <3>5, SettingHollowsNone
  <2>5. ASSUME NEW u \in User, NEW k \in Channel,
               RemoveChannel(u, k) \/ RemoveChannelFails(u, k)
        PROVE  FALSE
    BY <2>5 DEF NoEditor, RemoveChannel, RemoveChannelFails
  <2> QED
    BY <1>5, <2>1, <2>2, <2>3, <2>4, <2>5 DEF TreeNext
<1> QED
  BY <1>3, <1>4, <1>5 DEF Next

\* A server that has room for users never finds a temporary channel newly empty
\* and childless while nobody may modify channels: leaving, moving, logging out and
\* losing the connection take away all that they empty. (Without room for users,
\* an administrator who may create temporary channels makes one and cannot enter.)
THEOREM BarrenChannelsAreEditors ==
    ASSUME MaxUsers # 0 PROVE Spec => BarrenOnlyByEditors
<1>1. ASSUME NEW c \in Channel PROVE Barren(c) <=> Hollow(chan, c)
  BY <1>1 DEF Barren, Hollow, SubChannels, Channels
<1>2. ASSUME NEW c \in Channel PROVE Barren(c)' <=> Hollow(chan', c)
  BY <1>2 DEF Barren, Hollow, SubChannels, Channels
<1> DEFINE Kept == \A c \in Channel \ {Root} :
                      Barren(c)' /\ ~Barren(c)
                          => \E u \in Authorized : Has(u, "MODIFY_CHANNELS")
<1>3. Inv /\ [Next]_vars => [Kept]_vars
  BY <1>1, <1>2, NextHollowsNone DEF NoEditor
<1> QED
  BY <1>3, Consistent, PTL DEF Spec, BarrenOnlyByEditors

-----------------------------------------------------------------------------
(* The server implements Rooms. *)

BarrenChannels == {c \in Channel \ {Root} : Hollow(chan, c)}

\* They are what Rooms calls deserted.
LEMMA DesertedIs == TypeOK /\ MembershipAgrees => R!Deserted = BarrenChannels
<1> SUFFICES ASSUME TypeOK, MembershipAgrees PROVE R!Deserted = BarrenChannels
  OBVIOUS
<1>1. \A c \in Channels : c \in Channel /\ chan[c].users \subseteq User
  BY ChannelsHaveStates
<1>2. ASSUME NEW c \in Channels
      PROVE  (\A g \in User : chanOf[g] # c) <=> chan[c].users = {}
  BY <1>1, NoneAssumption DEF MembershipAgrees
<1>3. ASSUME NEW c \in Channel
      PROVE  (\A s \in Channels : ParentOf[s] # c)
                <=> \A d \in Channel : chan[d] # None => chan[d].parent # c
  BY <1>1 DEF ParentOf, Channels
<1> QED
  BY <1>2, <1>3 DEF R!Deserted, BarrenChannels, Hollow, PermanentChannels, Channels

\* Every channel but the root is below one that exists.
LEMMA TreeIsRooted == TreeWellFormed => R!Rooted
BY DEF TreeWellFormed, R!Rooted, ParentOf, Channels

\* A step that only takes channels away.
LEMMA TreeShrinks ==
    ASSUME Inv', \A c \in Channel : chan'[c] # None =>
                    /\ chan[c] # None
                    /\ chan'[c].parent = chan[c].parent
                    /\ chan'[c].permanent = chan[c].permanent
    PROVE  R!Shrink
<1>1. Channels' \subseteq Channels
  BY DEF Channels
<1>2. ParentOf' = [c \in Channel |-> IF c \in Channels' THEN ParentOf[c] ELSE None]
  BY <1>1 DEF ParentOf, Channels
<1>3. PermanentChannels' = PermanentChannels \cap Channels'
  BY <1>1 DEF PermanentChannels, Channels
<1>4. R!Rooted'
  BY TreeIsRooted, PTL DEF Inv
<1> QED
  BY <1>1, <1>2, <1>3, <1>4 DEF R!Shrink

\* A step that makes channel c below p, and may take others away.
LEMMA TreeGrows ==
    ASSUME Inv', NEW c \in Channel, NEW p \in Channels,
           chan[c] = None, chan'[c] # None, chan'[p] # None, chan'[c].parent = p,
           \A d \in Channel \ {c} : chan'[d] # None =>
              /\ chan[d] # None
              /\ chan'[d].parent = chan[d].parent
              /\ chan'[d].permanent = chan[d].permanent
    PROVE  R!Grow(c, p)
<1>1. Channels' \ Channels = {c} /\ p \in Channels \cap Channels' /\ c \notin Channels
  BY DEF Channels
<1>2. ParentOf' = [d \in Channel |-> IF d = c THEN p
                                     ELSE IF d \in Channels' THEN ParentOf[d] ELSE None]
  BY <1>1 DEF ParentOf, Channels
<1>3. PermanentChannels' \ {c} = PermanentChannels \cap Channels'
  BY <1>1 DEF PermanentChannels, Channels
<1>4. R!Rooted'
  BY TreeIsRooted, PTL DEF Inv
<1> QED
  BY <1>1, <1>2, <1>3, <1>4 DEF R!Grow

\* What CleanChannels takes closes behind those who leave.
LEMMA ChannelsCloseBehind ==
    ASSUME Inv, Inv', NEW K, NEW kept,
           Channels \ Channels' \subseteq Cleaned(K, kept),
           \A c \in Channel \ {Root} : Hollow(chan', c) => Hollow(chan, c)
    PROVE  R!CloseBehind(K)
<1> USE DEF Inv
<1>1. R!Deserted = {c \in Channel \ {Root} : Hollow(chan, c)}
  BY DesertedIs DEF BarrenChannels
<1>2. R!Deserted' = {c \in Channel \ {Root} : Hollow(chan', c)}
  <2>1. (TypeOK /\ MembershipAgrees)'
    OBVIOUS
  <2>2. (R!Deserted = BarrenChannels)'
    BY <2>1, DesertedIs, PTL
  <2> QED
    BY <2>2 DEF BarrenChannels, Hollow
<1>3. ASSUME NEW c \in Channels \ Channels'
      PROVE  /\ c # Root /\ ~chan[c].permanent /\ chan[c].users \subseteq K
             /\ ~Hollow(chan, c)
  <2>1. c \in Cleaned(K, kept) /\ c \in Subtree(c)
    BY <1>3, SubtreeSelf
  <2> QED
    BY <2>1 DEF Cleaned, Hollow, SubChannels, Channels
<1>4. (Channels \ Channels') \cap (PermanentChannels \cup {Root} \cup R!Deserted) = {}
  BY <1>1, <1>3 DEF PermanentChannels
<1>5. \A g \in User : chanOf[g] \in Channels \ Channels' => g \in K
  BY <1>3, NoneAssumption DEF MembershipAgrees, Channels
<1>6. R!Deserted' \subseteq R!Deserted
  BY <1>1, <1>2
<1> QED
  BY <1>4, <1>5, <1>6 DEF R!CloseBehind

\* Leaving and logging out.
LEMMA LeavingCloses ==
    ASSUME Inv, Inv', NEW K, LeftBy(chan', K, None)
    PROVE  R!Shrink /\ R!CloseBehind(K)
<1>1. /\ \A c \in Channel : chan'[c] # None <=> c \in Channels \ Cleaned(K, None)
      /\ \A c \in Channels \ Cleaned(K, None) :
            /\ chan'[c].parent = chan[c].parent
            /\ chan'[c].permanent = chan[c].permanent
  BY DEF LeftBy
<1>2. R!Shrink
  BY <1>1, TreeShrinks DEF Channels
<1>3. Channels \ Channels' \subseteq Cleaned(K, None)
  BY <1>1 DEF Channels
<1>4. \A c \in Channel \ {Root} : Hollow(chan', c) => Hollow(chan, c)
  BY LeavingHollowsNone, NoneAssumption
<1> QED
  BY <1>2, <1>3, <1>4, ChannelsCloseBehind

\* Users log out and nobody logs in: guests go.
LEMMA LogoutsAreGoing ==
    ASSUME Inv, Inv', NEW K \in SUBSET Authorized,
           chan' = LoggedOut(K), chanOf' = Forget(chanOf, K, None),
           acct' = Forget(acct, K, None)
    PROVE  R!Go
<1>1. LeftBy(chan', K, None)
  BY LeavingLeaves DEF LoggedOut, Inv
<1>2. R!Shrink /\ R!CloseBehind(K)
  BY <1>1, LeavingCloses
<1>3. Authorized' \subseteq Authorized /\ Authorized \ Authorized' = K
  BY DEF Authorized, Forget
<1>4. R!LeaveFor(K, None)
  BY DEF R!LeaveFor, Forget
<1> QED
  BY <1>2, <1>3, <1>4 DEF R!Go

LEMMA SessionsImplement ==
    ASSUME Inv, Inv', SessionNext
    PROVE  R!Next \/ UNCHANGED R!vars
<1> USE DEF Inv
<1>1. /\ acct \in [User -> Account \cup {None}]
      /\ chanOf \in [User -> Channel \cup {None}]
  BY DEF TypeOK
<1>2. ASSUME NEW u \in User, NEW i \in Ip, Connect(u, i)
      PROVE  UNCHANGED R!vars
  BY <1>2 DEF Connect, R!vars, Authorized, Channels, ParentOf, PermanentChannels
<1>3. ASSUME NEW u \in User, NEW a \in Account, Login(u, a)
      PROVE  R!Come(u)
  <2> DEFINE K == KickedByLogin(a)
  <2>1. /\ chan' = LoggedOut(K) /\ chanOf' = Forget(chanOf, K, None)
        /\ acct' = [Forget(acct, K, None) EXCEPT ![u] = a]
        /\ u \notin Authorized
    BY <1>3 DEF Login
  <2>2. K \subseteq Authorized
    BY DEF KickedByLogin, SameUsername
  <2> HIDE DEF K
  <2>3. Authorized' = (Authorized \ K) \cup {u}
    BY <1>1, <2>1, NoneAssumption DEF Authorized, Forget
  <2>4. Authorized' \ Authorized = {u} /\ Authorized \ Authorized' = K
    BY <2>1, <2>2, <2>3
  <2>5. LeftBy(chan', K, None)
    BY <2>1, LeavingLeaves DEF LoggedOut
  <2>6. R!Shrink /\ R!CloseBehind(K)
    BY <2>5, LeavingCloses
  <2>7. R!LeaveFor(K, None)
    BY <2>1 DEF R!LeaveFor, Forget
  <2> QED
    BY <2>4, <2>6, <2>7 DEF R!Come
<1>4. ASSUME NEW u \in User, NEW a \in Account, LoginRefusedAfterKick(u, a)
      PROVE  R!Go
  <2>1. KickedByLogin(a) \in SUBSET Authorized
    BY DEF KickedByLogin, SameUsername
  <2> QED
    BY <1>4, <2>1, LogoutsAreGoing DEF LoginRefusedAfterKick
<1>5. ASSUME NEW u \in Authorized, LogoutEffect(u)
      PROVE  R!Go
  <2>1. u \in User /\ {u} \in SUBSET Authorized
    BY DEF Authorized
  <2>2. /\ Forget(chanOf, {u}, None) = [chanOf EXCEPT ![u] = None]
        /\ Forget(acct, {u}, None) = [acct EXCEPT ![u] = None]
    BY <1>1, <2>1, ForgetOne
  <2> QED
    BY <1>5, <2>1, <2>2, LogoutsAreGoing DEF LogoutEffect
<1>6. ASSUME NEW u \in User, Disconnect(u)
      PROVE  R!Go \/ UNCHANGED R!vars
  <2>1. CASE u \in Authorized
    BY <1>5, <1>6, <2>1 DEF Disconnect
  <2>2. CASE u \notin Authorized
    BY <1>6, <2>2
       DEF Disconnect, R!vars, Authorized, Channels, ParentOf, PermanentChannels
  <2> QED
    BY <2>1, <2>2
<1> QED
  BY <1>2, <1>3, <1>4, <1>5, <1>6
     DEF SessionNext, Logout, KickFromServer, Finds, R!Next

\* UserLeaveChannel is a guest leaving.
LEMMA LeavingImplements ==
    ASSUME Inv, Inv', NEW u \in User, NEW c, UserLeaveChannel(u, c)
    PROVE  R!Leave(u)
<1> USE DEF Inv
<1>1. /\ c \in Channels /\ u \in chan[c].users
      /\ chan' = Without({u}, Cleaned({u}, None))
      /\ chanOf' = [chanOf EXCEPT ![u] = None] /\ acct' = acct
  BY DEF UserLeaveChannel
<1>2. chanOf[u] # None
  BY <1>1, NoneAssumption DEF MembershipAgrees, Channels
<1>3. LeftBy(chan', {u}, None)
  BY <1>1, LeavingLeaves
<1>4. R!Shrink /\ R!CloseBehind({u})
  BY <1>3, LeavingCloses
<1>5. R!LeaveFor({u}, None)
  BY <1>1 DEF R!LeaveFor, TypeOK
<1>6. Authorized' = Authorized
  BY <1>1 DEF Authorized
<1> QED
  BY <1>2, <1>4, <1>5, <1>6 DEF R!Leave

\* The tree a user who joins has left, if it was in a channel.
LEMMA LeftForJoinIs ==
    ASSUME TypeOK, NEW u \in User, NEW kept,
           NEW tree,
           tree = IF chanOf[u] = None THEN chan ELSE Without({u}, Cleaned({u}, kept))
    PROVE  /\ tree \in TreeType
           /\ \A c \in Channel : tree[c] # None => chan[c] # None
           /\ \A c \in Channels : tree[c] = None => c \in Cleaned({u}, kept)
           /\ \A c \in Channel : tree[c] # None =>
                 tree[c].parent = chan[c].parent /\ tree[c].permanent = chan[c].permanent
<1>1. CASE tree = chan
  BY <1>1 DEF TypeOK, TreeType, Channels
<1>2. CASE tree = Without({u}, Cleaned({u}, kept))
  <2>1. tree \in TreeType
    BY <1>2, WithoutIs
  <2>2. LeftBy(tree, {u}, kept)
    BY <1>2, LeavingLeaves
  <2> QED
    BY <2>1, <2>2 DEF LeftBy, Channels
<1> QED
  BY <1>1, <1>2

\* UserJoinChannel into a channel that exists is a guest entering.
LEMMA JoiningImplements ==
    ASSUME Inv, Inv', NEW u \in Authorized, NEW k, UserJoinChannel(u, k)
    PROVE  R!Enter(u, k)
<1> USE DEF Inv
<1> DEFINE tree == IF chanOf[u] = None THEN chan ELSE Without({u}, Cleaned({u}, k))
           makeop == IsOwner(u, k) \/ IsAutoOperator(u, k)
<1>1. u \in User /\ k \in Channels /\ k \in Channel
  BY DEF Authorized, UserJoinChannel, Channels
<1>2. tree[k] # None
  BY <1>1, LeftForJoinIsOrderly
<1>3. /\ tree \in TreeType
      /\ \A c \in Channel : tree[c] # None => chan[c] # None
      /\ \A c \in Channels : tree[c] = None => c \in Cleaned({u}, k)
      /\ \A c \in Channel : tree[c] # None =>
            tree[c].parent = chan[c].parent /\ tree[c].permanent = chan[c].permanent
  BY <1>1, LeftForJoinIs
<1>4. /\ chan' = [tree EXCEPT ![k].users = @ \cup {u},
                              ![k].ops = IF makeop THEN @ \cup {u} ELSE @]
      /\ chanOf' = [chanOf EXCEPT ![u] = k] /\ acct' = acct
  BY DEF UserJoinChannel
<1> HIDE DEF tree, makeop
<1>5. tree[k] \in ChannelState
  BY <1>1, <1>2, <1>3 DEF TreeType
<1>6. /\ chan'[k] # None
      /\ chan'[k].parent = tree[k].parent /\ chan'[k].permanent = tree[k].permanent
      /\ \A c \in Channel \ {k} : chan'[c] = tree[c]
  <2>1. chan' \in TreeType
    BY DEF TypeOK, TreeType
  <2>2. /\ chan'[k] = [tree[k] EXCEPT !.users = @ \cup {u},
                                      !.ops = IF makeop THEN @ \cup {u} ELSE @]
        /\ \A c \in Channel \ {k} : chan'[c] = tree[c]
    BY <1>1, <1>3, <1>4, <1>5 DEF TreeType, ChannelState
  <2>3. /\ chan'[k].parent = tree[k].parent /\ chan'[k].permanent = tree[k].permanent
        /\ u \in chan'[k].users
    BY <1>5, <2>2 DEF ChannelState
  <2>4. chanOf'[u] = k
    BY <1>1, <1>4 DEF TypeOK
  <2>5. chan'[k] # None
    BY <1>1, <2>4, NoneAssumption DEF MembershipAgrees, Channels
  <2> QED
    BY <2>2, <2>3, <2>5
<1>7. R!Shrink
  BY <1>1, <1>2, <1>3, <1>6, TreeShrinks
<1>8. Channels \ Channels' \subseteq Cleaned({u}, k)
  BY <1>3, <1>6 DEF Channels
<1>9. \A c \in Channel \ {Root} : Hollow(chan', c) => Hollow(chan, c)
  BY JoinHollowsNone
<1>10. R!CloseBehind({u})
  BY <1>8, <1>9, ChannelsCloseBehind
<1>11. R!LeaveFor({u}, k)
  BY <1>1, <1>4 DEF R!LeaveFor, TypeOK
<1>12. Authorized' = Authorized /\ k \in Channels'
  BY <1>1, <1>4, <1>6 DEF Authorized, Channels
<1> QED
  BY <1>7, <1>10, <1>11, <1>12 DEF R!Enter

LEMMA MembersImplement ==
    ASSUME Inv, Inv', MemberNext
    PROVE  R!Next
<1>1. ASSUME NEW u \in User, NEW c, UserLeaveChannel(u, c) PROVE R!Next
  BY <1>1, LeavingImplements DEF R!Next
<1>2. ASSUME NEW u \in Authorized, NEW c \in Channel, UserJoinChannel(u, c) PROVE R!Next
  BY <1>2, JoiningImplements DEF R!Next, Authorized
<1> QED
  BY <1>1, <1>2
     DEF MemberNext, LeaveChannel, JoinChannel, MoveUser, KickFromChannel, Finds

\* UserJoinChannel into a new channel is a guest entering a room that opens for it.
LEMMA JoiningNewImplements ==
    ASSUME Inv, Inv', NEW u \in User, NEW k \in Channel, NEW p \in Channel,
           NEW n \in ChannelName, NEW permanent \in BOOLEAN, NEW hidden \in BOOLEAN,
           JoinNewChannel(u, k, p, n, permanent, hidden)
    PROVE  R!EnterNew(u, k, p)
<1> USE DEF Inv
<1> DEFINE tree == IF chanOf[u] = None THEN chan ELSE Without({u}, Cleaned({u}, p))
           new == NewChannel(u, p, n, permanent, hidden, MaxUsers, {u})
<1>1. u \in Authorized /\ p \in Channels /\ chan[k] = None
  BY DEF JoinNewChannel, CanMakeChannel, Channels
<1>2. /\ chan' = [tree EXCEPT ![k] = new]
      /\ chanOf' = [chanOf EXCEPT ![u] = k] /\ acct' = acct
  BY DEF JoinNewChannel
<1>3. /\ tree \in TreeType
      /\ \A c \in Channel : tree[c] # None => chan[c] # None
      /\ \A c \in Channels : tree[c] = None => c \in Cleaned({u}, p)
      /\ \A c \in Channel : tree[c] # None =>
            tree[c].parent = chan[c].parent /\ tree[c].permanent = chan[c].permanent
  <2>1. tree = IF chanOf[u] = None THEN chan ELSE Without({u}, Cleaned({u}, p))
    OBVIOUS
  <2>2. TypeOK
    OBVIOUS
  <2> HIDE DEF tree, new, Inv
  <2> QED
    BY <2>1, <2>2, LeftForJoinIs
<1>4. tree[k] = None /\ tree[p] # None
  BY <1>1, LeftForJoinIsOrderly
<1>5. new # None /\ new.parent = p
  <2>1. MaxUsers \in Capacity /\ {u} \in SUBSET User
    BY LimitAssumption
  <2> QED
    BY <1>1, <2>1, NewChannelIs
<1> HIDE DEF tree, new
<1>6. chan'[k] = new /\ \A c \in Channel \ {k} : chan'[c] = tree[c]
  BY <1>2, <1>3 DEF TreeType
<1>7. R!Grow(k, p)
  <2>1. chan'[k] # None /\ chan'[p] # None /\ chan'[k].parent = p
    BY <1>1, <1>4, <1>5, <1>6
  <2>2. \A c \in Channel \ {k} : chan'[c] # None =>
            /\ chan[c] # None
            /\ chan'[c].parent = chan[c].parent
            /\ chan'[c].permanent = chan[c].permanent
    BY <1>3, <1>6
  <2> QED
    BY <1>1, <2>1, <2>2, TreeGrows
<1>8. Channels \ Channels' \subseteq Cleaned({u}, p)
  BY <1>1, <1>3, <1>6 DEF Channels
<1>9. \A c \in Channel \ {Root} : Hollow(chan', c) => Hollow(chan, c)
  BY JoinNewHollowsNone
<1>10. R!CloseBehind({u})
  BY <1>8, <1>9, ChannelsCloseBehind
<1>11. R!LeaveFor({u}, k)
  BY <1>2 DEF R!LeaveFor, TypeOK
<1>12. Authorized' = Authorized
  BY <1>2 DEF Authorized
<1> QED
  BY <1>1, <1>7, <1>10, <1>11, <1>12 DEF R!EnterNew

\* Making a channel that nobody enters is opening a room.
LEMMA MakingImplements ==
    ASSUME Inv, Inv', NEW u \in Authorized, NEW k \in Channel, NEW p \in Channel,
           NEW n \in ChannelName, NEW permanent \in BOOLEAN, NEW hidden \in BOOLEAN,
           NEW max \in Capacity, CanMakeChannel(k, p, n),
           chan' = [chan EXCEPT ![k] = NewChannel(u, p, n, permanent, hidden, max, {})],
           UNCHANGED <<ip, acct, admins, chanOf>>
    PROVE  R!Open(k, p)
<1> USE DEF Inv
<1> DEFINE new == NewChannel(u, p, n, permanent, hidden, max, {})
<1>1. p \in Channels /\ chan[k] = None /\ chan[p] # None
  BY DEF CanMakeChannel, Channels
<1>2. new # None /\ new.parent = p
  BY <1>1, NewChannelIs
<1> HIDE DEF new
<1>3. chan'[k] = new /\ \A c \in Channel \ {k} : chan'[c] = chan[c]
  BY DEF new, TypeOK
<1>4. R!Grow(k, p)
  BY <1>1, <1>2, <1>3, TreeGrows
<1>5. Channels \subseteq Channels' /\ Authorized' = Authorized
  BY <1>1, <1>3 DEF Channels, Authorized
<1> QED
  BY <1>4, <1>5 DEF R!Open

\* A channel whose properties or operators change stays where it is, so that at most
\* what is permanent is settled anew.
LEMMA ChangingImplements ==
    ASSUME Inv, NEW k \in Channels, NEW new, new # None,
           new.parent = chan[k].parent,
           chan' = [chan EXCEPT ![k] = new],
           UNCHANGED <<ip, acct, admins, chanOf>>
    PROVE  R!Settle
<1> USE DEF Inv
<1>1. k \in Channel /\ chan[k] # None
  BY DEF Channels
<1>2. chan'[k] = new /\ \A c \in Channel \ {k} : chan'[c] = chan[c]
  BY <1>1 DEF TypeOK
<1>3. Channels' = Channels /\ ParentOf' = ParentOf /\ Authorized' = Authorized
  BY <1>1, <1>2 DEF Channels, ParentOf, Authorized
<1>4. PermanentChannels' \subseteq Channels
  BY <1>3 DEF PermanentChannels
<1> QED
  BY <1>3, <1>4 DEF R!Settle

\* Removing channels by command is closing rooms.
LEMMA RemovingImplements ==
    ASSUME Inv, Inv', NEW Gone \in SUBSET Channels, RemoveSubtrees(Gone)
    PROVE  \E emptied \in {{}, {Root}} : R!Close(emptied)
<1> USE DEF Inv
<1> DEFINE K == UsersIn(Gone)
           emptied == IF Root \in Gone THEN {Root} ELSE {}
<1>1. /\ chan' = Without(K, Gone \ {Root}) /\ chanOf' = Forget(chanOf, K, None)
      /\ acct' = acct
  BY DEF RemoveSubtrees
<1>2. \A u \in User : u \in K <=> chanOf[u] \in Gone
  BY NoneAssumption DEF UsersIn, MembershipAgrees, Channels
<1> HIDE DEF K
<1>3. \A c \in Channel : chan'[c] # None <=> c \in Channels \ (Gone \ {Root})
  BY <1>1, WithoutIs
<1>4. Channels' = Channels \ (Gone \ {Root})
  BY <1>3 DEF Channels
<1>5. R!Shrink
  <2>1. \A c \in Channels \ (Gone \ {Root}) :
            /\ chan'[c].parent = chan[c].parent
            /\ chan'[c].permanent = chan[c].permanent
    BY <1>1, WithoutIs, PruningKeepsKind DEF SameFrame
  <2> QED
    BY <1>3, <2>1, TreeShrinks DEF Channels
<1>6. ASSUME NEW u \in User
      PROVE  chanOf'[u] = IF chanOf[u] \in Channels' \ emptied THEN chanOf[u] ELSE None
  <2>1. chanOf'[u] = IF chanOf[u] \in Gone THEN None ELSE chanOf[u]
    BY <1>1, <1>2 DEF Forget
  <2>2. chanOf[u] \in Channels' \ emptied <=> chanOf[u] \in Channels \ Gone
    BY <1>4
  <2>3. chanOf[u] # None => chanOf[u] \in Channels
    BY DEF MembershipAgrees
  <2> QED
    BY <2>1, <2>2, <2>3
<1>7. chanOf' = [u \in User |-> IF chanOf[u] \in Channels' \ emptied THEN chanOf[u]
                                ELSE None]
  <2>1. chanOf' = [u \in User |-> chanOf'[u]]
    BY DEF TypeOK
  <2> QED
    BY <1>6, <2>1
<1>8. Authorized' = Authorized
  BY <1>1 DEF Authorized
<1>9. R!Close(emptied)
  BY <1>5, <1>7, <1>8 DEF R!Close
<1> QED
  BY <1>9

LEMMA TreeImplements ==
    ASSUME Inv, Inv', TreeNext
    PROVE  R!Next
<1> USE DEF Inv
<1>1. ASSUME NEW u \in User, NEW k \in Channel, NEW p \in Channel,
             NEW n \in ChannelName, NEW permanent \in BOOLEAN, NEW hidden \in BOOLEAN,
             JoinNewChannel(u, k, p, n, permanent, hidden)
      PROVE  R!Next
  BY <1>1, JoiningNewImplements DEF R!Next
<1>2. ASSUME NEW u \in User, NEW k \in Channel, NEW p \in Channel,
             NEW n \in ChannelName, NEW permanent \in BOOLEAN, NEW hidden \in BOOLEAN,
             \/ JoinNewChannelFails(u, k, p, n, permanent, hidden)
             \/ \E max \in Capacity : MakeChannel(u, k, p, n, permanent, hidden, max)
      PROVE  R!Next
  <2>1. \E max \in Capacity :
            /\ u \in Authorized /\ CanMakeChannel(k, p, n)
            /\ chan' = [chan EXCEPT ![k] =
                           NewChannel(u, p, n, permanent, hidden, max, {})]
            /\ UNCHANGED <<ip, acct, admins, chanOf>>
    BY <1>2, LimitAssumption DEF JoinNewChannelFails, MakeChannel
  <2> QED
    BY <2>1, MakingImplements DEF R!Next
<1>3. ASSUME NEW u \in User, NEW k \in Channel, NEW n \in ChannelName \cup {None},
             NEW permanent \in BOOLEAN, NEW max \in Capacity,
             UpdateChannel(u, k, n, permanent, max)
      PROVE  R!Next
  <2> DEFINE new == [chan[k] EXCEPT !.name = n, !.permanent = permanent,
                                    !.maxusers = max]
  <2>1. k \in Channels /\ chan[k] \in ChannelState
    BY <1>3, ChannelsHaveStates DEF UpdateChannel
  <2>2. chan' = [chan EXCEPT ![k] = new] /\ UNCHANGED <<ip, acct, admins, chanOf>>
    BY <1>3, <2>1 DEF UpdateChannel, TypeOK, ChannelState
  <2>3. new \in ChannelState /\ new.parent = chan[k].parent
    BY <2>1 DEF ChannelState
  <2>4. new # None
    BY <2>3, NoneAssumption
  <2> HIDE DEF new
  <2> QED
    BY <2>1, <2>2, <2>3, <2>4, ChangingImplements DEF R!Next
<1>4. ASSUME NEW u \in User, NEW k \in Channel, NEW v \in User, NEW op \in BOOLEAN,
             ChannelOp(u, v, k, op)
      PROVE  R!Next
  <2> DEFINE ops == IF op THEN chan[k].ops \cup {v} ELSE chan[k].ops \ {v}
             new == [chan[k] EXCEPT !.ops = ops]
  <2>1. k \in Channels /\ chan[k] \in ChannelState
    BY <1>4, ChannelsHaveStates DEF ChannelOp
  <2>2. chan' = [chan EXCEPT ![k] = new] /\ UNCHANGED <<ip, acct, admins, chanOf>>
    BY <1>4, <2>1 DEF ChannelOp, TypeOK, ChannelState
  <2>3. ops \in SUBSET User
    BY <2>1 DEF ChannelState
  <2> HIDE DEF ops
  <2>4. new \in ChannelState /\ new.parent = chan[k].parent
    BY <2>1, <2>3 DEF ChannelState
  <2>5. new # None
    BY <2>4, NoneAssumption
  <2> HIDE DEF new
  <2> QED
    BY <2>1, <2>2, <2>4, <2>5, ChangingImplements DEF R!Next
<1>5. ASSUME NEW u \in User, NEW k \in Channel,
             RemoveChannel(u, k) \/ RemoveChannelFails(u, k)
      PROVE  R!Next
  <2>1. \A c \in Channels : Subtree(c) \subseteq Channels /\ CleanedAbove(c) \subseteq Channels
    BY SubtreeClosed, CleanedAboveClosed
  <2>2. CASE RemoveChannel(u, k)
    <3>1. \E Gone \in SUBSET Channels : RemoveSubtrees(Gone)
      <4>1. k \in Channels
        BY <2>2 DEF RemoveChannel
      <4>2. \/ RemoveSubtrees(Subtree(k) \cup CleanedAbove(k))
            \/ RemoveSubtrees(Subtree(k) \cup {})
        BY <2>2 DEF RemoveChannel
      <4>3. /\ Subtree(k) \cup CleanedAbove(k) \in SUBSET Channels
            /\ Subtree(k) \cup {} \in SUBSET Channels
        BY <2>1, <4>1
      <4> QED
        BY <4>2, <4>3
    <3> QED
      BY <3>1, RemovingImplements DEF R!Next
  <2>3. CASE RemoveChannelFails(u, k)
    <3>1. PICK Tops \in SUBSET Channels : RemoveSubtrees(UNION {Subtree(e) : e \in Tops})
      BY <2>3 DEF RemoveChannelFails, Subtree
    <3>2. UNION {Subtree(e) : e \in Tops} \in SUBSET Channels
      BY <2>1
    <3> QED
      BY <3>1, <3>2, RemovingImplements DEF R!Next
  <2> QED
    BY <1>5, <2>2, <2>3
<1> QED
  BY <1>1, <1>2, <1>3, <1>4, <1>5 DEF TreeNext

\* The server implements Rooms, its sessions the guests and its channels the rooms:
\* every handler, however much it calls, makes one step of Rooms or none. In
\* particular the channels that close by themselves are always those that Rooms asks
\* for, and nobody is put out by it.
THEOREM ServerImplementsRooms == Spec => ImplementsRooms
<1>1. Init => R!Init
  <2> SUFFICES ASSUME Init PROVE R!Init
    OBVIOUS
  <2>1. Authorized = {}
    BY DEF Init, Authorized
  <2>2. PICK max \in Capacity :
           chan = [c \in Channel |->
                     IF c = Root
                     THEN [parent |-> None, above |-> {}, name |-> None,
                           permanent |-> TRUE, hidden |-> FALSE, maxusers |-> max,
                           owner |-> None, users |-> {}, ops |-> {}]
                     ELSE None]
    BY DEF Init
  <2>3. Inv
    BY InitHasInv
  <2>4. chan[Root] # None /\ chan[Root].parent = None /\ chan[Root].permanent
    BY <2>2, <2>3, RootAssumption DEF Inv, TreeWellFormed, Channels
  <2>5. Channels = {Root}
    BY <2>2, <2>4, RootAssumption DEF Channels
  <2>6. ParentOf = [c \in Channel |-> None] /\ PermanentChannels = {Root}
    BY <2>4, <2>5 DEF ParentOf, PermanentChannels
  <2> QED
    BY <2>1, <2>5, <2>6 DEF Init, R!Init
<1>2. Inv /\ Inv' /\ [Next]_vars => [R!Next]_(R!vars)
  <2> SUFFICES ASSUME Inv, Inv', [Next]_vars PROVE R!Next \/ UNCHANGED R!vars
    OBVIOUS
  <2>1. CASE Next
    BY <2>1, SessionsImplement, MembersImplement, TreeImplements DEF Next
  <2>2. CASE UNCHANGED vars
    BY <2>2 DEF vars, R!vars, Authorized, Channels, ParentOf, PermanentChannels
  <2> QED
    BY <2>1, <2>2
<1> QED
  BY <1>1, <1>2, Consistent, PTL DEF Spec, ImplementsRooms, R!Spec

-----------------------------------------------------------------------------
(* Logins of an address. *)

LoginsOf(i) == {u \in Authorized : ip[u] = i /\ ~acct[u].admin}

\* No step but a login gives an address another session.
LEMMA OnlyLoginsAdd ==
    ASSUME Inv, Next,
           \A u \in User, a \in Account : ~Login(u, a)
    PROVE  \A v \in User : acct'[v] # None => acct'[v] = acct[v] /\ ip'[v] = ip[v]
<1> USE DEF Inv
<1>1. acct \in [User -> Account \cup {None}] /\ ip \in [User -> Ip \cup {None}]
  BY DEF TypeOK
<1>2. CASE SessionNext
  <2>1. ASSUME NEW u \in User, NEW i \in Ip, Connect(u, i)
        PROVE  \A v \in User : acct'[v] # None => acct'[v] = acct[v] /\ ip'[v] = ip[v]
    BY <1>1, <2>1 DEF Connect, MembersHaveSessions, Authorized
  <2>2. ASSUME NEW u \in User, NEW a \in Account, LoginRefusedAfterKick(u, a)
        PROVE  \A v \in User : acct'[v] # None => acct'[v] = acct[v] /\ ip'[v] = ip[v]
    BY <1>1, <2>2 DEF LoginRefusedAfterKick, Forget
  <2>3. ASSUME NEW u \in User,
               Logout(u) \/ Disconnect(u) \/ \E v \in User : KickFromServer(v, u)
        PROVE  \A v \in User : acct'[v] # None => acct'[v] = acct[v] /\ ip'[v] = ip[v]
    BY <1>1, <2>3 DEF Logout, Disconnect, KickFromServer, LogoutEffect, Authorized
  <2> QED
    BY <1>2, <2>1, <2>2, <2>3 DEF SessionNext
<1>3. CASE MemberNext
  <2>1. ASSUME NEW u, NEW c, UserLeaveChannel(u, c) \/ UserJoinChannel(u, c)
        PROVE  UNCHANGED <<ip, acct>>
    BY <2>1 DEF UserLeaveChannel, UserJoinChannel
  <2>2. UNCHANGED <<ip, acct>>
    BY <1>3, <2>1 DEF MemberNext, LeaveChannel, JoinChannel, MoveUser, KickFromChannel
  <2> QED
    BY <2>2
<1>4. CASE TreeNext
  <2>1. ASSUME NEW Gone, RemoveSubtrees(Gone) PROVE UNCHANGED <<ip, acct>>
    BY <2>1 DEF RemoveSubtrees
  <2>2. ASSUME NEW u, NEW c, RemoveChannel(u, c) \/ RemoveChannelFails(u, c)
        PROVE  UNCHANGED <<ip, acct>>
    BY <2>1, <2>2 DEF RemoveChannel, RemoveChannelFails
  <2>3. ASSUME NEW u, NEW c, NEW p, NEW n, NEW permanent, NEW hidden,
               \/ JoinNewChannel(u, c, p, n, permanent, hidden)
               \/ JoinNewChannelFails(u, c, p, n, permanent, hidden)
               \/ \E max \in Capacity : MakeChannel(u, c, p, n, permanent, hidden, max)
        PROVE  UNCHANGED <<ip, acct>>
    BY <2>3 DEF JoinNewChannel, JoinNewChannelFails, MakeChannel
  <2>4. ASSUME NEW u, NEW c, NEW n, NEW permanent, NEW max, NEW v, NEW op,
               UpdateChannel(u, c, n, permanent, max) \/ ChannelOp(u, v, c, op)
        PROVE  UNCHANGED <<ip, acct>>
    <3>1. UNCHANGED ip
      BY <2>4 DEF UpdateChannel, ChannelOp
    <3>2. UNCHANGED acct
      BY <2>4 DEF UpdateChannel, ChannelOp
    <3> QED
      BY <3>1, <3>2
  <2>5. UNCHANGED <<ip, acct>>
    BY <1>4, <2>2, <2>3, <2>4 DEF TreeNext
  <2> QED
    BY <2>5
<1> QED
  BY <1>2, <1>3, <1>4 DEF Next

\* Every step leaves the addresses within their limit.
LEMMA NextKeepsIpLimit == Inv /\ IpNotOverfull /\ [Next]_vars => IpNotOverfull'
<1> SUFFICES ASSUME Inv, IpNotOverfull, [Next]_vars, MaxLoginsPerIp # 0, NEW i \in Ip
             PROVE  Cardinality(LoginsOf(i)') <= MaxLoginsPerIp
  BY DEF IpNotOverfull, LoginsOf
<1>1. /\ IsFiniteSet(LoginsOf(i)) /\ Cardinality(LoginsOf(i)) \in Nat
      /\ Cardinality(LoginsOf(i)) <= MaxLoginsPerIp
  <2>1. LoginsOf(i) \subseteq User
    BY DEF LoginsOf, Authorized
  <2>2. IsFiniteSet(LoginsOf(i))
    BY <2>1, UserAssumption, FS_Subset
  <2> QED
    BY <2>2, FS_CardinalityType DEF IpNotOverfull, LoginsOf
<1>2. ASSUME LoginsOf(i)' \subseteq LoginsOf(i)
      PROVE  Cardinality(LoginsOf(i)') <= MaxLoginsPerIp
  <2>1. /\ Cardinality(LoginsOf(i)') <= Cardinality(LoginsOf(i))
        /\ IsFiniteSet(LoginsOf(i)')
    BY <1>1, <1>2, FS_Subset
  <2>2. Cardinality(LoginsOf(i)') \in Nat
    BY <2>1, FS_CardinalityType
  <2> QED
    BY <1>1, <2>1, <2>2, LimitAssumption
<1>3. CASE Next /\ \A u \in User, a \in Account : ~Login(u, a)
  BY <1>2, <1>3, OnlyLoginsAdd DEF LoginsOf, Authorized
<1>4. ASSUME NEW u \in User, NEW a \in Account, Login(u, a)
      PROVE  Cardinality(LoginsOf(i)') <= MaxLoginsPerIp
  <2> DEFINE K == KickedByLogin(a)
             others == {v \in Authorized \ K : ip[v] = ip[u]}
  <2>1. /\ u \notin Authorized /\ IpHasRoom(u, a) /\ ip' = ip
        /\ acct' = [Forget(acct, K, None) EXCEPT ![u] = a]
    BY <1>4 DEF Login
  <2>2. /\ acct'[u] = a
        /\ \A v \in User \ {u} : acct'[v] = IF v \in K THEN None ELSE acct[v]
    BY <2>1 DEF Forget
  <2>3. CASE i # ip[u] \/ a.admin
    BY <1>2, <2>1, <2>2, <2>3 DEF LoginsOf, Authorized
  <2>4. CASE i = ip[u] /\ ~a.admin
    <3>1. Cardinality(others) + 1 <= MaxLoginsPerIp
      BY <2>1, <2>4 DEF IpHasRoom
    <3>2. LoginsOf(i)' \subseteq others \cup {u}
      BY <2>1, <2>2, <2>4 DEF LoginsOf, Authorized
    <3>3. others \subseteq User /\ u \notin others
      BY <2>1 DEF Authorized
    <3> HIDE DEF others
    <3>4. IsFiniteSet(others) /\ Cardinality(others) \in Nat
      BY <3>3, UserAssumption, FS_Subset, FS_CardinalityType
    <3>5. IsFiniteSet(others \cup {u})
          /\ Cardinality(others \cup {u}) = Cardinality(others) + 1
      BY <3>3, <3>4, FS_AddElement
    <3>6. /\ Cardinality(LoginsOf(i)') <= Cardinality(others \cup {u})
          /\ IsFiniteSet(LoginsOf(i)')
      BY <3>2, <3>5, FS_Subset
    <3>7. Cardinality(LoginsOf(i)') \in Nat
      BY <3>6, FS_CardinalityType
    <3> QED
      BY <3>1, <3>4, <3>5, <3>6, <3>7, LimitAssumption
  <2> QED
    BY <2>3, <2>4
<1>5. CASE UNCHANGED vars
  BY <1>2, <1>5 DEF vars, LoginsOf, Authorized
<1> QED
  BY <1>3, <1>4, <1>5

\* No address ever has more sessions than the limit, although the sessions that a
\* login kicks count until they are gone (ServerNode.cpp:2700-2735).
THEOREM AddressesKeepTheirLimit == Spec => []IpNotOverfull
<1>1. Init => IpNotOverfull
  <2> SUFFICES ASSUME Init, NEW i \in Ip PROVE Cardinality(LoginsOf(i)) <= MaxLoginsPerIp
    BY DEF IpNotOverfull, LoginsOf
  <2>1. LoginsOf(i) = {}
    BY DEF Init, LoginsOf, Authorized
  <2> QED
    BY <2>1, FS_EmptySet, LimitAssumption
<1>2. Inv /\ IpNotOverfull /\ [Next]_vars => IpNotOverfull'
  BY NextKeepsIpLimit
<1> QED
  BY <1>1, <1>2, Consistent, PTL DEF Spec
=============================================================================
