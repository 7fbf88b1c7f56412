-------------------------- MODULE ServerViewsProofs --------------------------
(***************************************************************************)
(* Proofs, for every set of users, accounts and channels, of what the      *)
(* server's notifications promise its clients.                             *)
(***************************************************************************)
EXTENDS ServerViews, ServerNodeProofs

\* What a step leaves alone and a client is therefore never told again: whether a
\* channel is hidden, and the account of a user who stays logged in.
KeepsHidden(t) ==
    \A c \in Channel : chan[c] # None /\ t[c] # None => t[c].hidden = chan[c].hidden
KeepsAccounts(a) ==
    \A w \in User : acct[w] # None /\ a[w] # None => a[w] = acct[w]

-----------------------------------------------------------------------------
(* No handler hides or shows a channel, or changes the account of a session. *)

\* Leaving and removing channels does not hide or show those that stay.
LEMMA PruningKeepsHidden ==
    ASSUME TypeOK, NEW K, NEW Gone
    PROVE  /\ KeepsHidden(Without(K, Gone))
           /\ KeepsHidden(DeOpAll(K, Without(K, Gone)))
           /\ Without(K, Gone) \in TreeType
<1> DEFINE t == Without(K, Gone)
<1>1. /\ t \in TreeType
      /\ \A c \in Channel : t[c] # None <=> c \in Channels \ Gone
      /\ \A c \in Channels \ Gone : t[c].hidden = chan[c].hidden
  BY WithoutIs DEF SameFrame
<1> HIDE DEF t
<1>2. /\ \A c \in Channel : DeOpAll(K, t)[c] # None <=> t[c] # None
      /\ \A c \in Channel : t[c] # None => DeOpAll(K, t)[c].hidden = t[c].hidden
  BY <1>1, DeOpAllIs DEF SameFrame
<1>3. KeepsHidden(t) /\ KeepsHidden(DeOpAll(K, t))
  BY <1>1, <1>2 DEF KeepsHidden
<1> QED
  BY <1>1, <1>3 DEF t

\* Nor does changing a channel in any other way, nor making one.
LEMMA SettingKeepsHidden ==
    ASSUME NEW t \in TreeType, KeepsHidden(t), NEW c \in Channel, NEW new,
           chan[c] # None => t[c] # None /\ new.hidden = t[c].hidden
    PROVE  KeepsHidden([t EXCEPT ![c] = new])
BY DEF KeepsHidden, TreeType

\* UserJoinChannel keeps both.
LEMMA JoinKeeps ==
    ASSUME Inv, NEW u \in Authorized, NEW c, UserJoinChannel(u, c)
    PROVE  KeepsHidden(chan')
<1> DEFINE tree == IF chanOf[u] = None THEN chan ELSE Without({u}, Cleaned({u}, c))
           users == tree[c].users \cup {u}
           ops == IF IsOwner(u, c) \/ IsAutoOperator(u, c)
                  THEN tree[c].ops \cup {u} ELSE tree[c].ops
           new == [tree[c] EXCEPT !.users = users, !.ops = ops]
<1>1. u \in User /\ c \in Channels /\ c \in Channel
  BY DEF Authorized, UserJoinChannel, Channels
<1>2. tree[c] # None
  BY <1>1, LeftForJoinIsOrderly
<1>3. tree \in TreeType /\ KeepsHidden(tree)
  BY PruningKeepsHidden DEF Inv, TypeOK, TreeType, KeepsHidden
<1>4. chan' = [tree EXCEPT ![c].users = @ \cup {u},
                           ![c].ops = IF IsOwner(u, c) \/ IsAutoOperator(u, c)
                                      THEN @ \cup {u} ELSE @]
  BY DEF UserJoinChannel
<1> HIDE DEF tree
<1>5. tree[c] \in ChannelState
  BY <1>1, <1>2, <1>3 DEF TreeType
<1>6. chan' = [tree EXCEPT ![c] = new]
  BY <1>1, <1>3, <1>4, <1>5 DEF TreeType, ChannelState
<1> HIDE DEF users, ops
<1>7. new.hidden = tree[c].hidden
  BY <1>5 DEF ChannelState
<1> HIDE DEF new
<1> QED
  BY <1>1, <1>2, <1>3, <1>6, <1>7, SettingKeepsHidden

\* Every step of the server keeps both.
LEMMA StepKeeps ==
    ASSUME Inv, Next
    PROVE  KeepsHidden(chan') /\ KeepsAccounts(acct')
<1> USE DEF Inv
<1>1. chan \in TreeType /\ KeepsHidden(chan) /\ acct \in [User -> Account \cup {None}]
  BY DEF TypeOK, TreeType, KeepsHidden
<1>2. ASSUME UNCHANGED acct PROVE KeepsAccounts(acct')
  BY <1>2 DEF KeepsAccounts
<1>3. ASSUME NEW K \in SUBSET User, chan' = LoggedOut(K) PROVE KeepsHidden(chan')
  BY <1>3, PruningKeepsHidden DEF LoggedOut
<1>4. ASSUME NEW u \in User, LogoutEffect(u)
      PROVE  KeepsHidden(chan') /\ KeepsAccounts(acct')
  BY <1>1, <1>3, <1>4 DEF LogoutEffect, KeepsAccounts
<1>5. CASE SessionNext
  <2>1. ASSUME NEW u \in User, NEW i \in Ip, Connect(u, i)
        PROVE  KeepsHidden(chan') /\ KeepsAccounts(acct')
    BY <1>1, <1>2, <2>1 DEF Connect
  <2>2. ASSUME NEW u \in User, NEW a \in Account,
               Login(u, a) \/ LoginRefusedAfterKick(u, a)
        PROVE  KeepsHidden(chan') /\ KeepsAccounts(acct')
    <3>1. KickedByLogin(a) \in SUBSET User
      BY DEF KickedByLogin, SameUsername, Authorized
    <3>2. acct[u] = None /\ chan' = LoggedOut(KickedByLogin(a))
      BY <2>2 DEF Login, LoginRefusedAfterKick, Authorized
    <3>3. \A w \in User \ {u} : acct'[w] \in {None, acct[w]}
      BY <1>1, <2>2 DEF Login, LoginRefusedAfterKick, Forget
    <3> QED
      BY <1>3, <3>1, <3>2, <3>3 DEF KeepsAccounts
  <2>3. ASSUME NEW u \in User, Logout(u) \/ Disconnect(u)
                                 \/ \E v \in User : KickFromServer(v, u)
        PROVE  KeepsHidden(chan') /\ KeepsAccounts(acct')
    BY <1>1, <1>2, <1>4, <2>3 DEF Logout, Disconnect, KickFromServer
  <2> QED
    BY <1>5, <2>1, <2>2, <2>3 DEF SessionNext
<1>6. CASE MemberNext
  <2>1. ASSUME NEW u \in User, NEW c, UserLeaveChannel(u, c)
        PROVE  KeepsHidden(chan') /\ KeepsAccounts(acct')
    BY <1>2, <2>1, PruningKeepsHidden DEF UserLeaveChannel
  <2>2. ASSUME NEW u \in Authorized, NEW c, UserJoinChannel(u, c)
        PROVE  KeepsHidden(chan') /\ KeepsAccounts(acct')
    BY <1>2, <2>2, JoinKeeps DEF UserJoinChannel
  <2> QED
    BY <1>6, <2>1, <2>2
       DEF MemberNext, LeaveChannel, JoinChannel, MoveUser, KickFromChannel, Finds
<1>7. CASE TreeNext
  <2>1. ASSUME NEW u \in User, NEW c \in Channel, NEW p \in Channel,
               NEW n \in ChannelName, NEW permanent \in BOOLEAN, NEW hidden \in BOOLEAN,
               \/ JoinNewChannel(u, c, p, n, permanent, hidden)
               \/ JoinNewChannelFails(u, c, p, n, permanent, hidden)
               \/ \E max \in Capacity : MakeChannel(u, c, p, n, permanent, hidden, max)
        PROVE  KeepsHidden(chan') /\ KeepsAccounts(acct')
    <3> DEFINE tree == IF chanOf[u] = None THEN chan ELSE Without({u}, Cleaned({u}, p))
    <3>1. chan[c] = None /\ UNCHANGED acct
      BY <2>1 DEF JoinNewChannel, JoinNewChannelFails, MakeChannel, CanMakeChannel,
                  Channels
    <3>2. tree \in TreeType /\ KeepsHidden(tree)
      BY <1>1, PruningKeepsHidden
    <3>3. \E new : \/ chan' = [tree EXCEPT ![c] = new]
                   \/ chan' = [chan EXCEPT ![c] = new]
      BY <2>1 DEF JoinNewChannel, JoinNewChannelFails, MakeChannel
    <3> HIDE DEF tree
    <3> QED
      BY <1>1, <1>2, <3>1, <3>2, <3>3, SettingKeepsHidden
  <2>2. ASSUME NEW u \in User, NEW c \in Channel, NEW n \in ChannelName \cup {None},
               NEW permanent \in BOOLEAN, NEW max \in Capacity,
               UpdateChannel(u, c, n, permanent, max)
        PROVE  KeepsHidden(chan') /\ KeepsAccounts(acct')
    <3> DEFINE new == [chan[c] EXCEPT !.name = n, !.permanent = permanent,
                                      !.maxusers = max]
    <3>1. c \in Channels /\ chan[c] \in ChannelState /\ UNCHANGED acct
      BY <2>2, ChannelsHaveStates DEF UpdateChannel
    <3>2. new.hidden = chan[c].hidden
      BY <3>1 DEF ChannelState
    <3>3. chan' = [chan EXCEPT ![c] = new]
      BY <2>2, <3>1 DEF UpdateChannel, TypeOK, ChannelState
    <3> HIDE DEF new
    <3> QED
      BY <1>1, <1>2, <3>1, <3>2, <3>3, SettingKeepsHidden
  <2>3. ASSUME NEW u \in User, NEW c \in Channel, NEW v \in User, NEW op \in BOOLEAN,
               ChannelOp(u, v, c, op)
        PROVE  KeepsHidden(chan') /\ KeepsAccounts(acct')
    <3> DEFINE ops == IF op THEN chan[c].ops \cup {v} ELSE chan[c].ops \ {v}
               new == [chan[c] EXCEPT !.ops = ops]
    <3>1. c \in Channels /\ chan[c] \in ChannelState /\ UNCHANGED acct
      BY <2>3, ChannelsHaveStates DEF ChannelOp
    <3>2. chan' = [chan EXCEPT ![c] = new]
      BY <2>3, <3>1 DEF ChannelOp
    <3> HIDE DEF ops
    <3>3. new.hidden = chan[c].hidden
      BY <3>1 DEF ChannelState
    <3> HIDE DEF new
    <3> QED
      BY <1>1, <1>2, <3>1, <3>2, <3>3, SettingKeepsHidden
  <2>4. ASSUME NEW Gone, RemoveSubtrees(Gone)
        PROVE  KeepsHidden(chan') /\ KeepsAccounts(acct')
    BY <1>2, <2>4, PruningKeepsHidden DEF RemoveSubtrees
  <2>5. ASSUME NEW u \in User, NEW c \in Channel,
               RemoveChannel(u, c) \/ RemoveChannelFails(u, c)
        PROVE  \E Gone : RemoveSubtrees(Gone)
    BY <2>5 DEF RemoveChannel, RemoveChannelFails
  <2> QED
    BY <1>7, <2>1, <2>2, <2>3, <2>4, <2>5 DEF TreeNext
<1> QED
  BY <1>5, <1>6, <1>7 DEF Next

-----------------------------------------------------------------------------
(* What the client's handlers do to its view. *)

\* HandleAddChannel changes what is known.
LEMMA AddChannelsIs ==
    ASSUME NEW v \in View, NEW C \in SUBSET Channel
    PROVE  /\ HandleAddChannels(v, C) \in View
           /\ HandleAddChannels(v, C).known = v.known \cup C
           /\ HandleAddChannels(v, C).listed = v.listed
           /\ HandleAddChannels(v, C).placed = v.placed
BY DEF HandleAddChannels, View

\* HandleRemoveChannel changes what is known, and the users placed there.
LEMMA RemoveChannelsIs ==
    ASSUME NEW v \in View, NEW C \in SUBSET Channel
    PROVE  /\ HandleRemoveChannels(v, C) \in View
           /\ HandleRemoveChannels(v, C).known = v.known \ C
           /\ HandleRemoveChannels(v, C).listed = v.listed
           /\ \A u \in User : HandleRemoveChannels(v, C).placed[u] =
                   IF v.placed[u] \in C THEN None ELSE v.placed[u]
BY DEF HandleRemoveChannels, View

\* HandleRemoveUser places users nowhere.
LEMMA RemoveUsersIs ==
    ASSUME NEW v \in View, NEW K \in SUBSET User
    PROVE  /\ HandleRemoveUsers(v, K) \in View
           /\ HandleRemoveUsers(v, K).known = v.known
           /\ HandleRemoveUsers(v, K).listed = v.listed
           /\ \A u \in User : HandleRemoveUsers(v, K).placed[u] =
                   IF u \in K THEN None ELSE v.placed[u]
BY DEF HandleRemoveUsers, View

\* HandleAddUser places users in channels that are known.
LEMMA AddUsersIs ==
    ASSUME NEW v, NEW K, NEW to,
           v \in View, K \in SUBSET User, to \in [User -> Channel \cup {None}]
    PROVE  /\ HandleAddUsers(v, K, to) \in View
           /\ HandleAddUsers(v, K, to).known = v.known
           /\ HandleAddUsers(v, K, to).listed = v.listed
           /\ \A u \in User : HandleAddUsers(v, K, to).placed[u] =
                   IF u \in K /\ to[u] \in v.known THEN to[u] ELSE v.placed[u]
BY DEF HandleAddUsers, View

\* HandleLoggedIn and HandleLoggedOut change who is listed.
LEMMA LoggedInOutIs ==
    ASSUME NEW v, NEW In, NEW Out,
           v \in View, In \in SUBSET User, Out \in SUBSET User
    PROVE  /\ HandleLoggedInOut(v, In, Out) \in View
           /\ HandleLoggedInOut(v, In, Out).known = v.known
           /\ HandleLoggedInOut(v, In, Out).listed = (v.listed \ Out) \cup In
           /\ HandleLoggedInOut(v, In, Out).placed = v.placed
BY DEF HandleLoggedInOut, View

\* A client that is logged out believes nothing.
LEMMA BlankIs ==
    /\ Blank \in View
    /\ Blank.known = {} /\ Blank.listed = {}
    /\ \A u \in User : Blank.placed[u] = None
BY DEF Blank, View

-----------------------------------------------------------------------------
(* What a user's client should believe, as a predicate of its view. *)

Visible(w) == {c \in Channels : SeesChannel(w, c) \/ chanOf[w] = c}

KnowsRightly(w, v) ==
    /\ Visible(w) \subseteq v.known
    /\ \A c \in v.known \ Visible(w) :
          ~Has(w, "VIEW_ALL_USERS") /\ c \notin Channels
ListsRightly(w, v) ==
    v.listed = IF Has(w, "VIEW_ALL_USERS") THEN Authorized ELSE {}
PlacesRightly(w, v) ==
    \A u \in User :
        v.placed[u] = IF chanOf[u] # None /\ HearsOfUsers(w, chanOf[u])
                      THEN chanOf[u] ELSE None
Rightly(w, v) ==
    v \in View /\ KnowsRightly(w, v) /\ ListsRightly(w, v) /\ PlacesRightly(w, v)

ViewInv ==
    /\ Inv
    /\ ViewOK
    /\ \A w \in Authorized : Rightly(w, view[w])

\* What UserLogin forwards is all a user who is in no channel should know.
ForwardsAll ==
    \A w \in Authorized :
        chanOf[w] = None => Rightly(w, ForwardUsers(w, ForwardChannels(w)))

\* UserLogin does so in every state that satisfies the server's invariant.
LEMMA LoginTellsAll == Inv => ForwardsAll
<1> SUFFICES ASSUME Inv, NEW w \in Authorized, chanOf[w] = None
             PROVE  Rightly(w, ForwardUsers(w, ForwardChannels(w)))
  BY DEF ForwardsAll
<1> DEFINE seen == {c \in Channels : SeesChannel(w, c)}
           v == ForwardChannels(w)
           listing == HandleLoggedInOut(v, Authorized, {})
           in == UsersIn(seen)
<1>1. seen \in SUBSET Channel /\ Authorized \in SUBSET User
  BY DEF Channels, Authorized
<1>2. v = HandleAddChannels(Blank, seen)
  BY DEF ForwardChannels
<1>3. /\ v \in View /\ v.known = seen /\ v.listed = {}
      /\ \A u \in User : v.placed[u] = None
  BY <1>1, <1>2, BlankIs, AddChannelsIs
<1>4. Visible(w) = seen /\ None \notin Channels
  BY NoneAssumption DEF Visible, Channels
<1>5. chanOf \in [User -> Channel \cup {None}]
  BY DEF Inv, TypeOK
<1>6. in \in SUBSET User /\ \A u \in User : u \in in <=> chanOf[u] \in seen
  BY <1>4, ChannelsHaveStates DEF Inv, UsersIn, MembershipAgrees
<1>7. ForwardUsers(w, v) = IF Has(w, "VIEW_ALL_USERS")
                           THEN HandleAddUsers(listing, in, chanOf) ELSE v
  BY DEF ForwardUsers
<1> HIDE DEF v, in
<1>8. /\ listing \in View /\ listing.known = seen /\ listing.listed = Authorized
      /\ \A u \in User : listing.placed[u] = None
  <2>1. v \in View /\ Authorized \in SUBSET User /\ {} \in SUBSET User
    BY <1>1, <1>3
  <2>2. /\ listing \in View /\ listing.known = v.known
        /\ listing.listed = (v.listed \ {}) \cup Authorized
        /\ listing.placed = v.placed
    BY <2>1, LoggedInOutIs
  <2> HIDE DEF listing
  <2> QED
    BY <1>3, <2>2
<1> HIDE DEF listing
<1>9. CASE Has(w, "VIEW_ALL_USERS")
  <2> DEFINE n == HandleAddUsers(listing, in, chanOf)
  <2>1. /\ n \in View /\ n.known = seen /\ n.listed = Authorized
        /\ \A u \in User : n.placed[u] =
              IF u \in in /\ chanOf[u] \in seen THEN chanOf[u] ELSE None
    BY <1>5, <1>6, <1>8, AddUsersIs
  <2> HIDE DEF n, seen
  <2>2. \A u \in User : chanOf[u] # None =>
            (HearsOfUsers(w, chanOf[u]) <=> chanOf[u] \in seen)
    BY <1>9 DEF seen, HearsOfUsers, Watches, Inv, MembershipAgrees
  <2>3. Rightly(w, n)
    BY <1>4, <1>6, <1>9, <2>1, <2>2
       DEF Rightly, KnowsRightly, ListsRightly, PlacesRightly, Channels
  <2> QED
    BY <1>7, <1>9, <2>3 DEF n, v
<1>10. CASE ~Has(w, "VIEW_ALL_USERS")
  <2>1. \A u \in User : chanOf[u] # None => ~HearsOfUsers(w, chanOf[u])
    BY <1>10 DEF HearsOfUsers, Watches
  <2>2. Rightly(w, v)
    BY <1>3, <1>4, <1>10, <2>1
       DEF Rightly, KnowsRightly, ListsRightly, PlacesRightly
  <2> QED
    BY <1>7, <1>10, <2>2 DEF v
<1> QED
  BY <1>9, <1>10

\* The view of a user who stays logged in, after the commands of a step.
LEMMA StayingIs ==
    ASSUME Inv, Inv', Notify, view \in [User -> View], NEW w \in Authorized,
           w \in Authorized'
    PROVE  /\ view'[w] \in View
           /\ view'[w].known =
                 ((view[w].known \cup ToldMade(w))
                     \ (HiddenAgain(w) \cup ToldRemoved(w))) \cup ToldEntered(w)
           /\ view'[w].listed =
                 (view[w].listed \ ToldLoggedOut(w)) \cup ToldLoggedIn(w)
           /\ \A u \in User : view'[w].placed[u] =
                 IF u \in ToldJoined(w) /\ chanOf'[u] \in view'[w].known
                 THEN chanOf'[u]
                 ELSE IF \/ u \in ToldLeft(w)
                         \/ view[w].placed[u] \in HiddenAgain(w) \cup ToldRemoved(w)
                 THEN None
                 ELSE view[w].placed[u]
           /\ AfterEntered(w).known = view'[w].known
           /\ \A u \in User : AfterLeft(w).placed[u] =
                 IF \/ u \in ToldLeft(w)
                    \/ view[w].placed[u] \in HiddenAgain(w) \cup ToldRemoved(w)
                 THEN None
                 ELSE view[w].placed[u]
<1>1. w \in User
  BY DEF Authorized
<1>2. view'[w] = HandleAddUsers(AfterEntered(w), ToldJoined(w), chanOf')
  BY <1>1 DEF Notify
<1>3. chanOf' \in [User -> Channel \cup {None}] /\ None \notin Channel
  BY NoneAssumption DEF Inv, TypeOK
<1>4. /\ ToldMade(w) \in SUBSET Channel
      /\ ToldLeft(w) \in SUBSET User
      /\ HiddenAgain(w) \cup ToldRemoved(w) \in SUBSET Channel
      /\ ToldLoggedIn(w) \in SUBSET User /\ ToldLoggedOut(w) \in SUBSET User
      /\ ToldEntered(w) \in SUBSET Channel
      /\ ToldJoined(w) \in SUBSET User
  BY DEF ToldMade, ToldLeft, HiddenAgain, ToldRemoved, ToldLoggedIn, ToldLoggedOut,
         ToldEntered, ToldJoined, Leavers, Joiners, Authorized, Channels
<1> DEFINE gone == HiddenAgain(w) \cup ToldRemoved(w)
           v0 == view[w]
           v1 == AfterMade(w)
           v2 == HandleRemoveUsers(v1, ToldLeft(w))
           v3 == AfterLeft(w)
           v4 == HandleLoggedInOut(v3, ToldLoggedIn(w), ToldLoggedOut(w))
           v5 == AfterEntered(w)
<1>5. /\ v0 \in View
      /\ v1 = HandleAddChannels(v0, ToldMade(w))
      /\ v3 = HandleRemoveChannels(v2, gone)
      /\ v2 = HandleRemoveUsers(v1, ToldLeft(w))
      /\ v4 = HandleLoggedInOut(v3, ToldLoggedIn(w), ToldLoggedOut(w))
      /\ v5 = HandleAddChannels(v4, ToldEntered(w))
      /\ view'[w] = HandleAddUsers(v5, ToldJoined(w), chanOf')
  BY <1>1, <1>2 DEF AfterMade, AfterLeft, AfterEntered
<1> HIDE DEF v1, v2, v3, v4, v5
<1>6. /\ v1 \in View /\ v1.known = v0.known \cup ToldMade(w)
      /\ v1.listed = v0.listed /\ v1.placed = v0.placed
  BY <1>4, <1>5, AddChannelsIs
<1>7. /\ v2 \in View /\ v2.known = v1.known /\ v2.listed = v1.listed
      /\ \A u \in User :
            v2.placed[u] = IF u \in ToldLeft(w) THEN None ELSE v1.placed[u]
  BY <1>4, <1>5, <1>6, RemoveUsersIs
<1>8. /\ v3 \in View /\ v3.known = v2.known \ gone /\ v3.listed = v2.listed
      /\ \A u \in User :
            v3.placed[u] = IF v2.placed[u] \in gone THEN None ELSE v2.placed[u]
  BY <1>4, <1>5, <1>7, RemoveChannelsIs
<1>9. /\ v4 \in View /\ v4.known = v3.known /\ v4.placed = v3.placed
      /\ v4.listed = (v3.listed \ ToldLoggedOut(w)) \cup ToldLoggedIn(w)
  <2>1. /\ v3 \in View
        /\ ToldLoggedIn(w) \in SUBSET User /\ ToldLoggedOut(w) \in SUBSET User
    BY <1>4, <1>8
  <2> DEFINE x == HandleLoggedInOut(v3, ToldLoggedIn(w), ToldLoggedOut(w))
  <2>2. /\ x \in View /\ x.known = v3.known /\ x.placed = v3.placed
        /\ x.listed = (v3.listed \ ToldLoggedOut(w)) \cup ToldLoggedIn(w)
    BY <2>1, LoggedInOutIs
  <2> HIDE DEF x
  <2>3. v4 = x
    BY <1>5 DEF x
  <2> QED
    BY <2>2, <2>3
<1>10. /\ v5 \in View /\ v5.known = v4.known \cup ToldEntered(w)
       /\ v5.listed = v4.listed /\ v5.placed = v4.placed
  BY <1>4, <1>5, <1>9, AddChannelsIs
<1>11. /\ view'[w] \in View /\ view'[w].known = v5.known
       /\ view'[w].listed = v5.listed
       /\ \A u \in User : view'[w].placed[u] =
             IF u \in ToldJoined(w) /\ chanOf'[u] \in v5.known
             THEN chanOf'[u] ELSE v5.placed[u]
  BY <1>3, <1>4, <1>5, <1>10, AddUsersIs
<1>12. None \notin gone
  BY <1>3, <1>4
<1> QED
  BY <1>6, <1>7, <1>8, <1>9, <1>10, <1>11, <1>12 DEF v3, v5

\* The facts of a step that decide what a client should believe after it.
LEMMA StepFacts ==
    ASSUME Inv, Inv', Next, NEW w \in Authorized, w \in Authorized'
    PROVE  /\ \A right : Has(w, right)' <=> Has(w, right)
           /\ \A c \in Channels : c \in Channels' =>
                 /\ SeesChannel(w, c)' <=> SeesChannel(w, c)
                 /\ Watches(w, c)' <=> Watches(w, c)
           /\ \A u \in User : chanOf[u] # None => chanOf[u] \in Channels
           /\ \A u \in User : chanOf'[u] # None => chanOf'[u] \in Channels'
<1>1. /\ w \in User /\ acct'[w] = acct[w]
      /\ \A c \in Channels : c \in Channels' => chan'[c].hidden = chan[c].hidden
  BY StepKeeps DEF KeepsHidden, KeepsAccounts, Authorized, Channels
<1>2. \A right : Has(w, right)' <=> Has(w, right)
  BY <1>1 DEF Has
<1> QED
  BY <1>1, <1>2 DEF SeesChannel, Watches, Has, Inv, MembershipAgrees

\* Who stays logged in goes on knowing the right channels.
LEMMA StayingKnowsRightly ==
    ASSUME Inv, Inv', Next, Notify, HiddenIdsFresh, view \in [User -> View],
           NEW w \in Authorized, w \in Authorized', KnowsRightly(w, view[w])
    PROVE  KnowsRightly(w, view[w])'
<1> DEFINE known == view[w].known
           after == view'[w].known
<1>1. after = ((known \cup ToldMade(w)) \ (HiddenAgain(w) \cup ToldRemoved(w)))
                 \cup ToldEntered(w)
  BY StayingIs
<1>2. /\ \A c \in Channels : SeesChannel(w, c) \/ chanOf[w] = c => c \in known
      /\ \A c \in known : (c \in Channels /\ (SeesChannel(w, c) \/ chanOf[w] = c))
                            \/ (~Has(w, "VIEW_ALL_USERS") /\ c \notin Channels)
  BY DEF KnowsRightly, Visible
<1>3. w \in User /\ known \subseteq Channel /\ None \notin Channel
      /\ Channels \subseteq Channel /\ Channels' \subseteq Channel
  BY NoneAssumption DEF Authorized, View, Channels
<1> HIDE DEF known, after
<1>4. ASSUME NEW c \in Channels', SeesChannel(w, c)' \/ chanOf'[w] = c
      PROVE  c \in after
  <2>1. c \in Channel
    BY DEF Channels
  <2>2. CASE c \notin Channels
    <3>1. CASE SeesChannel(w, c)'
      BY <1>1, <2>1, <2>2, <3>1 DEF ToldMade, HiddenAgain, ToldRemoved, Channels
    <3>2. CASE ~SeesChannel(w, c)' /\ chanOf'[w] = c
      BY <1>1, <1>3, <2>1, <2>2, <3>2, StepFacts DEF ToldEntered, Joiners
    <3> QED
      BY <1>4, <3>1, <3>2
  <2>3. CASE c \in Channels /\ SeesChannel(w, c)
    BY <1>1, <1>2, <2>3 DEF HiddenAgain, ToldRemoved, Channels
  <2>4. CASE c \in Channels /\ ~SeesChannel(w, c)
    <3>1. ~SeesChannel(w, c)' /\ chanOf'[w] = c
      BY <1>4, <2>4, StepFacts
    <3>2. CASE chanOf[w] = c
      BY <1>1, <1>2, <1>3, <2>4, <3>1, <3>2
         DEF HiddenAgain, ToldRemoved, Leavers, Channels
    <3>3. CASE chanOf[w] # c
      BY <1>1, <1>3, <2>1, <3>1, <3>3, NoneAssumption DEF ToldEntered, Joiners
    <3> QED
      BY <3>2, <3>3
  <2> QED
    BY <2>2, <2>3, <2>4
<1>5. ASSUME NEW c \in after
      PROVE  \/ c \in Channels' /\ (SeesChannel(w, c)' \/ chanOf'[w] = c)
             \/ ~Has(w, "VIEW_ALL_USERS")' /\ c \notin Channels'
  <2>1. CASE c \in ToldEntered(w)
    BY <2>1, StepFacts DEF ToldEntered, Joiners
  <2>2. CASE c \in ToldMade(w)
    BY <2>2 DEF ToldMade, Channels
  <2>3. CASE c \in known /\ c \notin ToldMade(w)
             /\ c \notin HiddenAgain(w) \cup ToldRemoved(w)
    <3>1. CASE c \in Channels /\ c \in Channels'
      BY <1>2, <1>3, <2>3, <3>1, StepFacts DEF HiddenAgain, Leavers
    <3>2. CASE c \in Channels /\ c \notin Channels'
      BY <1>2, <1>3, <2>3, <3>2, StepFacts
         DEF HiddenAgain, ToldRemoved, Leavers, Channels, SeesChannel
    <3>3. CASE c \notin Channels /\ c \in Channels'
      BY <1>3, <2>3, <3>3 DEF HiddenIdsFresh, ToldMade, SeesChannel, Channels, known
    <3>4. CASE c \notin Channels /\ c \notin Channels'
      BY <1>2, <2>3, <3>4, StepFacts
    <3> QED
      BY <3>1, <3>2, <3>3, <3>4
  <2> QED
    BY <1>1, <2>1, <2>2, <2>3
<1> QED
  BY <1>4, <1>5 DEF KnowsRightly, Visible, after
\* Who stays logged in goes on listing the right users.
LEMMA StayingListsRightly ==
    ASSUME Inv, Inv', Next, Notify, view \in [User -> View],
           NEW w \in Authorized, w \in Authorized', ListsRightly(w, view[w])
    PROVE  ListsRightly(w, view[w])'
<1> DEFINE listed == view[w].listed
           after == view'[w].listed
<1>1. after = (listed \ ToldLoggedOut(w)) \cup ToldLoggedIn(w)
  BY StayingIs
<1>2. listed = IF Has(w, "VIEW_ALL_USERS") THEN Authorized ELSE {}
  BY DEF ListsRightly
<1>3. Has(w, "VIEW_ALL_USERS")' <=> Has(w, "VIEW_ALL_USERS")
  BY StepFacts
<1> HIDE DEF listed, after
<1>4. after = IF Has(w, "VIEW_ALL_USERS")' THEN Authorized' ELSE {}
  BY <1>1, <1>2, <1>3 DEF ToldLoggedOut, ToldLoggedIn, Authorized
<1> QED
  BY <1>4 DEF ListsRightly, after

\* Who stays logged in goes on placing users rightly.
LEMMA StayingPlacesRightly ==
    ASSUME Inv, Inv', Next, Notify, view \in [User -> View],
           NEW w \in Authorized, w \in Authorized', PlacesRightly(w, view[w]),
           KnowsRightly(w, view[w])'
    PROVE  PlacesRightly(w, view[w])'
<1> DEFINE known == view'[w].known
           gone == HiddenAgain(w) \cup ToldRemoved(w)
<1> SUFFICES ASSUME NEW u \in User
             PROVE  view'[w].placed[u] =
                       IF chanOf'[u] # None /\ HearsOfUsers(w, chanOf[u])'
                       THEN chanOf'[u] ELSE None
  BY DEF PlacesRightly
<1> DEFINE before == view[w].placed[u]
           after == view'[w].placed[u]
<1>1. after = IF u \in ToldJoined(w) /\ chanOf'[u] \in known THEN chanOf'[u]
              ELSE IF u \in ToldLeft(w) \/ before \in gone THEN None ELSE before
  BY StayingIs
<1>2. before = IF chanOf[u] # None /\ HearsOfUsers(w, chanOf[u])
               THEN chanOf[u] ELSE None
  BY DEF PlacesRightly
<1>3. \A c \in Channels' : SeesChannel(w, c)' \/ chanOf'[w] = c => c \in known
  BY DEF KnowsRightly, Visible
<1>4. /\ w \in User
      /\ chanOf[u] # None => chanOf[u] \in Channels
      /\ chanOf'[u] # None => chanOf'[u] \in Channels'
      /\ \A c \in Channels \cap Channels' : Watches(w, c)' <=> Watches(w, c)
  BY StepFacts DEF Authorized
<1>5. \A c \in ToldRemoved(w) : c \notin Channels'
  BY DEF ToldRemoved, Channels
<1> HIDE DEF known, before, after
<1>6. CASE u \in ToldJoined(w)
  <2>1. chanOf'[u] # None /\ HearsOfUsers(w, chanOf[u])'
    BY <1>6 DEF ToldJoined, Joiners, HearsOfUsers
  <2>2. chanOf'[u] \in known
    BY <1>3, <1>4, <2>1 DEF HearsOfUsers, Watches
  <2> QED
    BY <1>1, <1>6, <2>1, <2>2 DEF after
<1>7. CASE u \notin ToldJoined(w) /\ ~(chanOf'[u] # None /\ HearsOfUsers(w, chanOf[u])')
  <2>1. ASSUME chanOf[u] # None, HearsOfUsers(w, chanOf[u])
        PROVE  u \in ToldLeft(w) \/ chanOf[u] \in gone
    <3>1. CASE chanOf'[u] # chanOf[u]
      BY <2>1, <3>1 DEF ToldLeft, Leavers
    <3>2. CASE chanOf'[u] = chanOf[u]
      <4>1. chanOf[u] \in Channels \cap Channels' /\ ~HearsOfUsers(w, chanOf[u])'
        BY <1>4, <1>7, <2>1, <3>2
      <4>2. ~Watches(w, chanOf[u])
        BY <1>4, <3>2, <4>1 DEF HearsOfUsers
      <4>3. chanOf[w] = chanOf[u] /\ chanOf'[w] # chanOf[u]
        BY <2>1, <3>2, <4>1, <4>2 DEF HearsOfUsers
      <4>4. w \in Leavers
        BY <1>4, <2>1, <4>3 DEF Leavers
      <4> QED
        BY <4>1, <4>2, <4>3, <4>4 DEF ToldLeft, HiddenAgain, Watches
    <3> QED
      BY <3>1, <3>2
  <2>2. after = None
    BY <1>1, <1>2, <1>7, <2>1
  <2> QED
    BY <1>7, <2>2 DEF after
<1>8. CASE u \notin ToldJoined(w) /\ chanOf'[u] # None /\ HearsOfUsers(w, chanOf[u])'
  <2> DEFINE c == chanOf'[u]
  <2>1. u \notin Joiners /\ chanOf[u] = c /\ c # None
    BY <1>8 DEF ToldJoined, Joiners
  <2>2. c \in Channels \cap Channels'
    BY <1>4, <2>1
  <2>3. Watches(w, c) \/ (chanOf[w] = c /\ chanOf'[w] = c)
    <3>1. CASE Watches(w, chanOf[u])'
      BY <1>4, <2>2, <3>1
    <3>2. CASE ~Watches(w, chanOf[u])'
      <4>1. chanOf'[w] = c /\ ~Watches(w, chanOf[w])'
        BY <1>8, <3>2 DEF HearsOfUsers
      <4>2. w \notin Joiners
        BY <1>8, <4>1 DEF ToldJoined
      <4> QED
        BY <1>4, <2>1, <4>1, <4>2 DEF Joiners
    <3> QED
      BY <3>1, <3>2
  <2>4. before = c
    BY <1>2, <2>1, <2>3 DEF HearsOfUsers
  <2>5. u \notin ToldLeft(w)
    BY <2>1, <2>3 DEF ToldLeft, Leavers, Watches
  <2>6. c \notin gone
    BY <1>5, <2>2, <2>3 DEF HiddenAgain, Leavers, Watches
  <2> QED
    BY <1>1, <1>8, <2>4, <2>5, <2>6 DEF after
<1> QED
  BY <1>6, <1>7, <1>8

\* A session begins in no channel: it was in none before, and logging in enters
\* none.
LEMMA SessionsBeginNowhere ==
    ASSUME Inv, Next, NEW w \in Authorized', w \notin Authorized
    PROVE  chanOf'[w] = None
<1> USE DEF Inv
<1>1. w \in User /\ chanOf[w] = None /\ acct \in [User -> Account \cup {None}]
  BY DEF Authorized, MembersHaveSessions, TypeOK
<1>2. ASSUME UNCHANGED acct PROVE FALSE
  BY <1>2 DEF Authorized
<1>3. ASSUME NEW u \in User, LogoutEffect(u) PROVE FALSE
  BY <1>1, <1>3 DEF LogoutEffect, Authorized
<1>4. CASE SessionNext
  <2>1. ASSUME NEW u \in User, NEW i \in Ip, Connect(u, i) PROVE FALSE
    BY <1>2, <2>1 DEF Connect
  <2>2. ASSUME NEW u \in User, NEW a \in Account,
               Login(u, a) \/ LoginRefusedAfterKick(u, a)
        PROVE  chanOf'[w] = None
    BY <1>1, <2>2 DEF Login, LoginRefusedAfterKick, Forget
  <2>3. ASSUME NEW u \in User, Logout(u) \/ Disconnect(u)
                                 \/ \E v \in User : KickFromServer(v, u)
        PROVE  FALSE
    BY <1>2, <1>3, <2>3 DEF Logout, Disconnect, KickFromServer
  <2> QED
    BY <1>4, <2>1, <2>2, <2>3 DEF SessionNext
<1>5. CASE MemberNext
  <2>1. ASSUME NEW u, NEW c, UserLeaveChannel(u, c) \/ UserJoinChannel(u, c)
        PROVE  FALSE
    BY <1>2, <2>1 DEF UserLeaveChannel, UserJoinChannel
  <2> QED
    BY <1>5, <2>1 DEF MemberNext, LeaveChannel, JoinChannel, MoveUser, KickFromChannel
<1>6. CASE TreeNext
  <2>1. ASSUME NEW u \in User, NEW c \in Channel, NEW p \in Channel,
               NEW n \in ChannelName, NEW permanent \in BOOLEAN, NEW hidden \in BOOLEAN,
               \/ JoinNewChannel(u, c, p, n, permanent, hidden)
               \/ JoinNewChannelFails(u, c, p, n, permanent, hidden)
               \/ \E max \in Capacity : MakeChannel(u, c, p, n, permanent, hidden, max)
        PROVE  FALSE
    BY <1>2, <2>1 DEF JoinNewChannel, JoinNewChannelFails, MakeChannel
  <2>2. ASSUME NEW u \in User, NEW c \in Channel, NEW n \in ChannelName \cup {None},
               NEW permanent \in BOOLEAN, NEW max \in Capacity,
               UpdateChannel(u, c, n, permanent, max)
        PROVE  FALSE
    BY <1>2, <2>2 DEF UpdateChannel
  <2>3. ASSUME NEW u \in User, NEW c \in Channel, NEW v \in User, NEW op \in BOOLEAN,
               ChannelOp(u, v, c, op)
        PROVE  FALSE
    BY <1>2, <2>3 DEF ChannelOp
  <2>4. ASSUME NEW Gone, RemoveSubtrees(Gone) PROVE FALSE
    BY <1>2, <2>4 DEF RemoveSubtrees
  <2>5. ASSUME NEW u \in User, NEW c \in Channel,
               RemoveChannel(u, c) \/ RemoveChannelFails(u, c)
        PROVE  FALSE
    BY <2>4, <2>5 DEF RemoveChannel, RemoveChannelFails
  <2> QED
    BY <1>6, <2>1, <2>2, <2>3, <2>5 DEF TreeNext
<1> QED
  BY <1>4, <1>5, <1>6 DEF Next

-----------------------------------------------------------------------------
(* The invariant of the server and its clients together. *)

\* It holds when nobody is logged in.
LEMMA ViewInitHasInv == ViewInit => ViewInv
<1> SUFFICES ASSUME ViewInit PROVE ViewInv
  OBVIOUS
<1>1. Inv
  BY InitHasInv DEF ViewInit
<1>2. Authorized = {}
  BY DEF ViewInit, Init, Authorized
<1>3. ViewOK
  BY BlankIs DEF ViewInit, ViewOK
<1> QED
  BY <1>1, <1>2, <1>3 DEF ViewInv

\* Every step of the server, with the commands it sends, preserves it.
LEMMA ViewNextKeepsInv == ViewInv /\ [ViewNext]_viewVars => ViewInv'
<1> SUFFICES ASSUME ViewInv, [ViewNext]_viewVars PROVE ViewInv'
  OBVIOUS
<1>1. CASE UNCHANGED viewVars
  <2>1. Inv' /\ UNCHANGED <<ip, acct, chanOf, chan, view>>
    BY <1>1, NextKeepsInv DEF viewVars, vars, ViewInv
  <2>2. Authorized' = Authorized /\ Channels' = Channels
    BY <2>1 DEF Authorized, Channels
  <2>3. ViewOK'
    BY <2>1, <2>2 DEF ViewInv, ViewOK
  <2>4. \A w \in User, c \in Channel :
           SeesChannel(w, c)' = SeesChannel(w, c) /\ HearsOfUsers(w, c)' = HearsOfUsers(w, c)
    BY <2>1 DEF SeesChannel, HearsOfUsers, Watches, Has
  <2>5. ASSUME NEW w \in Authorized PROVE Rightly(w, view[w])'
    <3>1. w \in User /\ Rightly(w, view[w]) /\ \A r : Has(w, r)' = Has(w, r)
      BY <2>1 DEF ViewInv, Authorized, Has
    <3>2. Visible(w)' = Visible(w)
      BY <2>1, <2>2, <2>4, <3>1 DEF Visible, Channels
    <3>3. KnowsRightly(w, view[w])' /\ ListsRightly(w, view[w])'
      BY <2>1, <2>2, <3>1, <3>2 DEF Rightly, KnowsRightly, ListsRightly
    <3>4. \A u \in User : chanOf[u] # None => chanOf[u] \in Channel
      BY DEF ViewInv, Inv, TypeOK
    <3>5. PlacesRightly(w, view[w])'
      BY <2>1, <2>4, <3>1, <3>4 DEF Rightly, PlacesRightly
    <3> QED
      BY <2>1, <3>1, <3>3, <3>5 DEF Rightly
  <2> QED
    BY <2>1, <2>2, <2>3, <2>5 DEF ViewInv
<1>2. CASE ViewNext
  <2>1. Inv /\ Next /\ Notify /\ HiddenIdsFresh /\ view \in [User -> View]
    BY <1>2 DEF ViewInv, ViewNext, ViewOK
  <2>2. Inv'
    BY <2>1, NextKeepsInv
  <2>3. ASSUME NEW w \in User \ Authorized' PROVE view'[w] = Blank
    BY <2>1, <2>3 DEF Notify
  <2>4. ASSUME NEW w \in Authorized' \ Authorized PROVE Rightly(w, view[w])'
    <3>1. w \in User /\ chanOf'[w] = None
      BY <2>1, <2>4, SessionsBeginNowhere DEF Authorized
    <3>2. ForwardsAll'
      BY <2>2, LoginTellsAll, PTL
    <3>3. Rightly(w, ForwardUsers(w, ForwardChannels(w)))'
      BY <2>4, <3>1, <3>2 DEF ForwardsAll
    <3>4. view'[w] = ForwardUsers(w, ForwardChannels(w))'
      BY <2>1, <2>4, <3>1 DEF Notify
    <3> QED
      BY <3>3, <3>4 DEF Rightly, KnowsRightly, ListsRightly, PlacesRightly
  <2>5. ASSUME NEW w \in Authorized \cap Authorized' PROVE Rightly(w, view[w])'
    <3>1. Rightly(w, view[w])
      BY DEF ViewInv
    <3>2. KnowsRightly(w, view[w])'
      BY <2>1, <2>2, <3>1, StayingKnowsRightly DEF Rightly
    <3>3. ListsRightly(w, view[w])'
      BY <2>1, <2>2, <3>1, StayingListsRightly DEF Rightly
    <3>4. PlacesRightly(w, view[w])'
      BY <2>1, <2>2, <3>1, <3>2, StayingPlacesRightly DEF Rightly
    <3>5. view'[w] \in View
      BY <2>1, <2>2, StayingIs
    <3> QED
      BY <3>2, <3>3, <3>4, <3>5 DEF Rightly
  <2>6. \A w \in Authorized' : Rightly(w, view[w])'
    BY <2>4, <2>5
  <2>7. ViewOK'
    <3>1. view' = [w \in User |-> view'[w]]
      BY <2>1 DEF Notify
    <3>2. \A w \in User : view'[w] \in View
      BY <2>3, <2>6, BlankIs DEF Rightly
    <3>3. view' \in [User -> View]
      BY <3>1, <3>2
    <3> QED
      BY <2>3, <3>3 DEF ViewOK
  <2> QED
    BY <2>2, <2>6, <2>7 DEF ViewInv
<1> QED
  BY <1>1, <1>2

\* Every reachable state of a server with clients satisfies the invariant.
THEOREM ViewsConsistent == ViewSpec => []ViewInv
BY ViewInitHasInv, ViewNextKeepsInv, PTL DEF ViewSpec

\* Telling the clients changes nothing of what the server does: a server with
\* clients is a server, and has all the properties proved of it.
THEOREM ViewsExtendServer == ViewSpec => Spec
<1>1. ViewInit => Init
  BY DEF ViewInit
<1>2. [ViewNext]_viewVars => [Next]_vars
  BY DEF ViewNext, viewVars, vars
<1> QED
  BY <1>1, <1>2, PTL DEF ViewSpec, Spec

\* A client believes something only while it is logged in.
THEOREM ViewsAreOK == ViewSpec => []ViewOK
<1>1. ViewInv => ViewOK
  BY DEF ViewInv
<1> QED
  BY <1>1, ViewsConsistent, PTL

\* A client knows every channel its user may see, and no hidden one besides; a
\* client whose user sees all users knows no channel that is gone.
THEOREM ClientsKnowTheirChannels == ViewSpec => []KnowsItsChannels
<1>1. ViewInv => KnowsItsChannels
  BY DEF ViewInv, Rightly, KnowsRightly, KnowsItsChannels, Visible
<1> QED
  BY <1>1, ViewsConsistent, PTL

\* A client lists everyone who is logged in, or nobody.
THEOREM ClientsListAllUsers == ViewSpec => []ListsAllUsers
<1>1. ViewInv => ListsAllUsers
  BY DEF ViewInv, Rightly, ListsRightly, ListsAllUsers
<1> QED
  BY <1>1, ViewsConsistent, PTL

\* A client places each user where the user is if its own user may know, and
\* nowhere otherwise.
THEOREM ClientsPlaceUsersRightly == ViewSpec => []PlacesUsersRightly
<1>1. ViewInv => PlacesUsersRightly
  BY DEF ViewInv, Rightly, PlacesRightly, PlacesUsersRightly
<1> QED
  BY <1>1, ViewsConsistent, PTL

-----------------------------------------------------------------------------
(* What a step tells the clients. *)

\* A hidden channel that goes is taken from every client: by the news of its
\* removal, by the news that its own user left it, or with the session.
LEMMA HiddenStep ==
    ASSUME ViewInv, ViewNext, NEW c \in Channels, chan[c].hidden, chan'[c] = None,
           NEW w \in User
    PROVE  c \notin view'[w].known
<1>1. /\ Inv /\ Next /\ Notify /\ view \in [User -> View]
      /\ c \in Channel /\ c \notin Channels'
  BY DEF ViewInv, ViewNext, ViewOK, Channels
<1>2. Inv'
  BY <1>1, NextKeepsInv
<1>3. CASE w \notin Authorized'
  BY <1>1, <1>3, BlankIs DEF Notify
<1>4. CASE w \in Authorized' /\ w \notin Authorized
  <2>1. view'[w] = ForwardUsers(w, ForwardChannels(w))'
    BY <1>1, <1>4 DEF Notify
  <2> DEFINE seen == {d \in Channels : SeesChannel(w, d)}
             v == HandleAddChannels(Blank, seen)
             listing == HandleLoggedInOut(v, Authorized, {})
  <2>2. seen' \in SUBSET Channel /\ Authorized' \in SUBSET User /\ {} \in SUBSET User
    BY DEF Channels, Authorized
  <2>3. HandleAddChannels(Blank, seen') \in View
        /\ HandleAddChannels(Blank, seen').known = seen'
    BY <2>2, BlankIs, AddChannelsIs
  <2>4. view'[w].known = seen'
    BY <2>1, <2>3 DEF ForwardUsers, ForwardChannels, HandleAddUsers, HandleLoggedInOut,
                      View
  <2> QED
    BY <1>1, <2>4
<1>5. CASE w \in Authorized' /\ w \in Authorized
  <2>1. view'[w].known =
           ((view[w].known \cup ToldMade(w))
               \ (HiddenAgain(w) \cup ToldRemoved(w))) \cup ToldEntered(w)
    BY <1>1, <1>2, <1>5, StayingIs
  <2>2. c \notin ToldMade(w)
    BY <1>1 DEF ToldMade
  <2>3. c \notin ToldEntered(w)
    BY <1>1, <1>2, <1>5, StepFacts DEF ToldEntered, Joiners
  <2>4. c \in view[w].known => SeesChannel(w, c) \/ chanOf[w] = c
    BY <1>5 DEF ViewInv, Rightly, KnowsRightly, Visible
  <2>5. SeesChannel(w, c) => c \in ToldRemoved(w)
    BY DEF SeesChannel, ToldRemoved
  <2>6. ASSUME chanOf[w] = c, ~SeesChannel(w, c)
        PROVE  c \in HiddenAgain(w)
    <3>1. c # None /\ chanOf'[w] # c
      BY <1>1, <1>2, <1>5, StepFacts, NoneAssumption
    <3> QED
      BY <2>6, <3>1 DEF HiddenAgain, Leavers
  <2> QED
    BY <2>1, <2>2, <2>3, <2>4, <2>5, <2>6
<1> QED
  BY <1>3, <1>4, <1>5

\* When a hidden channel is gone no client keeps it.
THEOREM HiddenChannelsVanish == ViewSpec => HiddenChannelVanishes
<1> DEFINE Vanishes ==
      \A c \in Channels :
          chan[c].hidden /\ chan'[c] = None
              => \A w \in User : c \notin view'[w].known
<1>1. ViewInv /\ [ViewNext]_viewVars => [Vanishes]_viewVars
  BY HiddenStep
<1> QED
  BY <1>1, ViewsConsistent, PTL DEF ViewSpec, HiddenChannelVanishes

\* A channel is made below one that is there and is not hidden.
LEMMA MadeBelowShown ==
    ASSUME Inv, Next, NEW c \in Channel, chan[c] = None, chan'[c] # None
    PROVE  chan'[c].parent \in Channels /\ ~chan[chan'[c].parent].hidden
<1> USE DEF Inv
<1>1. chan \in TreeType /\ c \notin Channels
  BY DEF TypeOK, TreeType, Channels
<1>2. ASSUME NEW K, NEW Gone PROVE chan' # Without(K, Gone)
  BY <1>1, WithoutIs
<1>3. ASSUME NEW K PROVE chan' # LoggedOut(K)
  BY <1>1, WithoutIs, DeOpAllIs DEF LoggedOut
<1>4. ~SessionNext
  BY <1>3 DEF SessionNext, Connect, Login, LoginRefusedAfterKick, Logout,
              Disconnect, KickFromServer, LogoutEffect
<1>5. ~MemberNext
  <2>1. ASSUME NEW u \in User, NEW k, UserLeaveChannel(u, k) PROVE FALSE
    BY <1>2, <2>1 DEF UserLeaveChannel
  <2>2. ASSUME NEW u \in Authorized, NEW k, UserJoinChannel(u, k) PROVE FALSE
    <3> DEFINE tree == IF chanOf[u] = None THEN chan
                       ELSE Without({u}, Cleaned({u}, k))
    <3>1. k \in Channels
      BY <2>2 DEF UserJoinChannel
    <3>2. tree \in TreeType /\ tree[c] = None
      BY <1>1, WithoutIs
    <3>3. chan' = [tree EXCEPT ![k].users = @ \cup {u},
                               ![k].ops = IF IsOwner(u, k) \/ IsAutoOperator(u, k)
                                          THEN @ \cup {u} ELSE @]
      BY <2>2 DEF UserJoinChannel
    <3> HIDE DEF tree
    <3>4. chan'[c] = tree[c]
      BY <1>1, <3>1, <3>2, <3>3 DEF TreeType
    <3> QED
      BY <3>2, <3>4
  <2> QED
    BY <2>1, <2>2
       DEF MemberNext, LeaveChannel, JoinChannel, MoveUser, KickFromChannel, Finds
<1>6. CASE TreeNext
  <2>1. ASSUME NEW u \in User, NEW k \in Channel, NEW p \in Channel,
               NEW n \in ChannelName, NEW permanent \in BOOLEAN, NEW hidden \in BOOLEAN,
               \/ JoinNewChannel(u, k, p, n, permanent, hidden)
               \/ JoinNewChannelFails(u, k, p, n, permanent, hidden)
               \/ \E max \in Capacity : MakeChannel(u, k, p, n, permanent, hidden, max)
        PROVE  chan'[c].parent \in Channels /\ ~chan[chan'[c].parent].hidden
    <3> DEFINE tree == IF chanOf[u] = None THEN chan ELSE Without({u}, Cleaned({u}, p))
    <3>1. p \in Channels /\ ~chan[p].hidden
      BY <2>1 DEF JoinNewChannel, JoinNewChannelFails, MakeChannel, CanMakeChannel
    <3>2. tree \in TreeType /\ tree[c] = None
      BY <1>1, WithoutIs
    <3>3. \E max, users : \/ chan' = [tree EXCEPT ![k] =
                                NewChannel(u, p, n, permanent, hidden, max, users)]
                          \/ chan' = [chan EXCEPT ![k] =
                                NewChannel(u, p, n, permanent, hidden, max, users)]
      BY <2>1 DEF JoinNewChannel, JoinNewChannelFails, MakeChannel
    <3> HIDE DEF tree
    <3>4. PICK max, users : \/ chan' = [tree EXCEPT ![k] =
                                NewChannel(u, p, n, permanent, hidden, max, users)]
                            \/ chan' = [chan EXCEPT ![k] =
                                NewChannel(u, p, n, permanent, hidden, max, users)]
      BY <3>3
    <3> DEFINE new == NewChannel(u, p, n, permanent, hidden, max, users)
    <3>5. new.parent = p
      BY DEF NewChannel
    <3> HIDE DEF new
    <3>6. c = k /\ chan'[c] = new
      BY <1>1, <3>2, <3>4 DEF TreeType, new
    <3> QED
      BY <3>1, <3>5, <3>6
  <2>2. ASSUME NEW u \in User, NEW k \in Channel, NEW n \in ChannelName \cup {None},
               NEW permanent \in BOOLEAN, NEW max \in Capacity,
               UpdateChannel(u, k, n, permanent, max)
        PROVE  FALSE
    BY <1>1, <2>2 DEF UpdateChannel, TreeType
  <2>3. ASSUME NEW u \in User, NEW k \in Channel, NEW v \in User, NEW op \in BOOLEAN,
               ChannelOp(u, v, k, op)
        PROVE  FALSE
    BY <1>1, <2>3 DEF ChannelOp, TreeType
  <2>4. ASSUME NEW u \in User, NEW k \in Channel,
               RemoveChannel(u, k) \/ RemoveChannelFails(u, k)
        PROVE  FALSE
    BY <1>2, <2>4 DEF RemoveChannel, RemoveChannelFails, RemoveSubtrees
  <2> QED
    BY <1>6, <2>1, <2>2, <2>3, <2>4 DEF TreeNext
<1> QED
  BY <1>4, <1>5, <1>6 DEF Next

\* The commands of a step find each client that stays logged in ready for them.
LEMMA ReadyStep ==
    ASSUME ViewInv, ViewNext, NEW w \in Authorized \cap Authorized'
    PROVE  /\ \A c \in ToldMade(w) : chan'[c].parent \in view[w].known
           /\ \A u \in ToldLeft(w) : view[w].placed[u] = chanOf[u]
           /\ HiddenAgain(w) \cup ToldRemoved(w) \subseteq view[w].known
           /\ HiddenAgain(w) \cap ToldRemoved(w) = {}
           /\ chanOf'[w] \notin ToldRemoved(w)
           /\ ToldLoggedIn(w) \cap view[w].listed = {}
           /\ ToldLoggedOut(w) \subseteq view[w].listed
           /\ \A u \in ToldJoined(w) :
                 /\ AfterLeft(w).placed[u] = None
                 /\ chanOf'[u] \in AfterEntered(w).known
<1>1. /\ Inv /\ Next /\ Notify /\ HiddenIdsFresh /\ view \in [User -> View]
      /\ Rightly(w, view[w])
  BY DEF ViewInv, ViewNext, ViewOK
<1>2. Inv' /\ w \in Authorized /\ w \in Authorized' /\ w \in User
  BY <1>1, NextKeepsInv DEF Authorized
<1>3. /\ \A c \in Channels : SeesChannel(w, c) \/ chanOf[w] = c => c \in view[w].known
      /\ \A u \in User : view[w].placed[u] =
            IF chanOf[u] # None /\ HearsOfUsers(w, chanOf[u]) THEN chanOf[u] ELSE None
      /\ view[w].listed = IF Has(w, "VIEW_ALL_USERS") THEN Authorized ELSE {}
  BY <1>1 DEF Rightly, KnowsRightly, Visible, PlacesRightly, ListsRightly
<1>4. KnowsRightly(w, view[w])'
  BY <1>1, <1>2, StayingKnowsRightly DEF Rightly
<1>5. /\ \A c \in Channels : c \in Channels' => (Watches(w, c)' <=> Watches(w, c))
      /\ \A u \in User : chanOf[u] # None => chanOf[u] \in Channels
      /\ \A u \in User : chanOf'[u] # None => chanOf'[u] \in Channels'
  BY <1>1, <1>2, StepFacts
<1>6. ASSUME NEW c \in ToldMade(w) PROVE chan'[c].parent \in view[w].known
  <2>1. c \in Channel /\ chan[c] = None /\ chan'[c] # None
    BY DEF ToldMade
  <2>2. chan'[c].parent \in Channels /\ ~chan[chan'[c].parent].hidden
    BY <1>1, <2>1, MadeBelowShown
  <2> QED
    BY <1>3, <2>2 DEF SeesChannel
<1>7. ASSUME NEW u \in ToldLeft(w) PROVE view[w].placed[u] = chanOf[u]
  BY <1>2, <1>3 DEF ToldLeft, Leavers, HearsOfUsers
<1>8. HiddenAgain(w) \cup ToldRemoved(w) \subseteq view[w].known
  BY <1>3 DEF HiddenAgain, ToldRemoved, SeesChannel
<1>9. HiddenAgain(w) \cap ToldRemoved(w) = {}
  BY DEF HiddenAgain, ToldRemoved, SeesChannel
<1>10. chanOf'[w] \notin ToldRemoved(w)
  BY <1>2, <1>5, NoneAssumption DEF ToldRemoved, Channels
<1>11. ToldLoggedIn(w) \cap view[w].listed = {} /\ ToldLoggedOut(w) \subseteq view[w].listed
  BY <1>3 DEF ToldLoggedIn, ToldLoggedOut
<1>12. ASSUME NEW u \in ToldJoined(w)
       PROVE  AfterLeft(w).placed[u] = None /\ chanOf'[u] \in AfterEntered(w).known
  <2>1. /\ u \in User /\ chanOf'[u] # None
        /\ HearsOfUsers(w, chanOf[u])'
    BY DEF ToldJoined, Joiners, HearsOfUsers
  <2>2. chanOf'[u] \in view'[w].known
    BY <1>4, <1>5, <2>1 DEF KnowsRightly, Visible, HearsOfUsers, Watches
  <2>3. u \in ToldLeft(w) \/ view[w].placed[u] = None
    <3>1. CASE chanOf[u] # None /\ chanOf'[u] # chanOf[u]
      BY <1>3, <2>1, <3>1 DEF ToldLeft, Leavers
    <3>2. CASE chanOf[u] # None /\ chanOf'[u] = chanOf[u]
      <4>1. w \in Joiners /\ ~Watches(w, chanOf[w])' /\ chanOf'[u] = chanOf'[w]
        BY <3>2 DEF ToldJoined, Joiners
      <4>2. chanOf[u] \in Channels /\ chanOf[u] \in Channels' /\ chanOf[w] # chanOf[u]
        BY <1>5, <2>1, <3>2, <4>1 DEF Joiners
      <4>3. ~HearsOfUsers(w, chanOf[u])
        BY <1>5, <3>2, <4>1, <4>2 DEF HearsOfUsers
      <4> QED
        BY <1>3, <2>1, <4>3
    <3>3. CASE chanOf[u] = None
      BY <1>3, <2>1, <3>3
    <3> QED
      BY <3>1, <3>2, <3>3
  <2>4. /\ AfterEntered(w).known = view'[w].known
        /\ AfterLeft(w).placed[u] =
              IF \/ u \in ToldLeft(w)
                 \/ view[w].placed[u] \in HiddenAgain(w) \cup ToldRemoved(w)
              THEN None
              ELSE view[w].placed[u]
    BY <1>1, <1>2, <2>1, StayingIs
  <2> QED
    BY <2>2, <2>3, <2>4
<1> QED
  BY <1>6, <1>7, <1>8, <1>9, <1>10, <1>11, <1>12

\* Every command finds the client ready for it, as the client's assertions say.
THEOREM CommandsFindClientsReady == ViewSpec => CommandsFindClientReady
<1> DEFINE Ready ==
      \A w \in Authorized \cap Authorized' :
          /\ \A c \in ToldMade(w) : chan'[c].parent \in view[w].known
          /\ \A u \in ToldLeft(w) : view[w].placed[u] = chanOf[u]
          /\ HiddenAgain(w) \cup ToldRemoved(w) \subseteq view[w].known
          /\ HiddenAgain(w) \cap ToldRemoved(w) = {}
          /\ chanOf'[w] \notin ToldRemoved(w)
          /\ ToldLoggedIn(w) \cap view[w].listed = {}
          /\ ToldLoggedOut(w) \subseteq view[w].listed
          /\ \A u \in ToldJoined(w) :
                /\ AfterLeft(w).placed[u] = None
                /\ chanOf'[u] \in AfterEntered(w).known
<1>1. ViewInv /\ ViewNext => Ready
  BY ReadyStep
<1>2. ViewInv /\ [ViewNext]_viewVars => [Ready]_viewVars
  BY <1>1
<1> QED
  BY <1>2, ViewsConsistent, PTL DEF ViewSpec, CommandsFindClientReady
=============================================================================
