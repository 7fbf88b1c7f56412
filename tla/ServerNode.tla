----------------------------- MODULE ServerNode -----------------------------
(***************************************************************************)
(* The TeamTalk server: sessions and the channel tree.                     *)
(*                                                                         *)
(* teamtalk/server/ServerNode.cpp runs every TCP command, every closed     *)
(* connection and every timer event to its end while it holds the server   *)
(* lock, so a handler is one step here, with every call it makes: logging  *)
(* in may first log other sessions out, leaving a channel may remove the   *)
(* channel and its ancestors, removing a channel expels its users.         *)
(*                                                                         *)
(* A command the code refuses changes nothing and is not an action; the    *)
(* two commands that fail after they have changed the state are actions.   *)
(* Passwords, bans and the channel's codec, topic and file list decide     *)
(* only whether a command is refused, and are left out.                    *)
(*                                                                         *)
(* Definitions marked "Mutant" are wrong on purpose and used by nothing    *)
(* here: each stands in for the definition after it to show that a         *)
(* property notices.                                                       *)
(***************************************************************************)
EXTENDS Integers, FiniteSets

CONSTANTS
    User,             \* user ids, one per TCP connection
    Ip,               \* IP addresses of clients
    Account,          \* accounts a login may be granted
    Username,         \* their user names
    Channel,          \* channel ids
    Root,             \* the id of the root channel
    ChannelName,      \* channel names
    Capacity,         \* values of a channel's maxusers
    MaxUsers,         \* ServerSettings::maxusers
    MaxLoginsPerIp,   \* ServerSettings::max_logins_per_ipaddr, 0 for no limit
    OpPasswordKnown,  \* whether users know the channels' operator passwords
    None              \* the null id, account or channel

UserRight == {"MULTI_LOGIN", "VIEW_ALL_USERS", "CREATE_TEMPORARY_CHANNEL",
              "MODIFY_CHANNELS", "KICK_USERS", "MOVE_USERS", "OPERATOR_ENABLE",
              "VIEW_HIDDEN_CHANNELS"}

\* UserAccount: "web" is IsWebLogin(), "autoOp" is auto_op_channels.
UserAccount == [username : Username, admin : BOOLEAN, web : BOOLEAN,
                rights : SUBSET UserRight, autoOp : SUBSET Channel]

\* ServerChannel: "above" holds the ids met when climbing m_parent to the root.
ChannelState == [parent : Channel \cup {None}, above : SUBSET Channel,
                 name : ChannelName \cup {None},
                 permanent : BOOLEAN, hidden : BOOLEAN, maxusers : Capacity,
                 owner : Username \cup {None},
                 users : SUBSET User, ops : SUBSET User]

ASSUME AccountAssumption == Account \subseteq UserAccount
ASSUME RootAssumption == Root \in Channel
ASSUME LimitAssumption ==
    /\ MaxUsers \in Nat
    /\ MaxLoginsPerIp \in Nat
    /\ Capacity \subseteq Nat
    /\ MaxUsers \in Capacity
    /\ OpPasswordKnown \in BOOLEAN
ASSUME UserAssumption == IsFiniteSet(User)
ASSUME NoneAssumption ==
    /\ None \notin Ip
    /\ None \notin Account
    /\ None \notin Username
    /\ None \notin Channel
    /\ None \notin ChannelName
    /\ None \notin ChannelState

VARIABLES
    ip,       \* m_mUsers: the address of each connected user, None otherwise
    acct,     \* ServerUser::m_account, None when not authorized
    chanOf,   \* ServerUser::m_channel
    admins,   \* m_admins: how many entries each user has in the admin cache
    chan      \* the channel tree under m_rootchannel, None for an unused id

vars == <<ip, acct, chanOf, admins, chan>>

-----------------------------------------------------------------------------
(* Lookups. *)

Connected == {u \in User : ip[u] # None}
Authorized == {u \in User : acct[u] # None}
Has(u, right) == right \in acct[u].rights
IsAdmin(u) == acct[u] # None /\ acct[u].admin

Channels == {c \in Channel : chan[c] # None}
SubChannels(c) == {d \in Channels : chan[d].parent = c}
Subtree(c) == {d \in Channels : d = c \/ c \in chan[d].above}
UsersIn(C) == UNION {chan[c].users : c \in C}
Names(C) == {chan[c].name : c \in C}

\* GetUser(userid, caller): a caller without VIEW_ALL_USERS finds only itself
\* and the users whose channel, or lack of one, is its own.
Finds(u, v) ==
    /\ v \in Authorized
    /\ u = v \/ Has(u, "VIEW_ALL_USERS") \/ chanOf[u] = chanOf[v]

IsOperator(u, c) == u \in chan[c].ops
IsAutoOperator(u, c) == c \in acct[u].autoOp
IsOwner(u, c) == acct[u].web /\ chan[c].owner = acct[u].username

-----------------------------------------------------------------------------
(* What leaving and removing channels does to the tree. *)

\* Mutant: without climbing on from the channel that was left.
CleanedOneLevel(K, kept) ==
    {c \in Channels \ {Root} :
        /\ c # kept
        /\ ~chan[c].permanent
        /\ chan[c].users # {} /\ chan[c].users \subseteq K
        /\ SubChannels(c) = {}}

\* Mutant: cleaning up all of the tree instead of climbing from the channel left.
CleanedEverywhere(K, kept) ==
    {c \in Channels \ {Root} :
        \A d \in Subtree(c) :
            d # kept /\ ~chan[d].permanent /\ chan[d].users \subseteq K}

\* The channels CleanChannels has removed once all of K have left their
\* channels, one after the other. Each leave climbs from the channel that was
\* left while the channel reached is temporary, empty and childless, so a
\* channel goes exactly when everything below it is temporary and emptied by K
\* and some user of K was there to start a climb at every leaf. A join protects
\* the channel being entered, "kept", by making it permanent for the while.
Cleaned(K, kept) ==
    {c \in Channels \ {Root} :
        \A d \in Subtree(c) :
            /\ d # kept
            /\ ~chan[d].permanent
            /\ chan[d].users \subseteq K
            /\ SubChannels(d) = {} => chan[d].users # {}}

\* The tree without the users of K and the channels of Gone.
Without(K, Gone) ==
    [c \in Channel |->
        IF c \in Channels \ Gone THEN [chan[c] EXCEPT !.users = @ \ K]
        ELSE None]

\* Mutant: RemoveOperator without recursion.
DeOpRoot(K, tree) == [tree EXCEPT ![Root].ops = @ \ K]

\* RemoveOperator from the root down.
DeOpAll(K, tree) ==
    [c \in Channel |->
        IF tree[c] = None THEN None ELSE [tree[c] EXCEPT !.ops = @ \ K]]

\* Mutant: logging out without leaving the channel.
LoggedOutInPlace(K) == DeOpAll(K, chan)

\* UserLogout of every user of K.
LoggedOut(K) == DeOpAll(K, Without(K, Cleaned(K, None)))
Forget(f, K, null) == [u \in User |-> IF u \in K THEN null ELSE f[u]]

-----------------------------------------------------------------------------
(* Sessions. *)

\* OnOpened: GetNewUserID gives the connection an id no connection has.
Connect(u, i) ==
    /\ u \notin Connected
    /\ ip' = [ip EXCEPT ![u] = i]
    /\ UNCHANGED <<acct, chanOf, admins, chan>>

\* UserLogin kicks the sessions of the same user name before it counts the
\* logins of the IP address; it counts the server's users before both.
SameUsername(a) == {v \in Authorized : acct[v].username = a.username}

\* Mutant: no check for double logins.
KickedByNoLogin(a) == {}
KickedByLogin(a) ==
    IF "MULTI_LOGIN" \in a.rights THEN {} ELSE SameUsername(a)

\* Mutant: a limit that does not count the session being logged in.
IpHasRoomForOneMore(u, a) ==
    \/ a.admin
    \/ MaxLoginsPerIp = 0
    \/ Cardinality({v \in Authorized \ KickedByLogin(a) : ip[v] = ip[u]})
            <= MaxLoginsPerIp

ServerHasRoom(a) == a.admin \/ Cardinality(Authorized) + 1 <= MaxUsers
IpHasRoom(u, a) ==
    \/ a.admin
    \/ MaxLoginsPerIp = 0
    \/ Cardinality({v \in Authorized \ KickedByLogin(a) : ip[v] = ip[u]}) + 1
            <= MaxLoginsPerIp

Login(u, a) ==
    /\ u \in Connected \ Authorized
    /\ ServerHasRoom(a)
    /\ IpHasRoom(u, a)
    /\ LET K == KickedByLogin(a) IN
       /\ chan' = LoggedOut(K)
       /\ chanOf' = Forget(chanOf, K, None)
       /\ acct' = [Forget(acct, K, None) EXCEPT ![u] = a]
       /\ admins' = [v \in User |->
                        IF v \in K /\ admins[v] > 0 THEN admins[v] - 1
                        ELSE IF v = u /\ a.admin THEN admins[v] + 1
                        ELSE admins[v]]
    /\ UNCHANGED ip

\* The login is refused when its sessions elsewhere are already kicked.
LoginRefusedAfterKick(u, a) ==
    /\ u \in Connected \ Authorized
    /\ ServerHasRoom(a)
    /\ ~IpHasRoom(u, a)
    /\ LET K == KickedByLogin(a) IN
       /\ K # {}
       /\ chan' = LoggedOut(K)
       /\ chanOf' = Forget(chanOf, K, None)
       /\ acct' = Forget(acct, K, None)
       /\ admins' = [v \in User |->
                        IF v \in K /\ admins[v] > 0 THEN admins[v] - 1
                        ELSE admins[v]]
    /\ UNCHANGED ip

\* Mutants of LogoutEffect: the admin cache loses an entry whoever logs out, and
\* the admin cache keeps its entry.
LogoutEffectBlind(u) ==
    /\ chan' = LoggedOut({u})
    /\ chanOf' = [chanOf EXCEPT ![u] = None]
    /\ acct' = [acct EXCEPT ![u] = None]
    /\ admins' = [admins EXCEPT ![u] = @ - 1]
LogoutEffectCached(u) ==
    /\ chan' = LoggedOut({u})
    /\ chanOf' = [chanOf EXCEPT ![u] = None]
    /\ acct' = [acct EXCEPT ![u] = None]
    /\ UNCHANGED admins

\* UserLogout: leave the channel, give up operator status everywhere.
LogoutEffect(u) ==
    /\ chan' = LoggedOut({u})
    /\ chanOf' = [chanOf EXCEPT ![u] = None]
    /\ acct' = [acct EXCEPT ![u] = None]
    /\ admins' = [admins EXCEPT ![u] = IF @ > 0 THEN @ - 1 ELSE @]

Logout(u) ==
    /\ u \in Authorized
    /\ LogoutEffect(u)
    /\ UNCHANGED ip

\* UserDisconnected: the connection closed, or CheckKeepAlive gave it up.
Disconnect(u) ==
    /\ u \in Connected
    /\ ip' = [ip EXCEPT ![u] = None]
    /\ \/ u \in Authorized /\ LogoutEffect(u)
       \/ u \notin Authorized /\ UNCHANGED <<acct, chanOf, admins, chan>>

-----------------------------------------------------------------------------
(* Entering and leaving channels. *)

UserLeaveChannel(u, c) ==
    /\ c \in Channels
    /\ u \in chan[c].users
    /\ chan' = Without({u}, Cleaned({u}, None))
    /\ chanOf' = [chanOf EXCEPT ![u] = None]
    /\ UNCHANGED <<ip, acct, admins>>

LeaveChannel(u) == u \in Authorized /\ UserLeaveChannel(u, chanOf[u])

ChannelHasRoom(c) == Cardinality(chan[c].users) + 1 <= chan[c].maxusers

\* UserJoinChannel into a channel that exists. The old channel is left, and
\* perhaps removed, first.
UserJoinChannel(u, c) ==
    /\ c \in Channels
    /\ chanOf[u] # c
    /\ ChannelHasRoom(c)
    /\ LET tree == IF chanOf[u] = None THEN chan
                   ELSE Without({u}, Cleaned({u}, c))
           makeop == IsOwner(u, c) \/ IsAutoOperator(u, c)
       IN chan' = [tree EXCEPT ![c].users = @ \cup {u},
                               ![c].ops = IF makeop THEN @ \cup {u} ELSE @]
    /\ chanOf' = [chanOf EXCEPT ![u] = c]
    /\ UNCHANGED <<ip, acct, admins>>

JoinChannel(u, c) == u \in Authorized /\ UserJoinChannel(u, c)

\* Mutant: names of siblings are not compared.
CanMakeSameName(c, p, n) ==
    /\ c \in Channel \ Channels
    /\ p \in Channels
    /\ ~chan[p].hidden

\* Mutant: a hidden channel can have sub channels.
CanMakeBelowHidden(c, p, n) ==
    /\ c \in Channel \ Channels
    /\ p \in Channels
    /\ n \notin Names(SubChannels(p))

\* MakeChannel: hidden channels have no sub channels, siblings differ in name.
\* Which of the unused ids the channel gets is left open.
CanMakeChannel(c, p, n) ==
    /\ c \in Channel \ Channels
    /\ p \in Channels
    /\ ~chan[p].hidden
    /\ n \notin Names(SubChannels(p))

NewChannel(u, p, n, permanent, hidden, max, users) ==
    [parent |-> p, above |-> chan[p].above \cup {p}, name |-> n,
     permanent |-> permanent, hidden |-> hidden, maxusers |-> max,
     owner |-> IF acct[u].web THEN acct[u].username ELSE None,
     users |-> users, ops |-> users]

\* Who may create a channel by joining one that does not exist.
MayCreate(u, p, permanent, hidden) ==
    \/ Has(u, "MODIFY_CHANNELS")
    \/ /\ Has(u, "CREATE_TEMPORARY_CHANNEL")
       /\ ~permanent /\ ~hidden
       /\ p = Root \/ chanOf[u] = p

\* UserJoinChannel into a new channel: its creator becomes its operator. The
\* new channel and the ancestors it has are kept while the old one is left.
JoinNewChannel(u, c, p, n, permanent, hidden) ==
    /\ u \in Authorized
    /\ CanMakeChannel(c, p, n)
    /\ MayCreate(u, p, permanent, hidden)
    /\ 1 <= MaxUsers
    /\ LET tree == IF chanOf[u] = None THEN chan
                   ELSE Without({u}, Cleaned({u}, p))
       IN chan' = [tree EXCEPT ![c] =
                      NewChannel(u, p, n, permanent, hidden, MaxUsers, {u})]
    /\ chanOf' = [chanOf EXCEPT ![u] = c]
    /\ UNCHANGED <<ip, acct, admins>>

\* The channel is made but its creator does not get in: the configuration
\* could not be saved, or the server admits no users into a channel.
JoinNewChannelFails(u, c, p, n, permanent, hidden) ==
    /\ u \in Authorized
    /\ CanMakeChannel(c, p, n)
    /\ MayCreate(u, p, permanent, hidden)
    /\ permanent \/ MaxUsers = 0
    /\ chan' = [chan EXCEPT ![c] =
                   NewChannel(u, p, n, permanent, hidden, MaxUsers, {})]
    /\ UNCHANGED <<ip, acct, admins, chanOf>>

\* UserMove: the moved user joins as if it had asked to.
MoveUser(u, v, c) ==
    /\ u \in Authorized
    /\ Has(u, "MOVE_USERS")
    /\ Finds(u, v)
    /\ UserJoinChannel(v, c)

KickFromChannel(u, v, c) ==
    /\ u \in Authorized
    /\ Finds(u, v)
    /\ c \in Channels
    /\ Has(u, "KICK_USERS") \/ IsOperator(u, c) \/ IsAutoOperator(u, c)
    /\ UserLeaveChannel(v, c)

KickFromServer(u, v) ==
    /\ u \in Authorized
    /\ Finds(u, v)
    /\ Has(u, "KICK_USERS")
    /\ LogoutEffect(v)
    /\ UNCHANGED ip

-----------------------------------------------------------------------------
(* Changing the tree. *)

MakeChannel(u, c, p, n, permanent, hidden, max) ==
    /\ u \in Authorized
    /\ Has(u, "MODIFY_CHANNELS")
    /\ CanMakeChannel(c, p, n)
    /\ chan' = [chan EXCEPT ![c] =
                   NewChannel(u, p, n, permanent, hidden, max, {})]
    /\ UNCHANGED <<ip, acct, admins, chanOf>>

\* UserUpdateChannel: an operator can neither change whether the channel is
\* permanent nor its capacity, nor rename a permanent one. The root has no name.
UpdateChannel(u, c, n, permanent, max) ==
    /\ u \in Authorized
    /\ c \in Channels
    /\ \/ Has(u, "MODIFY_CHANNELS")
       \/ /\ IsOperator(u, c) \/ IsAutoOperator(u, c)
          /\ permanent = chan[c].permanent
          /\ max = chan[c].maxusers
          /\ permanent => n = chan[c].name
    /\ IF c = Root THEN n = None
       ELSE /\ n \in ChannelName
            /\ n \notin Names(SubChannels(chan[c].parent) \ {c})
    /\ chan' = [chan EXCEPT ![c].name = n, ![c].permanent = permanent,
                            ![c].maxusers = max]
    /\ UNCHANGED <<ip, acct, admins, chanOf>>

\* UserOpDeOp: the user named need not be in the channel.
ChannelOp(u, v, c, op) ==
    /\ u \in Authorized
    /\ Finds(u, v)
    /\ c \in Channels
    /\ Has(u, "OPERATOR_ENABLE") \/ OpPasswordKnown
    /\ chan' = [chan EXCEPT ![c].ops = IF op THEN @ \cup {v} ELSE @ \ {v}]
    /\ UNCHANGED <<ip, acct, admins, chanOf>>

\* RemoveChannel works through the sub channels first, then kicks its users one
\* by one. The kick of the last user, or the climb that the removal of the last
\* sub channel started, may take the channel and go on to its ancestors: follow
\* last sub channels down to "d", the first that is permanent or has users or is
\* a leaf. The order of sub channels is abstracted, any may be the last.
Between(c, d) == {e \in Subtree(c) : e = d \/ e \in chan[d].above}
LastDown(c, d) ==
    /\ d \in Subtree(c)
    /\ \A e \in Between(c, d) \ {d} : ~chan[e].permanent /\ chan[e].users = {}
    /\ chan[d].permanent \/ chan[d].users # {} \/ SubChannels(d) = {}
Climbs(d) == ~chan[d].permanent /\ chan[d].users # {}

CleanedAbove(c) ==
    {d \in chan[c].above \ {Root} :
        \A e \in Subtree(d) \ Subtree(c) :
            e \in chan[c].above /\ ~chan[e].permanent /\ chan[e].users = {}}

RemoveSubtrees(Gone) ==
    LET K == UsersIn(Gone) IN
    /\ chan' = Without(K, Gone \ {Root})
    /\ chanOf' = Forget(chanOf, K, None)
    /\ UNCHANGED <<ip, acct, admins>>

RemoveChannel(u, c) ==
    /\ u \in Authorized
    /\ Has(u, "MODIFY_CHANNELS")
    /\ c \in Channels
    /\ \E d \in Channels :
          /\ LastDown(c, d)
          /\ RemoveSubtrees(Subtree(c) \cup
                            (IF Climbs(d) THEN CleanedAbove(c) ELSE {}))

\* The configuration cannot be saved after the permanent channel "d" below "c"
\* is removed: the removal stops there, after d and those subtrees that came
\* before it.
RemoveChannelFails(u, c) ==
    /\ u \in Authorized
    /\ Has(u, "MODIFY_CHANNELS")
    /\ c \in Channels
    /\ \E d \in Subtree(c) \ {c} :
          /\ chan[d].permanent
          /\ \E before \in SUBSET {e \in Subtree(c) \ Between(c, d) :
                                     chan[e].parent \in Between(c, d) \ {d}} :
                RemoveSubtrees(UNION {Subtree(e) : e \in before \cup {d}})

-----------------------------------------------------------------------------

Init ==
    /\ ip = [u \in User |-> None]
    /\ acct = [u \in User |-> None]
    /\ chanOf = [u \in User |-> None]
    /\ admins = [u \in User |-> 0]
    /\ \E max \in Capacity :
         chan = [c \in Channel |->
                   IF c = Root
                   THEN [parent |-> None, above |-> {}, name |-> None,
                         permanent |-> TRUE, hidden |-> FALSE, maxusers |-> max,
                         owner |-> None, users |-> {}, ops |-> {}]
                   ELSE None]

SessionNext ==
    \E u \in User :
        \/ \E i \in Ip : Connect(u, i)
        \/ \E a \in Account : Login(u, a) \/ LoginRefusedAfterKick(u, a)
        \/ Logout(u)
        \/ Disconnect(u)
        \/ \E v \in User : KickFromServer(u, v)

MemberNext ==
    \E u \in User :
        \/ LeaveChannel(u)
        \/ \E c \in Channel :
              \/ JoinChannel(u, c)
              \/ \E v \in User : MoveUser(u, v, c) \/ KickFromChannel(u, v, c)

TreeNext ==
    \E u \in User, c \in Channel :
        \/ \E p \in Channel, n \in ChannelName, permanent, hidden \in BOOLEAN :
              \/ JoinNewChannel(u, c, p, n, permanent, hidden)
              \/ JoinNewChannelFails(u, c, p, n, permanent, hidden)
              \/ \E max \in Capacity :
                    MakeChannel(u, c, p, n, permanent, hidden, max)
        \/ \E n \in ChannelName \cup {None}, permanent \in BOOLEAN,
              max \in Capacity : UpdateChannel(u, c, n, permanent, max)
        \/ \E v \in User, op \in BOOLEAN : ChannelOp(u, v, c, op)
        \/ RemoveChannel(u, c)
        \/ RemoveChannelFails(u, c)

Next == SessionNext \/ MemberNext \/ TreeNext

Spec == Init /\ [][Next]_vars
-----------------------------------------------------------------------------
(* What the server's bookkeeping promises. *)

\* Every variable holds a value of its kind.
TypeOK ==
    /\ ip \in [User -> Ip \cup {None}]
    /\ acct \in [User -> Account \cup {None}]
    /\ chanOf \in [User -> Channel \cup {None}]
    /\ admins \in [User -> Nat]
    /\ chan \in [Channel -> ChannelState \cup {None}]

\* A user's m_channel and the user lists of the channels say the same, and
\* m_channel never points at a channel that was removed: every handler that
\* empties or removes channels does so for all users it affects
\* (ServerNode.cpp:3182-3203).
MembershipAgrees ==
    /\ \A u \in User : chanOf[u] # None =>
          /\ chanOf[u] \in Channels
          /\ u \in chan[chanOf[u]].users
    /\ \A c \in Channels : \A u \in chan[c].users : chanOf[u] = c

\* Only users who are connected and logged in are in a channel: a kick, a second
\* login or a lost connection takes them out of it.
MembersHaveSessions ==
    /\ \A u \in User : chanOf[u] # None => u \in Authorized
    /\ Authorized \subseteq Connected

\* Both together: who is in a channel is listed there, connected and logged in, and
\* nobody else is listed.
MembershipConsistent == MembershipAgrees /\ MembersHaveSessions

\* The channels form a tree below the root: removing a channel, by a command or
\* because its last user left, never strands a channel below it.
TreeWellFormed ==
    /\ Root \in Channels
    /\ chan[Root].above = {}
    /\ \A c \in Channels \ {Root} :
          /\ chan[c].parent \in Channels
          /\ chan[c].above = chan[chan[c].parent].above \cup {chan[c].parent}
          /\ c \notin chan[c].above
          /\ ~chan[chan[c].parent].hidden

\* Siblings differ in name, which RemoveSubChannel, removing by name, relies on
\* (Channel.h:278-288).
SiblingNamesDiffer ==
    \A c, d \in Channels \ {Root} :
        c # d /\ chan[c].parent = chan[d].parent => chan[c].name # chan[d].name

\* The admin cache holds each administrator once and nobody else, as the debug
\* build asserts (ServerNode.cpp:161-169).
AdminCacheExact == \A u \in User : admins[u] = IF IsAdmin(u) THEN 1 ELSE 0

\* A temporary channel that only its sub channels, if any, could keep.
Barren(c) ==
    /\ c \in Channels
    /\ ~chan[c].permanent
    /\ chan[c].users = {}
    /\ SubChannels(c) = {}

\* Operator status does not outlive the session: a user id, once it is given to
\* another connection, is operator of nothing.
OperatorsHaveSessions == \A c \in Channels : chan[c].ops \subseteq Authorized

\* Of two sessions with one user name at least one, the later, may log in
\* multiple times.
SingleSession ==
    \A u, v \in Authorized :
        u # v /\ acct[u].username = acct[v].username
            => Has(u, "MULTI_LOGIN") \/ Has(v, "MULTI_LOGIN")

\* Administrators apart, no IP address has more sessions than the limit.
IpNotOverfull ==
    MaxLoginsPerIp # 0 =>
        \A i \in Ip : Cardinality({u \in Authorized : ip[u] = i /\ ~acct[u].admin})
                        <= MaxLoginsPerIp

\* Only users who may modify channels make a temporary channel that has nobody
\* in it or below it, or leave one behind: joins, moves, leaves, kicks, logouts and
\* lost connections take away all that they empty, climbing from channel to
\* channel (CleanChannels, ServerNode.cpp:3877-3897).
BarrenOnlyByEditors ==
    [][\A c \in Channel \ {Root} :
          Barren(c)' /\ ~Barren(c)
              => \E u \in Authorized : Has(u, "MODIFY_CHANNELS")]_vars

-----------------------------------------------------------------------------
(* The server implements Rooms. *)

PermanentChannels == {c \in Channels : chan[c].permanent}
ParentOf == [c \in Channel |-> IF c \in Channels THEN chan[c].parent ELSE None]

R == INSTANCE Rooms WITH
        Guest <- User, Room <- Channel, Lobby <- Root, Nowhere <- None,
        present <- Authorized, where <- chanOf, rooms <- Channels,
        inside <- ParentOf, lasting <- PermanentChannels

\* Users are in channels only while they are logged in, no session is moved but its
\* own user's or the one a command names, and of the channels exactly those close
\* by themselves that are temporary and emptied, from the one left up as far as
\* nothing else is below (UserLogout, UserLeaveChannel, UserJoinChannel and
\* CleanChannels, ServerNode.cpp:3877-3897).
ImplementsRooms == R!Spec
=============================================================================
