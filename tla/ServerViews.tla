----------------------------- MODULE ServerViews -----------------------------
(***************************************************************************)
(* What the clients of a TeamTalk server believe of its channels and users. *)
(*                                                                         *)
(* A client keeps a copy of the channel tree (client/ClientNode.cpp) which *)
(* it builds only from the commands the server sends it. Nothing ever      *)
(* compares the copy with the server's tree: it is right if every handler  *)
(* of ServerNode sends the right commands to the right users. Who is sent  *)
(* what depends on two user rights, to see the users of other channels and *)
(* to see hidden channels, and on who is where at the time.                *)
(*                                                                         *)
(* A step is a step of ServerNode together with the commands its handler   *)
(* sends, in the order in which it sends them; "view" is a client's copy   *)
(* once it has handled everything sent to it, for commands travel in order *)
(* over a TCP connection. A client is identified by its user id.           *)
(***************************************************************************)
EXTENDS ServerNode

VARIABLE view       \* what each client believes

viewVars == <<ip, acct, chanOf, admins, chan, view>>

\* ClientNode: "known" are the channels under m_rootchannel, "listed" the users
\* of m_users, "placed" the channel of each user.
View == [known : SUBSET Channel, listed : SUBSET User,
         placed : [User -> Channel \cup {None}]]

\* ClientNode::LoggedOut.
Blank == [known |-> {}, listed |-> {}, placed |-> [u \in User |-> None]]

-----------------------------------------------------------------------------
(* The client's handlers. *)

HandleAddChannels(v, C) == [v EXCEPT !.known = @ \cup C]

\* A user's channel is a weak pointer: it goes with the channel.
HandleRemoveChannels(v, C) ==
    [v EXCEPT !.known = @ \ C,
              !.placed = [u \in User |-> IF @[u] \in C THEN None ELSE @[u]]]

HandleRemoveUsers(v, K) ==
    [v EXCEPT !.placed = [u \in User |-> IF u \in K THEN None ELSE @[u]]]

\* The client ignores a user who joins a channel it does not know.
HandleAddUsers(v, K, to) ==
    [v EXCEPT !.placed = [u \in User |-> IF u \in K /\ to[u] \in v.known
                                         THEN to[u] ELSE @[u]]]

HandleLoggedInOut(v, In, Out) == [v EXCEPT !.listed = (@ \ Out) \cup In]

-----------------------------------------------------------------------------
(* Whom the server tells what: the commands sent to the client of user w. *)

SeesChannel(w, c) == chan[c].hidden => Has(w, "VIEW_HIDDEN_CHANNELS")

\* GetNotificationUsers, for news of the users of channel c: those in it and
\* those who watch it from outside.
Watches(w, c) == Has(w, "VIEW_ALL_USERS") /\ SeesChannel(w, c)
HearsOfUsers(w, c) == chanOf[w] = c \/ Watches(w, c)

Leavers == {u \in User : chanOf[u] # None /\ chanOf'[u] # chanOf[u]}
Joiners == {u \in User : chanOf'[u] # None /\ chanOf'[u] # chanOf[u]}

\* MakeChannel.
ToldMade(w) ==
    {c \in Channel : chan[c] = None /\ chan'[c] # None /\ SeesChannel(w, c)'}

\* Mutant: the leaver is not told that it sees the others no more.
ToldLeftOnly(w) == {u \in Leavers : HearsOfUsers(w, chanOf[u])}

\* UserLeaveChannel: who left, to those who hear of it; and a leaver who sees
\* only the users of its own channel sees the others no more.
ToldLeft(w) ==
    {u \in Leavers : HearsOfUsers(w, chanOf[u])} \cup
    {u \in User : /\ w \in Leavers
                  /\ ~Has(w, "VIEW_ALL_USERS")
                  /\ chanOf[u] = chanOf[w]}

\* A hidden channel is shown only while one is in it.
HiddenAgain(w) ==
    {c \in Channels : w \in Leavers /\ chanOf[w] = c /\ ~SeesChannel(w, c)}

\* Mutants: asks for both rights, as the news of the users of a channel do, and
\* asks for the right to see hidden channels whatever the channel.
ToldRemovedBoth(w) ==
    {c \in Channels : /\ chan'[c] = None
                      /\ Has(w, "VIEW_ALL_USERS")
                      /\ SeesChannel(w, c)}
ToldRemovedSeekers(w) ==
    {c \in Channels : chan'[c] = None /\ Has(w, "VIEW_HIDDEN_CHANNELS")}

\* RemoveChannel: those who see hidden channels are told that one is gone, but
\* that a channel that is not hidden is gone, only those who see all users.
ToldRemoved(w) ==
    {c \in Channels : /\ chan'[c] = None
                      /\ IF chan[c].hidden THEN Has(w, "VIEW_HIDDEN_CHANNELS")
                                           ELSE Has(w, "VIEW_ALL_USERS")}

\* Mutant: only the users of its channel are told that a user logged out.
ToldLoggedOutNearby(w) ==
    {u \in Authorized : /\ acct'[u] = None
                        /\ Has(w, "VIEW_ALL_USERS") /\ chanOf[u] = chanOf[w]}

\* UserLogout and UserLogin.
ToldLoggedOut(w) ==
    {u \in Authorized : acct'[u] = None /\ Has(w, "VIEW_ALL_USERS")}
ToldLoggedIn(w) ==
    {u \in User \ Authorized : acct'[u] # None /\ Has(w, "VIEW_ALL_USERS")}

\* UserJoinChannel shows a hidden channel to the user entering it.
ToldEntered(w) ==
    {c \in Channel : w \in Joiners /\ chanOf'[w] = c /\ ~SeesChannel(w, c)'}

\* Mutant: news of a hidden channel's users go to all who see all users.
ToldJoinedHidden(w) ==
    {u \in Joiners : chanOf'[w] = chanOf'[u] \/ Has(w, "VIEW_ALL_USERS")}

\* UserJoinChannel: who joined, to those who hear of it; and a joiner who did
\* not see the users of the channel before sees them now.
ToldJoined(w) ==
    {u \in Joiners : HearsOfUsers(w, chanOf[u])'} \cup
    {u \in User : /\ w \in Joiners
                  /\ ~Watches(w, chanOf[w])'
                  /\ chanOf'[u] = chanOf'[w]}

\* UserLogin of w itself: ForwardChannels, DoLoggedIn and ForwardUsers.
ForwardChannels(w) ==
    HandleAddChannels(Blank, {c \in Channels : SeesChannel(w, c)})
ForwardUsers(w, v) ==
    IF Has(w, "VIEW_ALL_USERS")
    THEN HandleAddUsers(HandleLoggedInOut(v, Authorized, {}),
                        UsersIn({c \in Channels : SeesChannel(w, c)}), chanOf)
    ELSE v

-----------------------------------------------------------------------------
(* The commands of a step, in the order of the handlers. *)

\* Mutant: a client that logs out keeps what it knows.
NotifyKeeping ==
    view' = [w \in User |->
        IF w \in Authorized' \ Authorized
        THEN ForwardUsers(w, ForwardChannels(w))'
        ELSE view[w]]

\* A channel is made, then left, removed when left empty, then entered.
AfterMade(w) == HandleAddChannels(view[w], ToldMade(w))
AfterLeft(w) ==
    HandleRemoveChannels(HandleRemoveUsers(AfterMade(w), ToldLeft(w)),
                         HiddenAgain(w) \cup ToldRemoved(w))
AfterEntered(w) ==
    HandleAddChannels(
        HandleLoggedInOut(AfterLeft(w), ToldLoggedIn(w), ToldLoggedOut(w)),
        ToldEntered(w))

Notify ==
    view' = [w \in User |->
        IF w \notin Authorized' THEN Blank
        ELSE IF w \notin Authorized THEN ForwardUsers(w, ForwardChannels(w))'
        ELSE HandleAddUsers(AfterEntered(w), ToldJoined(w), chanOf')]

\* A bound of the model: the id of a channel that is gone is not given to a
\* hidden channel while some client still knows it. Such a client would keep two
\* channels of one id, which the set "known" cannot tell apart.
HiddenIdsFresh ==
    \A c \in Channel, w \in User :
        chan[c] = None /\ chan'[c] # None /\ chan'[c].hidden
            => c \notin view[w].known

ViewInit == Init /\ view = [w \in User |-> Blank]
ViewNext == Next /\ Notify /\ HiddenIdsFresh
ViewSpec == ViewInit /\ [][ViewNext]_viewVars

-----------------------------------------------------------------------------
(* What the notifications promise. *)

\* A client believes something of the server's channels and users only while it
\* is logged in.
ViewOK ==
    /\ view \in [User -> View]
    /\ \A w \in User \ Authorized : view[w] = Blank

\* A logged in client knows every channel its user may see, including the hidden
\* one it is in, and of the hidden channels no other; and if its user sees all
\* users it knows no channel that is gone.
KnowsItsChannels ==
    \A w \in Authorized :
        LET visible == {c \in Channels : SeesChannel(w, c) \/ chanOf[w] = c} IN
        /\ visible \subseteq view[w].known
        /\ \A c \in view[w].known \ visible :
              ~Has(w, "VIEW_ALL_USERS") /\ c \notin Channels

\* When a hidden channel is gone no client keeps it, whether it knew the channel by
\* right or by being in it.
HiddenChannelVanishes ==
    [][\A c \in Channels :
          chan[c].hidden /\ chan'[c] = None
              => \A w \in User : c \notin view'[w].known]_viewVars

\* A client lists everyone who is logged in, or nobody.
ListsAllUsers ==
    \A w \in Authorized :
        view[w].listed = IF Has(w, "VIEW_ALL_USERS") THEN Authorized ELSE {}

\* A client places each user exactly where the user is if its own user may know,
\* and nowhere otherwise: whatever joins, moves, kicks, logouts and removals it
\* was told of, in whatever order, and whatever it was told when it logged in.
PlacesUsersRightly ==
    \A w \in Authorized, u \in User :
        view[w].placed[u] =
            IF chanOf[u] # None /\ HearsOfUsers(w, chanOf[u]) THEN chanOf[u]
            ELSE None

\* Every command finds the client ready for it, as the client's assertions say
\* (ClientNode.cpp:5316, 5365, 5433, 5510-5512, 5552, 5703-5709): a new channel's
\* parent is known, a user who leaves is placed there, a channel removed is known
\* and not the client's own, a user logging in is new and one logging out is not,
\* and a user who joins is nowhere else and joins a channel the client knows.
CommandsFindClientReady ==
    [][\A w \in Authorized \cap Authorized' :
          /\ \A c \in ToldMade(w) : chan'[c].parent \in view[w].known
          /\ \A u \in ToldLeft(w) : view[w].placed[u] = chanOf[u]
          /\ HiddenAgain(w) \cup ToldRemoved(w) \subseteq view[w].known
          /\ HiddenAgain(w) \cap ToldRemoved(w) = {}
          /\ chanOf'[w] \notin ToldRemoved(w)
          /\ ToldLoggedIn(w) \cap view[w].listed = {}
          /\ ToldLoggedOut(w) \subseteq view[w].listed
          /\ \A u \in ToldJoined(w) :
                /\ AfterLeft(w).placed[u] = None
                /\ chanOf'[u] \in AfterEntered(w).known]_viewVars

\* The channels a client is given are the channels on the server
\* (TeamTalk_DLL/TeamTalk.h:7247): none that was removed.
ForgetsRemovedChannels == \A w \in Authorized : view[w].known \subseteq Channels
=============================================================================
