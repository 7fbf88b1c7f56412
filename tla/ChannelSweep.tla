---------------------------- MODULE ChannelSweep ----------------------------
(***************************************************************************)
(* CleanChannels, RemoveChannel and the loops that call them, call by call *)
(* as ServerNode.cpp makes them, over an arbitrary channel tree.           *)
(*                                                                         *)
(* ServerNode states the outcome of these mutually recursive functions in  *)
(* closed form (Cleaned, CleanedAbove, LastDown). The properties here say  *)
(* that the closed form and the recursion agree.                           *)
(***************************************************************************)
EXTENDS Integers, FiniteSets, SequencesExt

CONSTANTS User, Depth, None

Root == 1
Channel == 1..Depth    \* a sub channel has a greater id than its elder siblings

VARIABLES
    parent,      \* m_parent
    permanent,   \* CHANNEL_PERMANENT of m_chantype
    members,     \* m_vecUsers
    live         \* the ids GetChannel finds below m_rootchannel

vars == <<parent, permanent, members, live>>

-----------------------------------------------------------------------------
(* The functions, on a value [members, live] of the tree they mutate. *)

Subs(t, c) == SetToSortSeq({d \in t.live : parent[d] = c}, <)

\* Mutant: without the climb to the parent.
CleanOnce(t, c, kept) ==
    IF c # Root /\ t.members[c] = {} /\ Subs(t, c) = <<>> /\ ~(permanent[c] \/ c = kept)
    THEN [t EXCEPT !.live = @ \ {c}] ELSE t

\* CleanChannels: climb while the channel is empty, childless and temporary.
\* The RemoveChannel it calls has nothing left to empty.
RECURSIVE CleanChannels(_, _, _)
CleanChannels(t, c, kept) ==
    IF /\ c # Root
       /\ t.members[c] = {}
       /\ Subs(t, c) = <<>>
       /\ ~(permanent[c] \/ c = kept)
    THEN CleanChannels([t EXCEPT !.live = @ \ {c}], parent[c], kept)
    ELSE t

\* UserLeaveChannel, with the channel a join protects.
Leave(t, u, c, kept) ==
    CleanChannels([t EXCEPT !.members[c] = @ \ {u}], c, kept)

\* RemoveChannel: the sub channels in order, then the users one by one, then the
\* channel itself unless a kick has removed it.
RECURSIVE RemoveChannel(_, _)
RemoveChannel(t, c) ==
    LET childless == FoldLeft(LAMBDA s, d : RemoveChannel(s, d), t, Subs(t, c))
        empty == FoldSet(LAMBDA u, s : Leave(s, u, c, None), childless,
                         childless.members[c])
    IN IF c \in empty.live /\ c # Root
       THEN [empty EXCEPT !.live = @ \ {c}] ELSE empty

\* UserLogin kicks every session of a user name.
LeaveAll(t, K) ==
    FoldSet(LAMBDA u, s :
                IF \E c \in s.live : u \in s.members[c]
                THEN Leave(s, u, CHOOSE c \in s.live : u \in s.members[c], None)
                ELSE s,
            t, K)

-----------------------------------------------------------------------------

Tree == [members |-> members, live |-> live]
Becomes(t) ==
    /\ live' = t.live
    /\ members' = [c \in Channel |-> IF c \in t.live THEN t.members[c] ELSE {}]
    /\ UNCHANGED <<parent, permanent>>

Init ==
    /\ parent \in {p \in [Channel -> 0..(Depth - 1)] :
                     p[Root] = 0 /\ \A c \in Channel \ {Root} : p[c] \in 1..(c - 1)}
    /\ permanent \in {p \in [Channel -> BOOLEAN] : p[Root]}
    /\ \E at \in [User -> Channel \cup {0}] :
          members = [c \in Channel |-> {u \in User : at[u] = c}]
    /\ live = Channel

DoKick(K) == K # {} /\ Becomes(LeaveAll(Tree, K))
DoLeave(u, c, kept) ==
    /\ u \in members[c]
    /\ c # kept
    /\ Becomes(Leave(Tree, u, c, kept))
DoRemove(c) == Becomes(RemoveChannel(Tree, c))

Next ==
    \/ \E K \in SUBSET User : DoKick(K)
    \/ \E u \in User, c, kept \in live : DoLeave(u, c, kept)
    \/ \E c \in live : DoRemove(c)

Spec == Init /\ [][Next]_vars

-----------------------------------------------------------------------------
(* Agreement with the closed form. *)

\* m_parent followed to the root, as ServerNode records it.
Above[c \in 0..Depth] ==
    IF c <= 1 THEN {} ELSE Above[parent[c]] \cup {parent[c]}

Abstract ==
    [c \in Channel |->
        IF c \notin live THEN None
        ELSE [parent |-> IF c = Root THEN None ELSE parent[c],
              above |-> Above[c], name |-> None,
              permanent |-> permanent[c], hidden |-> FALSE,
              maxusers |-> Cardinality(User), owner |-> None,
              users |-> members[c], ops |-> {}]]

SN == INSTANCE ServerNode WITH
    chan <- Abstract,
    chanOf <- [u \in User |-> IF \E c \in live : u \in members[c]
                              THEN CHOOSE c \in live : u \in members[c] ELSE None],
    ip <- [u \in User |-> None], acct <- [u \in User |-> None],
    admins <- [u \in User |-> 0],
    Ip <- {}, Account <- {}, Username <- {}, ChannelName <- {},
    Capacity <- {Cardinality(User)}, MaxUsers <- Cardinality(User),
    MaxLoginsPerIp <- 0, OpPasswordKnown <- FALSE

\* However the leaves of a set of users interleave with the climbs they start
\* (ServerNode.cpp:2708-2717), Cleaned says which channels are gone in the end; so
\* it does for the leave within a join, whose new channel is protected
\* (ServerNode.cpp:3001-3010); and the removal of a channel, with the climbs its
\* kicks start and the last of them possibly leaving the subtree
\* (ServerNode.cpp:3943-3960), is one of ServerNode's.
SweepAgrees ==
    [][/\ \A K \in SUBSET User :
             DoKick(K) => Abstract' = SN!Without(K, SN!Cleaned(K, None))
       /\ \A u \in User, c, kept \in live :
             DoLeave(u, c, kept)
                 => Abstract' = SN!Without({u}, SN!Cleaned({u}, kept))
       /\ \A c \in live :
             DoRemove(c) =>
                 \E d \in live :
                     /\ SN!LastDown(c, d)
                     /\ SN!RemoveSubtrees(SN!Subtree(c) \cup
                            (IF SN!Climbs(d) THEN SN!CleanedAbove(c) ELSE {}))]_vars
=============================================================================
