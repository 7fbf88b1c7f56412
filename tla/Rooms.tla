-------------------------------- MODULE Rooms --------------------------------
(***************************************************************************)
(* What the sessions and channels of the server come to, without accounts, *)
(* rights, connections and commands: guests come and go, enter rooms and   *)
(* leave them, and each room but the lobby is inside another.              *)
(*                                                                         *)
(* Rooms open, become lasting or cease to be, and are closed when somebody *)
(* decides so. Otherwise a room closes only behind those who leave: when   *)
(* the last guest has left it and nothing inside it is open, and then      *)
(* always, unless it is lasting. Nobody else is put out by that.           *)
(*                                                                         *)
(* The actions say which next values are allowed, not how they are found.  *)
(***************************************************************************)
CONSTANTS Guest, Room, Lobby, Nowhere

VARIABLES
    present,  \* the guests who are here
    where,    \* the room each of them is in, Nowhere for none
    rooms,    \* the rooms that are open
    inside,   \* the room each of these is inside
    lasting   \* those of them that stay open without guests

vars == <<present, where, rooms, inside, lasting>>

\* Open rooms that nothing keeps open.
Deserted ==
    {r \in rooms \ (lasting \cup {Lobby}) :
        /\ \A g \in Guest : where[g] # r
        /\ \A s \in rooms : inside[s] # r}

\* No room is left inside one that is not open.
Rooted == Lobby \in rooms /\ \A r \in rooms \ {Lobby} : inside[r] \in rooms

-----------------------------------------------------------------------------

\* Rooms are closed, and those that are not stay as they are.
Shrink ==
    /\ rooms' \subseteq rooms
    /\ inside' = [r \in Room |-> IF r \in rooms' THEN inside[r] ELSE Nowhere]
    /\ lasting' = lasting \cap rooms'
    /\ Rooted'

\* Room r opens inside room s.
Grow(r, s) ==
    /\ rooms' \ rooms = {r}
    /\ s \in rooms \cap rooms'
    /\ inside' = [x \in Room |-> IF x = r THEN s
                                 ELSE IF x \in rooms' THEN inside[x] ELSE Nowhere]
    /\ lasting' \ {r} = lasting \cap rooms'
    /\ Rooted'

\* The rooms that close behind guests G, who leave: none that is lasting, has other
\* guests or was deserted before, and all that would be deserted now.
CloseBehind(G) ==
    LET closed == rooms \ rooms' IN
    /\ closed \cap (lasting \cup {Lobby} \cup Deserted) = {}
    /\ \A g \in Guest : where[g] \in closed => g \in G
    /\ Deserted' \subseteq Deserted

LeaveFor(G, r) == where' = [g \in Guest |-> IF g \in G THEN r ELSE where[g]]

\* A guest comes, and others may have to go for it.
Come(g) ==
    LET gone == present \ present' IN
    /\ present' \ present = {g}
    /\ LeaveFor(gone, Nowhere)
    /\ Shrink
    /\ CloseBehind(gone)

\* Guests go.
Go ==
    LET gone == present \ present' IN
    /\ present' \subseteq present
    /\ LeaveFor(gone, Nowhere)
    /\ Shrink
    /\ CloseBehind(gone)

Leave(g) ==
    /\ where[g] # Nowhere
    /\ UNCHANGED present
    /\ LeaveFor({g}, Nowhere)
    /\ Shrink
    /\ CloseBehind({g})

Enter(g, r) ==
    /\ g \in present
    /\ r \in rooms'
    /\ UNCHANGED present
    /\ LeaveFor({g}, r)
    /\ Shrink
    /\ CloseBehind({g})

\* A guest enters a room that opens for it.
EnterNew(g, r, s) ==
    /\ g \in present
    /\ UNCHANGED present
    /\ LeaveFor({g}, r)
    /\ Grow(r, s)
    /\ CloseBehind({g})

Open(r, s) ==
    /\ Grow(r, s)
    /\ rooms \subseteq rooms'
    /\ UNCHANGED <<present, where>>

\* It is decided anew which rooms are lasting.
Settle ==
    /\ lasting' \subseteq rooms
    /\ UNCHANGED <<present, where, rooms, inside>>

\* Rooms are closed and their guests put out, perhaps those of the lobby as well.
Close(emptied) ==
    /\ Shrink
    /\ where' = [g \in Guest |-> IF where[g] \in rooms' \ emptied THEN where[g]
                                 ELSE Nowhere]
    /\ UNCHANGED present

-----------------------------------------------------------------------------

Init ==
    /\ present = {}
    /\ where = [g \in Guest |-> Nowhere]
    /\ rooms = {Lobby}
    /\ inside = [r \in Room |-> Nowhere]
    /\ lasting = {Lobby}

Next ==
    \/ \E g \in Guest :
          \/ Come(g)
          \/ Leave(g)
          \/ \E r \in Room : Enter(g, r) \/ \E s \in Room : EnterNew(g, r, s)
    \/ Go
    \/ \E r, s \in Room : Open(r, s)
    \/ Settle
    \/ \E emptied \in {{}, {Lobby}} : Close(emptied)

Spec == Init /\ [][Next]_vars
=============================================================================
