-------------------------- MODULE SoloViewsProofs --------------------------
(***************************************************************************)
(* Proofs of what SoloViews promises: that it is SoloTransmit with what    *)
(* clients show added, and that members are shown the queue's changes.     *)
(***************************************************************************)
EXTENDS SoloViews, SoloTransmitProofs

\* Every step of the views is a step of the channel, or leaves it alone.
LEMMA ViewStep == [ViewNext]_viewVars => [Next]_vars
<1> SUFFICES ASSUME [ViewNext]_viewVars PROVE [Next]_vars
  OBVIOUS
<1>1. CASE ViewPacket
  BY <1>1 DEF ViewPacket, Next
<1>2. CASE ViewCommand
  <2>1. ASSUME NEW U \in {{}} \cup {{u} : u \in User}, NEW s \in Settings, Create(U, s)
        PROVE  CommandNext
    BY <2>1 DEF CommandNext
  <2>2. ASSUME NEW u \in User, Join(u) \/ Leave(u)  PROVE CommandNext
    BY <2>2 DEF CommandNext
  <2>3. RemoveChannel => CommandNext
    BY DEF CommandNext
  <2>4. ASSUME NEW s \in Settings, UpdateChannel(s)  PROVE CommandNext
    BY <2>4 DEF CommandNext
  <2>5. CommandNext
    BY <1>2, <2>1, <2>2, <2>3, <2>4 DEF ViewCommand
  <2> QED  BY <2>5 DEF Next
<1>3. CASE ViewSweep
  BY <1>3 DEF ViewSweep, Next
<1>4. CASE Tick
  BY <1>4 DEF Next
<1>5. CASE UNCHANGED viewVars
  BY <1>5 DEF viewVars, vars
<1> QED  BY <1>1, <1>2, <1>3, <1>4, <1>5 DEF ViewNext

\* What the clients show does not keep the channel from anything it does: the views
\* implement SoloTransmit, so what holds of the channel holds here.
THEOREM ViewsExtendChannel == ViewSpec => Spec
<1>1. ViewInit => Init
  BY DEF ViewInit
<1> QED
  BY <1>1, ViewStep, PTL DEF ViewSpec, Spec

THEOREM ViewInvariant == ViewSpec => []Inv
BY ViewsExtendChannel, Invariant, PTL

-----------------------------------------------------------------------------
\* Audio packets and the timer tell the members, leaving those who stay, and
\* updating everybody; whatever else changes the queue makes or removes the channel.
LEMMA TellingStep ==
    ASSUME ViewNext, ~QuietPacket, exists, exists', prop'.solo,
           Observer \in members \cap members', queue' # queue
    PROVE  shown' = queue'
<1>1. ASSUME UpdateSent(members') \/ UpdateSent(User)  PROVE shown' = queue'
  BY <1>1, ObserverAssumption DEF UpdateSent
<1>2. ToldOfChange = members'
  BY DEF ToldOfChange
<1>3. CASE ViewPacket
  <2>1. AudioPacket /\ UpdateSent(IF prop.solo THEN ToldOfChange ELSE {})
    BY <1>3 DEF ViewPacket
  <2>2. prop' = prop
    BY <2>1 DEF AudioPacket, Denied, StreamTimedOut, TransmitFreely, StreamBlocked,
                TransmitInTurn
  <2> QED  BY <1>1, <1>2, <2>1, <2>2
<1>4. CASE ViewCommand
  <2>1. /\ \A U, s : ~Create(U, s)
        /\ \A u \in User : ~Join(u)
        /\ ~RemoveChannel
    BY DEF Create, Join, RemoveChannel
  <2>2. \/ UpdateSent(ToldOfChange)
        \/ UpdateSent(User)
    BY <1>4, <2>1 DEF ViewCommand
  <2> QED  BY <1>1, <1>2, <2>2
<1>5. CASE ViewSweep
  BY <1>1, <1>2, <1>5 DEF ViewSweep
<1>6. ~Tick
  BY DEF Tick
<1> QED  BY <1>3, <1>4, <1>5, <1>6 DEF ViewNext

\* A member is shown every change of the queue as it happens, whatever changes it,
\* but for the denied packets that change it without a word.
THEOREM MembersSeeTheQueue == ViewSpec => MemberShownChanges
<1> DEFINE Shown ==
      /\ ~QuietPacket
      /\ exists /\ exists' /\ prop'.solo
      /\ Observer \in members \cap members'
      /\ queue' # queue
      => shown' = queue'
<1>1. ViewNext => Shown
  BY TellingStep
<1>2. [ViewNext]_viewVars => [Shown]_viewVars
  BY <1>1
<1> QED
  BY <1>2, PTL DEF ViewSpec, MemberShownChanges
=============================================================================
