-------------------------- MODULE LoginGuardProofs --------------------------
(***************************************************************************)
(* Proofs, for every set of connections, addresses and names and whatever  *)
(* clients send, of what LoginGuard promises for the command queues.       *)
(***************************************************************************)
EXTENDS LoginGuard, SequenceTheorems, TLAPS

-----------------------------------------------------------------------------
(* The inductive invariant. *)

Called(c) == call # None /\ call.conn = c

\* The web login of n waits at the head of the queue of c.
HeadAsks(c, n) ==
    /\ recvbuf[c] # <<>>
    /\ Head(recvbuf[c]).cmd = "login"
    /\ Head(recvbuf[c]).name = n
    /\ account[c] = None

\* The queue of c waits exactly as long as something is on its way to it, and what
\* was asked and answered belongs to the command at its head.
Good(c) ==
    /\ suspended[c] =>
          /\ ~Called(c)
          /\ AwaitsTimer(c) \/ \E n \in WebName : AwaitsThread(c, n)
    /\ ~suspended[c] =>
          /\ AwaitsNothing(c)
          /\ \/ Called(c)
             \/ recvbuf[c] = <<>>
             \/ Head(recvbuf[c]).cmd = "quit"
    /\ Called(c) => recvbuf[c] # <<>>
    /\ \A n \in WebName : AwaitsThread(c, n) => HeadAsks(c, n)
    /\ c \notin barred /\ pending[c] # None =>
          /\ AwaitsTimer(c) \/ Called(c)
          /\ \E n \in WebName : HeadAsks(c, n) /\ pending[c] \in {n, Denied}

\* Nothing has happened yet on a connection that is still to come.
Fresh(c) ==
    /\ ~suspended[c]
    /\ AwaitsNothing(c)
    /\ recvbuf[c] = <<>>
    /\ pending[c] = None

Steady ==
    /\ Open \cap left = {}
    /\ call # None => call.conn \in Open
    /\ \A c \in Open : Good(c)
    /\ \A c \in Conn \ (Open \cup left) : Fresh(c)

-----------------------------------------------------------------------------
(* Type correctness. *)

\* What the fields of a command hold.
LEMMA CommandFields ==
    ASSUME NEW m \in Command
    PROVE  /\ m.cmd \in {"login", "logout", "quit"}
           /\ m.cmd = "login" => m.name \in Name /\ m.good \in BOOLEAN
BY DEF Command, LoginCommand

\* What the fields of a running loop hold.
LEMMA CallFields ==
    ASSUME NEW x \in Call
    PROVE  x.conn \in Conn /\ x # None
BY CallAssumption DEF Call

\* The command in hand is the head of the queue of the loop that runs.
LEMMA Carried ==
    ASSUME TypeOK, NEW c \in Conn, Carrying(c)
    PROVE  /\ call \in Call /\ Called(c)
           /\ recvbuf[c] \in Seq(Command) /\ recvbuf[c] # <<>>
           /\ InHand = Head(recvbuf[c]) /\ InHand \in Command
<1>1. call \in Call /\ call # None /\ call.conn = c /\ recvbuf[c] # <<>>
  BY DEF Carrying, TypeOK
<1>2. recvbuf[c] \in Seq(Command)
  BY DEF TypeOK
<1>3. Head(recvbuf[c]) \in Command
  BY <1>1, <1>2
<1> QED
  BY <1>1, <1>2, <1>3 DEF InHand, Called

\* Taking the command in hand off the queue keeps queue and loop of their kind.
LEMMA DoneTyped ==
    ASSUME TypeOK, NEW c \in Conn, Carrying(c), Done(c)
    PROVE  /\ recvbuf' \in [Conn -> Seq(Command)]
           /\ call' \in Call \cup {None}
<1>1. Tail(recvbuf[c]) \in Seq(Command)
  BY Carried
<1> QED
  BY <1>1 DEF Done, TypeOK

\* What a login is granted is an account, and the answer it uses up an answer.
LEMMA GrantedTyped ==
    ASSUME TypeOK, NEW c \in Conn, LogsIn(c)
    PROVE  /\ Granted(c) \in Name \cup {None}
           /\ InHand.name \in Name
           /\ AnswerUsed(c) \in [Conn -> WebName \cup {Denied, None}]
<1>1. InHand.name \in Name /\ InHand.good \in BOOLEAN
  BY Carried, CommandFields DEF LogsIn
<1> QED
  BY <1>1, LoginAssumption DEF Granted, AnswerUsed, IsWeb, TypeOK

\* Closing a connection keeps every variable of its kind.
LEMMA ClosedTyped == ASSUME TypeOK, NEW c \in Conn, Closed(c) PROVE TypeOK'
<1>1. <<>> \in Seq(Command)
  OBVIOUS
<1>2. recvbuf' \in [Conn -> Seq(Command)]
  BY <1>1 DEF Closed, TypeOK
<1>3. pending' \in [Conn -> WebName \cup {Denied, None}]
  BY DEF Closed, TypeOK
<1> QED
  BY <1>2, <1>3 DEF Closed, TypeOK

\* So does every command that the loop can carry out.
LEMMA CarryTyped == ASSUME TypeOK, NEW c \in Conn, c \in Open, Carry(c) PROVE TypeOK'
<1>0. ip[c] \in Ip
  BY DEF Open, TypeOK
<1>1. CASE Quit(c)
  BY <1>1, ClosedTyped DEF Quit, TypeOK
<1>2. CASE Logout(c)
  <2>1. pending' \in [Conn -> WebName \cup {Denied, None}]
    BY <1>2 DEF Logout, TypeOK
  <2>2. recvbuf' \in [Conn -> Seq(Command)] /\ call' \in Call \cup {None}
    BY <1>2, DoneTyped DEF Logout
  <2> QED
    BY <1>2, <2>1, <2>2 DEF Logout, TypeOK
<1>3. CASE LoginAgain(c)
  <2>1. recvbuf' \in [Conn -> Seq(Command)] /\ call' \in Call \cup {None}
    BY <1>3, DoneTyped DEF LoginAgain
  <2> QED
    BY <1>3, <2>1 DEF LoginAgain, TypeOK
<1>4. CASE LoginBanned(c)
  <2>1. recvbuf' \in [Conn -> Seq(Command)] /\ call' \in Call \cup {None}
    BY <1>4, DoneTyped DEF LoginBanned, LogsIn
  <2> QED
    BY <1>4, <2>1 DEF LoginBanned, TypeOK
<1>5. CASE Ask(c)
  <2>1. threads' \in [Conn -> [WebName -> Nat]]
    <3>1. threads[c] \in [WebName -> Nat] /\ InHand.name \in WebName
      BY <1>5 DEF Ask, IsWeb, TypeOK
    <3>2. threads[c][InHand.name] + 1 \in Nat
      BY <3>1
    <3> QED
      BY <1>5, <3>1, <3>2 DEF Ask, TypeOK
  <2>2. suspended' \in [Conn -> BOOLEAN]
    BY <1>5 DEF Ask, TypeOK
  <2> QED
    BY <1>5, <2>1, <2>2 DEF Ask, TypeOK
<1>6. ASSUME Authenticates(c), Done(c)
      PROVE  /\ recvbuf' \in [Conn -> Seq(Command)] /\ call' \in Call \cup {None}
             /\ AnswerUsed(c) \in [Conn -> WebName \cup {Denied, None}]
  BY <1>6, DoneTyped, GrantedTyped DEF Authenticates, LogsIn
<1>7. CASE LoginFails(c)
  <2> DEFINE n == failed[ip[c]] + 1
  <2>1. n \in Nat /\ (n > MaxLoginAttempts \/ n \in 0..MaxLoginAttempts)
    BY <1>0, LoginAssumption DEF TypeOK
  <2>2. failed' = [failed EXCEPT ![ip[c]] =
                      IF n > MaxLoginAttempts THEN MaxLoginAttempts ELSE n]
    BY <1>7 DEF LoginFails
  <2>3. banned' \in {banned, banned \cup {ip[c]}}
    BY <1>7 DEF LoginFails
  <2> HIDE DEF n
  <2>4. failed' \in [Ip -> 0..MaxLoginAttempts]
    BY <1>0, <2>1, <2>2, LoginAssumption DEF TypeOK
  <2>5. banned' \subseteq Ip \cup Name
    BY <1>0, <2>3 DEF TypeOK
  <2>6. /\ Authenticates(c) /\ Done(c) /\ pending' = AnswerUsed(c)
        /\ UNCHANGED <<ip, left, account, suspended, threads, timers, recent,
                       barred>>
    BY <1>7 DEF LoginFails
  <2> QED
    BY <1>6, <2>4, <2>5, <2>6 DEF TypeOK
<1>8. CASE LoginTooSoon(c)
  BY <1>6, <1>8 DEF LoginTooSoon, TypeOK
<1>9. ASSUME NEW K \in SUBSET Conn, LogsOut(c, K)
      PROVE  /\ recvbuf' \in [Conn -> Seq(Command)] /\ call' \in Call \cup {None}
             /\ pending' \in [Conn -> WebName \cup {Denied, None}]
             /\ recent' \subseteq Ip
             /\ SessionsWithout(K) \in [Conn -> Name \cup {None}]
             /\ UNCHANGED <<ip, left, suspended, threads, timers, banned, barred>>
  <2>1. /\ Authenticates(c) /\ Done(c)
        /\ pending' = [d \in Conn |-> IF d \in K THEN None ELSE AnswerUsed(c)[d]]
        /\ recent' = IF LoginDelay THEN recent \cup {ip[c]} ELSE recent
        /\ UNCHANGED <<ip, left, suspended, threads, timers, banned, barred>>
    BY <1>9 DEF LogsOut
  <2>2. pending' \in [Conn -> WebName \cup {Denied, None}]
    BY <1>6, <2>1
  <2>3. SessionsWithout(K) \in [Conn -> Name \cup {None}]
    BY DEF SessionsWithout, TypeOK
  <2>4. recent' \subseteq Ip
    BY <1>0, <2>1 DEF TypeOK
  <2> QED
    BY <1>6, <2>1, <2>2, <2>3, <2>4
<1>10. ASSUME NEW K \in SUBSET Conn, LoginRefused(c, K) PROVE TypeOK'
  BY <1>9, <1>10 DEF LoginRefused, TypeOK
<1>11. CASE LoginAccepted(c)
  <2> DEFINE K == Twins(c)
  <2>1. /\ LogsOut(c, K)
        /\ account' = [SessionsWithout(K) EXCEPT ![c] = Granted(c)]
        /\ failed' = [failed EXCEPT ![ip[c]] = 0]
    BY <1>11 DEF LoginAccepted
  <2>2. K \in SUBSET Conn
    BY DEF Twins
  <2>3. Granted(c) \in Name \cup {None}
    BY <1>0, <2>1, GrantedTyped DEF LogsOut, Authenticates
  <2> HIDE DEF K
  <2>4. account' \in [Conn -> Name \cup {None}]
    BY <1>9, <2>1, <2>2, <2>3
  <2>5. 0 \in 0..MaxLoginAttempts
    BY LoginAssumption
  <2>6. failed' \in [Ip -> 0..MaxLoginAttempts]
    BY <1>0, <2>1, <2>5 DEF TypeOK
  <2> QED
    BY <1>9, <2>1, <2>2, <2>4, <2>6 DEF TypeOK
<1> QED
  BY <1>0, <1>1, <1>2, <1>3, <1>4, <1>5, <1>7, <1>8, <1>10, <1>11 DEF Carry

\* So does every step.
LEMMA NextTyped == TypeOK /\ Steady /\ Next => TypeOK'
<1> SUFFICES ASSUME TypeOK, Steady, Next PROVE TypeOK'
  OBVIOUS
<1>1. ASSUME NEW c \in Conn, NEW i \in Ip, Connect(c, i) PROVE TypeOK'
  <2>1. ip' \in [Conn -> Ip \cup {None}]
    BY <1>1 DEF Connect, TypeOK
  <2> QED
    BY <1>1, <2>1 DEF Connect, TypeOK
<1>2. ASSUME NEW c \in Conn, Disconnect(c) \/ ReceiveTooMuch(c) PROVE TypeOK'
  BY <1>2, ClosedTyped DEF Disconnect, ReceiveTooMuch
<1>3. ASSUME NEW c \in Conn, NEW m \in Sends[c], Receive(c, m) PROVE TypeOK'
  <2>1. m \in Command
    BY CallAssumption
  <2>2. Append(recvbuf[c], m) \in Seq(Command)
    BY <2>1 DEF TypeOK
  <2>3. recvbuf' \in [Conn -> Seq(Command)]
    BY <1>3, <2>2 DEF Receive, TypeOK
  <2>4. call' \in Call \cup {None}
    BY <1>3 DEF Receive, Loop, Call
  <2> QED
    BY <1>3, <2>3, <2>4 DEF Receive, TypeOK
<1>4. ASSUME NEW c \in Conn, Carry(c) PROVE TypeOK'
  <2>1. Carrying(c)
    BY <1>4 DEF Carry, Quit, Logout, LoginAgain, LoginBanned, Ask, LoginFails,
                LoginTooSoon, LoginRefused, LoginAccepted, LogsOut, Authenticates,
                LogsIn
  <2>2. c \in Open
    BY <2>1 DEF Carrying, Steady
  <2> QED
    BY <1>4, <2>2, CarryTyped
<1>5. ASSUME NEW c \in Conn, NEW n \in WebName, NEW a \in WebName \cup {Denied},
             Answer(c, n, a)
      PROVE  TypeOK'
  <2>1. threads[c] \in [WebName -> Nat] /\ threads[c][n] - 1 \in Nat
    BY <1>5 DEF Answer, TypeOK
  <2>2. threads' \in [Conn -> [WebName -> Nat]]
    BY <1>5, <2>1 DEF Answer, TypeOK
  <2>3. timers[c] + 1 \in Nat
    BY DEF TypeOK
  <2>4. timers' \in [Conn -> Nat]
    BY <1>5, <2>3 DEF Answer, ResumeStarted, TypeOK
  <2>5. pending' \in [Conn -> WebName \cup {Denied, None}]
    BY <1>5 DEF Answer, TypeOK
  <2> QED
    BY <1>5, <2>2, <2>4, <2>5 DEF Answer, TypeOK
<1>6. ASSUME NEW c \in Conn, Resume(c) PROVE TypeOK'
  <2>1. timers[c] - 1 \in Nat
    BY <1>6 DEF Resume, TypeOK
  <2>2. timers' \in [Conn -> Nat] /\ suspended' \in [Conn -> BOOLEAN]
    BY <1>6, <2>1 DEF Resume, TypeOK
  <2>3. call' \in Call \cup {None}
    BY <1>6 DEF Resume, Call
  <2> QED
    BY <1>6, <2>2, <2>3 DEF Resume, TypeOK
<1>7. ASSUME NEW b \in Bannable, Ban(b) \/ UnBan(b) PROVE TypeOK'
  BY <1>7, LoginAssumption DEF Ban, UnBan, TypeOK
<1>8. ASSUME NEW i \in Ip, DelayEnds(i) PROVE TypeOK'
  BY <1>8 DEF DelayEnds, TypeOK
<1> QED
  BY <1>1, <1>2, <1>3, <1>4, <1>5, <1>6, <1>7, <1>8 DEF Next

-----------------------------------------------------------------------------
(* A step of one connection leaves what is true of the others. *)

\* Of d only the session and the answer kept may go.
Spared(d) ==
    /\ ip'[d] = ip[d] /\ (d \in left' <=> d \in left)
    /\ recvbuf'[d] = recvbuf[d]
    /\ suspended'[d] = suspended[d]
    /\ timers'[d] = timers[d]
    /\ threads'[d] = threads[d]
    /\ pending'[d] \in {pending[d], None}
    /\ account[d] = None => account'[d] = None
    /\ d \in barred' <=> d \in barred
    /\ call # None => call.conn # d
    /\ call' # None => call'.conn # d

\* A step that spares a connection leaves it good.
LEMMA SparedGood == ASSUME NEW d, Spared(d), Good(d) PROVE Good(d)'
<1>1. /\ AwaitsNothing(d)' <=> AwaitsNothing(d)
      /\ AwaitsTimer(d)' <=> AwaitsTimer(d)
      /\ \A n : AwaitsThread(d, n)' <=> AwaitsThread(d, n)
  BY DEF Spared, AwaitsNothing, AwaitsTimer, AwaitsThread
<1>2. \A n : HeadAsks(d, n) => HeadAsks(d, n)'
  BY DEF Spared, HeadAsks
<1>3. ~Called(d) /\ ~Called(d)'
  BY DEF Spared, Called
<1>4. /\ recvbuf'[d] = recvbuf[d] /\ suspended'[d] = suspended[d]
      /\ d \in barred' <=> d \in barred
      /\ pending'[d] \in {pending[d], None}
  BY DEF Spared
<1> QED
  BY <1>1, <1>2, <1>3, <1>4 DEF Good

\* A step that spares a connection still to come leaves it fresh.
LEMMA SparedFresh == ASSUME NEW d, Spared(d), Fresh(d) PROVE Fresh(d)'
BY DEF Spared, Fresh, AwaitsNothing

\* A step that spares all connections but one is steady if that one is good
\* afterwards, or gone.
LEMMA StepSteady ==
    ASSUME Steady, NEW c \in Conn,
           \A d \in Conn \ {c} : Spared(d),
           call' # None => call'.conn = c /\ ip'[c] # None,
           ip'[c] # None => c \notin left' /\ Good(c)',
           ip'[c] = None => c \in left',
           left' \subseteq Conn
    PROVE  Steady'
<1>1. \A d \in Conn \ {c} : (d \in Open' <=> d \in Open) /\ (d \in left' <=> d \in left)
  BY DEF Spared, Open
<1>2. c \in Open' <=> ip'[c] # None
  BY DEF Open
<1>3. Open \subseteq Conn /\ Open' \subseteq Conn
  BY DEF Open
<1>4. Open' \cap left' = {}
  BY <1>1, <1>2, <1>3 DEF Steady
<1>5. call' # None => call'.conn \in Open'
  BY <1>2
<1>6. ASSUME NEW d \in Open' PROVE Good(d)'
  <2>1. CASE d = c
    BY <1>2, <1>6, <2>1
  <2>2. CASE d # c
    <3>1. Spared(d) /\ Good(d)
      BY <1>1, <1>3, <1>6, <2>2 DEF Steady
    <3> QED
      BY <3>1, SparedGood
  <2> QED
    BY <2>1, <2>2
<1>7. ASSUME NEW d \in Conn \ (Open' \cup left') PROVE Fresh(d)'
  <2>1. d # c
    BY <1>2, <1>7
  <2>2. Spared(d) /\ Fresh(d)
    BY <1>1, <1>7, <2>1 DEF Steady
  <2> QED
    BY <2>2, SparedFresh
<1> QED
  BY <1>4, <1>5, <1>6, <1>7 DEF Steady

-----------------------------------------------------------------------------
(* The handlers. *)

\* A connection that closes is out of the loop, and never comes back.
LEMMA ClosedSteady ==
    ASSUME TypeOK, Steady, NEW c \in Conn, call # None => call.conn = c, Closed(c)
    PROVE  Steady'
<1>1. \A d \in Conn \ {c} : Spared(d)
  BY DEF Closed, Spared, TypeOK
<1>2. ip'[c] = None /\ c \in left' /\ left' \subseteq Conn /\ call' = None
  BY DEF Closed, TypeOK
<1> QED
  BY <1>1, <1>2, StepSteady

\* A new connection has an empty queue that waits for nothing.
LEMMA ConnectSteady ==
    ASSUME TypeOK, Steady, NEW c \in Conn, NEW i \in Ip, Connect(c, i)
    PROVE  Steady'
<1>1. \A d \in Conn \ {c} : Spared(d)
  BY DEF Connect, Spared, TypeOK
<1>2. ip'[c] # None /\ c \notin left' /\ left' \subseteq Conn /\ call' = None
  BY LoginAssumption DEF Connect, TypeOK
<1>3. Fresh(c) /\ call = None
  BY DEF Connect, Steady
<1>4. /\ ~suspended'[c] /\ AwaitsNothing(c)' /\ recvbuf'[c] = <<>> /\ pending'[c] = None
      /\ \A n \in WebName : threads'[c][n] # 1
  BY <1>3 DEF Connect, Fresh, AwaitsNothing
<1>5. Good(c)'
  BY <1>2, <1>4 DEF Good, Called, AwaitsThread
<1> QED
  BY <1>1, <1>2, <1>5, StepSteady

\* What a client sends goes behind what waits.
LEMMA ReceiveSteady ==
    ASSUME TypeOK, Steady, NEW c \in Conn, NEW m \in Sends[c], Receive(c, m)
    PROVE  Steady'
<1>1. \A d \in Conn \ {c} : Spared(d)
  BY DEF Receive, Spared, TypeOK, Loop
<1>2. /\ c \in Open /\ call = None
      /\ ip' = ip /\ left' = left /\ left \subseteq Conn
      /\ suspended' = suspended /\ timers' = timers /\ threads' = threads
      /\ pending' = pending /\ account' = account /\ barred' = barred
  BY DEF Receive, TypeOK
<1>3. ip'[c] # None /\ c \notin left'
  BY <1>2 DEF Open, Steady
<1>4. /\ call' = IF suspended[c] THEN None ELSE [conn |-> c, timer |-> FALSE]
      /\ [conn |-> c, timer |-> FALSE] # None
  <2>1. [conn |-> c, timer |-> FALSE] \in Call
    BY DEF Call
  <2>2. call' = Loop(c)
    BY DEF Receive
  <2> QED
    BY <2>1, <2>2, CallFields DEF Loop
<1>5. Called(c)' <=> ~suspended[c]
  BY <1>4 DEF Called
<1>6. /\ recvbuf[c] \in Seq(Command) /\ m \in Command
      /\ recvbuf'[c] = Append(recvbuf[c], m)
  BY CallAssumption DEF Receive, TypeOK
<1>7. /\ recvbuf'[c] # <<>>
      /\ recvbuf[c] # <<>> => Head(recvbuf'[c]) = Head(recvbuf[c])
  BY <1>6
<1>8. Good(c)
  BY <1>2 DEF Steady
<1>9. /\ AwaitsNothing(c)' <=> AwaitsNothing(c)
      /\ AwaitsTimer(c)' <=> AwaitsTimer(c)
      /\ \A n : AwaitsThread(c, n)' <=> AwaitsThread(c, n)
  BY <1>2 DEF AwaitsNothing, AwaitsTimer, AwaitsThread
<1>10. \A n : HeadAsks(c, n) => HeadAsks(c, n)'
  BY <1>2, <1>7 DEF HeadAsks
<1>11. ~Called(c)
  BY <1>2 DEF Called
<1>12. Good(c)'
  BY <1>2, <1>5, <1>7, <1>8, <1>9, <1>10, <1>11 DEF Good
<1> QED
  BY <1>1, <1>2, <1>3, <1>4, <1>12, StepSteady

\* In the loop nothing is on its way to the queue.
LEMMA CarriedGood ==
    ASSUME Steady, NEW c \in Conn, Carrying(c)
    PROVE  /\ ip[c] # None /\ c \in Open /\ c \notin left /\ Good(c)
           /\ Called(c) /\ ~suspended[c] /\ AwaitsNothing(c)
           /\ ~AwaitsTimer(c) /\ \A n \in WebName : ~AwaitsThread(c, n)
<1>1. c \in Open /\ Called(c)
  BY DEF Carrying, Called, Steady
<1>2. ip[c] # None /\ c \notin left /\ Good(c)
  BY <1>1 DEF Open, Steady
<1>3. ~suspended[c] /\ AwaitsNothing(c)
  BY <1>1, <1>2 DEF Good
<1>4. ~AwaitsTimer(c)
  BY <1>3 DEF AwaitsNothing, AwaitsTimer
<1>5. \A n \in WebName : ~AwaitsThread(c, n)
  BY <1>3 DEF AwaitsNothing, AwaitsThread
<1> QED
  BY <1>1, <1>2, <1>3, <1>4, <1>5

\* The next command meets no answer to the one that is done.
LEMMA DoneSteady ==
    ASSUME TypeOK, Steady, NEW c \in Conn, Carrying(c), Done(c),
           UNCHANGED <<ip, left, suspended, threads, timers>>,
           \A d \in Conn \ {c} : d \in barred' <=> d \in barred,
           \A d \in Conn \ {c} : /\ pending'[d] \in {pending[d], None}
                                 /\ account[d] = None => account'[d] = None,
           c \notin barred' => pending'[c] = None
    PROVE  Steady'
<1>1. call # None /\ call.conn = c /\ recvbuf[c] \in Seq(Command) /\ recvbuf[c] # <<>>
  BY Carried DEF Called
<1>2. /\ recvbuf' = [recvbuf EXCEPT ![c] = Tail(@)]
      /\ call' = IF Len(recvbuf[c]) = 1 THEN None ELSE call
  BY DEF Done
<1>3. \A d \in Conn \ {c} : Spared(d)
  BY <1>1, <1>2 DEF Spared, TypeOK
<1>4. /\ recvbuf'[c] = Tail(recvbuf[c])
      /\ Called(c)' => recvbuf'[c] # <<>>
      /\ ~Called(c)' => recvbuf'[c] = <<>>
  <2>1. recvbuf'[c] = Tail(recvbuf[c])
    BY <1>2 DEF TypeOK
  <2>2. Len(recvbuf[c]) = 1 <=> Tail(recvbuf[c]) = <<>>
    <3> DEFINE s == recvbuf[c]
    <3>1. s \in Seq(Command) /\ s # <<>>
      BY <1>1
    <3> HIDE DEF s
    <3>2. Tail(s) \in Seq(Command) /\ Len(Tail(s)) = Len(s) - 1 /\ Len(s) \in Nat
      BY <3>1
    <3>3. Tail(s) = <<>> <=> Len(Tail(s)) = 0
      BY <3>2, EmptySeq
    <3>4. Len(s) = 1 <=> Tail(s) = <<>>
      BY <3>2, <3>3
    <3> QED
      BY <3>4 DEF s
  <2>3. Called(c)' <=> Len(recvbuf[c]) # 1
    BY <1>1, <1>2 DEF Called
  <2> QED
    BY <2>1, <2>2, <2>3
<1>5. /\ ~suspended'[c] /\ AwaitsNothing(c)'
      /\ \A n \in WebName : ~AwaitsThread(c, n)'
      /\ ip'[c] # None /\ c \notin left'
  BY CarriedGood DEF AwaitsNothing, AwaitsThread
<1>6. Good(c)'
  BY <1>4, <1>5 DEF Good
<1>7. left' \subseteq Conn /\ (call' # None => call'.conn = c)
  BY <1>1, <1>2 DEF TypeOK
<1> QED
  BY <1>3, <1>5, <1>6, <1>7, StepSteady

\* Every command carried out leaves all queues as they should be, those of the
\* sessions it kicks included.
LEMMA CarrySteady == ASSUME TypeOK, Steady, NEW c \in Conn, Carry(c) PROVE Steady'
<1>0. Carrying(c)
  BY DEF Carry, Quit, Logout, LoginAgain, LoginBanned, Ask, LoginFails, LoginTooSoon,
         LoginRefused, LoginAccepted, LogsOut, Authenticates, LogsIn
<1>1. call # None /\ call.conn = c
  BY <1>0 DEF Carrying
<1>2. /\ Good(c) /\ ip[c] # None /\ c \notin left /\ recvbuf[c] # <<>>
      /\ InHand = Head(recvbuf[c]) /\ InHand \in Command
      /\ ~suspended[c] /\ AwaitsNothing(c) /\ ~AwaitsTimer(c) /\ Called(c)
  BY <1>0, Carried, CarriedGood
\* An answer is there only for the web login in hand, of a user not logged in.
<1>3. ASSUME c \notin barred, pending[c] # None
      PROVE  account[c] = None /\ InHand.cmd = "login" /\ IsWeb
  BY <1>2, <1>3 DEF Good, HeadAsks, IsWeb
<1>4. CASE Quit(c)
  <2>1. CASE ~call.timer
    BY <1>1, <1>4, <2>1, ClosedSteady DEF Quit
  <2>2. CASE call.timer
    <3>1. call' = None
          /\ UNCHANGED <<ip, left, account, recvbuf, suspended, threads, pending,
                         timers, failed, recent, banned, barred>>
      BY <1>4, <2>2 DEF Quit
    <3>2. \A d \in Conn \ {c} : Spared(d)
      BY <1>1, <3>1 DEF Spared
    <3>3. InHand.cmd = "quit"
      BY <1>4 DEF Quit
    <3>4. c \in barred \/ pending[c] = None
      BY <1>3, <3>3
    <3>5. Head(recvbuf'[c]).cmd = "quit" /\ recvbuf' = recvbuf
      BY <1>2, <3>1, <3>3
    <3>6. /\ AwaitsNothing(c)' /\ ~suspended'[c] /\ ~Called(c)'
          /\ \A n \in WebName : ~AwaitsThread(c, n)'
          /\ c \in barred' \/ pending'[c] = None
      BY <1>0, <3>1, <3>4, CarriedGood
         DEF AwaitsNothing, AwaitsThread, Called
    <3>7. Good(c)'
      BY <3>5, <3>6 DEF Good
    <3>8. left' \subseteq Conn /\ ip'[c] # None /\ c \notin left'
      BY <1>2, <3>1 DEF TypeOK
    <3> QED
      BY <3>1, <3>2, <3>7, <3>8, StepSteady
  <2> QED
    BY <2>1, <2>2
<1>5. CASE Logout(c)
  <2>1. /\ InHand.cmd = "logout" /\ Done(c)
        /\ account' = [account EXCEPT ![c] = None]
        /\ pending' = IF account[c] = None THEN pending
                      ELSE [pending EXCEPT ![c] = None]
        /\ UNCHANGED <<ip, left, suspended, threads, timers, barred>>
    BY <1>5 DEF Logout
  <2>2. c \notin barred => pending'[c] = None
    BY <1>3, <2>1 DEF TypeOK
  <2>3. \A d \in Conn \ {c} : /\ pending'[d] \in {pending[d], None}
                              /\ account[d] = None => account'[d] = None
    BY <2>1 DEF TypeOK
  <2> QED
    BY <1>0, <2>1, <2>2, <2>3, DoneSteady
<1>6. CASE LoginAgain(c)
  <2>1. /\ account[c] # None /\ Done(c)
        /\ UNCHANGED <<ip, left, account, suspended, threads, pending, timers, barred>>
    BY <1>6 DEF LoginAgain
  <2>2. c \notin barred => pending'[c] = None
    BY <1>3, <2>1
  <2> QED
    BY <1>0, <2>1, <2>2, DoneSteady
<1>7. CASE LoginBanned(c)
  <2>1. /\ Done(c)
        /\ barred' = IF pending[c] = None THEN barred ELSE barred \cup {c}
        /\ UNCHANGED <<ip, left, account, suspended, threads, pending, timers>>
    BY <1>7 DEF LoginBanned
  <2>2. c \notin barred' => pending'[c] = None
    BY <2>1
  <2>3. \A d \in Conn \ {c} : d \in barred' <=> d \in barred
    BY <2>1
  <2> QED
    BY <1>0, <2>1, <2>2, <2>3, DoneSteady
<1>8. CASE Ask(c)
  <2>0. PICK n \in WebName : n = InHand.name
    BY <1>8 DEF Ask, IsWeb
  <2>1. /\ LogsIn(c) /\ pending[c] = None
        /\ threads' = [threads EXCEPT ![c][n] = @ + 1]
        /\ suspended' = [suspended EXCEPT ![c] = TRUE]
        /\ call' = None
        /\ UNCHANGED <<ip, left, account, recvbuf, pending, timers, barred>>
    BY <1>8, <2>0 DEF Ask
  <2>2. \A d \in Conn \ {c} : Spared(d)
    BY <1>1, <2>1 DEF Spared, TypeOK
  <2>3. \A m \in WebName : threads'[c][m] = IF m = n THEN threads[c][m] + 1
                                            ELSE threads[c][m]
    BY <2>1 DEF TypeOK
  <2>4. AwaitsThread(c, n)'
    <3>1. timers'[c] = 0 /\ \A m \in WebName : threads[c][m] = 0
      BY <1>2, <2>1 DEF AwaitsNothing
    <3>2. \A m \in WebName : threads'[c][m] = IF m = n THEN 1 ELSE 0
      BY <2>3, <3>1
    <3> QED
      BY <3>1, <3>2 DEF AwaitsThread
  <2>5. ASSUME NEW m \in WebName, AwaitsThread(c, m)' PROVE m = n
    <3>1. threads'[c][m] = 1
      BY <2>5 DEF AwaitsThread
    <3>2. threads'[c][m] = IF m = n THEN 1 ELSE 0
      BY <2>4 DEF AwaitsThread
    <3> QED
      BY <3>1, <3>2
  <2>6. HeadAsks(c, n)'
    <3>1. InHand.cmd = "login" /\ account[c] = None
      BY <2>1 DEF LogsIn
    <3>2. /\ recvbuf'[c] # <<>> /\ account'[c] = None
          /\ Head(recvbuf'[c]) = InHand
      BY <1>2, <2>1, <3>1
    <3> QED
      BY <2>0, <3>1, <3>2 DEF HeadAsks
  <2>7. suspended'[c] /\ ~Called(c)' /\ pending'[c] = None
    BY <2>1 DEF Called, TypeOK
  <2>8. Good(c)'
    BY <2>4, <2>5, <2>6, <2>7 DEF Good
  <2>9. left' \subseteq Conn /\ ip'[c] # None /\ c \notin left'
    BY <1>2, <2>1 DEF TypeOK
  <2> QED
    BY <2>1, <2>2, <2>8, <2>9, StepSteady
\* The answer is used, or there was none.
<1>9. ASSUME c \notin barred PROVE AnswerUsed(c)[c] = None
  BY <1>3, <1>9 DEF AnswerUsed, TypeOK
<1>10. \A d \in Conn \ {c} : AnswerUsed(c)[d] = pending[d]
  BY DEF AnswerUsed, TypeOK
<1>11. CASE LoginFails(c) \/ LoginTooSoon(c)
  <2>1. /\ Done(c) /\ pending' = AnswerUsed(c)
        /\ UNCHANGED <<ip, left, account, suspended, threads, timers, barred>>
    BY <1>11 DEF LoginFails, LoginTooSoon
  <2> QED
    BY <1>0, <1>9, <1>10, <2>1, DoneSteady
\* Sessions of the name asked are logged out.
<1>12. ASSUME NEW K \in SUBSET Conn, LogsOut(c, K)
       PROVE  /\ Done(c)
              /\ UNCHANGED <<ip, left, suspended, threads, timers, barred>>
              /\ c \notin barred => pending'[c] = None
              /\ \A d \in Conn \ {c} : pending'[d] \in {pending[d], None}
  <2>1. /\ Done(c)
        /\ pending' = [d \in Conn |-> IF d \in K THEN None ELSE AnswerUsed(c)[d]]
        /\ UNCHANGED <<ip, left, suspended, threads, timers, barred>>
    BY <1>12 DEF LogsOut
  <2> QED
    BY <1>9, <1>10, <2>1
<1>13. ASSUME NEW K \in SUBSET Conn, LoginRefused(c, K) PROVE Steady'
  <2>1. LogsOut(c, K) /\ account' = SessionsWithout(K)
    BY <1>13 DEF LoginRefused
  <2>2. \A d \in Conn : account[d] = None => account'[d] = None
    BY <2>1 DEF SessionsWithout
  <2> QED
    BY <1>0, <1>12, <2>1, <2>2, DoneSteady
<1>14. CASE LoginAccepted(c)
  <2> DEFINE K == Twins(c)
  <2>1. /\ LogsOut(c, K)
        /\ account' = [SessionsWithout(K) EXCEPT ![c] = Granted(c)]
    BY <1>14 DEF LoginAccepted
  <2>2. K \in SUBSET Conn
    BY DEF Twins
  <2> HIDE DEF K
  <2>3. \A d \in Conn \ {c} : account[d] = None => account'[d] = None
    BY <2>1 DEF SessionsWithout
  <2> QED
    BY <1>0, <1>12, <2>1, <2>2, <2>3, DoneSteady
<1> QED
  BY <1>4, <1>5, <1>6, <1>7, <1>8, <1>11, <1>13, <1>14 DEF Carry

\* The service's answer meets the login that asked for it, and starts its timer.
LEMMA AnswerSteady ==
    ASSUME TypeOK, Steady, NEW c \in Conn, NEW n \in WebName,
           NEW a \in WebName \cup {Denied}, Answer(c, n, a)
    PROVE  Steady'
<1>1. /\ call = None /\ call' = None /\ threads[c][n] > 0 /\ a \in {n, Denied}
      /\ threads' = [threads EXCEPT ![c][n] = @ - 1]
      /\ UNCHANGED <<ip, left, account, recvbuf, suspended, barred>>
  BY DEF Answer
<1>2. \A d \in Conn \ {c} : Spared(d)
  BY <1>1 DEF Answer, Spared, TypeOK, ResumeStarted
<1>3. \A m \in WebName : threads'[c][m] = IF m = n THEN threads[c][m] - 1
                                          ELSE threads[c][m]
  BY <1>1 DEF TypeOK
<1>4. threads[c][n] # 0
  BY <1>1
<1>5. CASE c \in Open
  <2>1. Good(c) /\ ip'[c] # None /\ c \notin left
    BY <1>1, <1>5 DEF Steady, Open
  <2>2. ~AwaitsNothing(c) /\ ~AwaitsTimer(c)
    BY <1>4 DEF AwaitsNothing, AwaitsTimer
  <2>3. PICK k \in WebName : AwaitsThread(c, k)
    BY <2>1, <2>2 DEF Good
  <2>4. k = n /\ suspended[c]
    BY <1>4, <2>1, <2>2, <2>3 DEF AwaitsThread, Good
  <2>5. /\ timers[c] = 0 /\ \A m \in WebName : threads[c][m] = IF m = n THEN 1 ELSE 0
    BY <2>3, <2>4 DEF AwaitsThread
  <2>6. /\ pending' = [pending EXCEPT ![c] = a]
        /\ timers' = [timers EXCEPT ![c] = @ + 1]
    BY <1>5 DEF Answer, ResumeStarted
  <2>7. timers'[c] = 1
    BY <2>5, <2>6 DEF TypeOK
  <2>8. \A m \in WebName : threads'[c][m] = 0
    BY <1>3, <2>5
  <2>9. AwaitsTimer(c)'
    BY <2>7, <2>8 DEF AwaitsTimer
  <2>10. \A m \in WebName : ~AwaitsThread(c, m)'
    BY <2>7 DEF AwaitsThread
  <2>11. HeadAsks(c, n)
    BY <2>1, <2>3, <2>4 DEF Good
  <2>12. HeadAsks(c, n)'
    BY <1>1, <2>11 DEF HeadAsks
  <2>13. pending'[c] \in {n, Denied} /\ suspended'[c] /\ ~Called(c)'
    BY <1>1, <2>4, <2>6 DEF TypeOK, Called
  <2>14. Good(c)'
    BY <2>9, <2>10, <2>12, <2>13 DEF Good
  <2>15. left' \subseteq Conn
    BY <1>1 DEF TypeOK
  <2> QED
    BY <1>1, <1>2, <2>1, <2>14, <2>15, StepSteady
<1>6. CASE c \notin Open
  <2>1. ~Fresh(c)
    BY <1>4 DEF Fresh, AwaitsNothing
  <2>2. c \in left
    BY <1>6, <2>1 DEF Steady
  <2>3. ip'[c] = None /\ c \in left' /\ left' \subseteq Conn
    BY <1>1, <1>6, <2>2 DEF Open, TypeOK
  <2> QED
    BY <1>1, <1>2, <2>3, StepSteady
<1> QED
  BY <1>5, <1>6

\* The timer sets the loop to the login that was answered.
LEMMA ResumeSteady ==
    ASSUME TypeOK, Steady, NEW c \in Conn, Resume(c)
    PROVE  Steady'
<1>1. /\ call = None /\ timers[c] > 0
      /\ timers' = [timers EXCEPT ![c] = @ - 1]
      /\ suspended' = [suspended EXCEPT ![c] = FALSE]
      /\ call' = IF c \notin Open \/ recvbuf[c] = <<>> THEN None
                 ELSE [conn |-> c, timer |-> TRUE]
      /\ UNCHANGED <<ip, left, account, recvbuf, threads, pending, barred>>
  BY DEF Resume
<1>2. \A d \in Conn \ {c} : Spared(d)
  BY <1>1 DEF Spared, TypeOK
<1>3. timers[c] # 0 /\ left' \subseteq Conn
  BY <1>1 DEF TypeOK
<1>4. CASE c \in Open
  <2>1. Good(c) /\ ip'[c] # None /\ c \notin left
    BY <1>1, <1>4 DEF Steady, Open
  <2>2. ~AwaitsNothing(c) /\ \A n \in WebName : ~AwaitsThread(c, n)
    BY <1>3 DEF AwaitsNothing, AwaitsThread
  <2>3. AwaitsTimer(c)
    BY <2>1, <2>2 DEF Good
  <2>4. timers[c] = 1 /\ \A n \in WebName : threads'[c][n] = 0
    BY <1>1, <2>3 DEF AwaitsTimer
  <2>5. timers'[c] = 0 /\ ~suspended'[c]
    BY <1>1, <2>4 DEF TypeOK
  <2>6. AwaitsNothing(c)'
    BY <2>4, <2>5 DEF AwaitsNothing
  <2>7. \A n \in WebName : ~AwaitsThread(c, n)'
    BY <2>4 DEF AwaitsThread
  <2>8. [conn |-> c, timer |-> TRUE] \in Call /\ [conn |-> c, timer |-> TRUE].conn = c
    BY DEF Call
  <2>9. [conn |-> c, timer |-> TRUE] # None
    BY <2>8, CallFields
  <2>10. Called(c)' <=> recvbuf'[c] # <<>>
    BY <1>1, <1>4, <2>8, <2>9 DEF Called
  <2>11. \A n : HeadAsks(c, n) => HeadAsks(c, n)' /\ recvbuf[c] # <<>>
    BY <1>1 DEF HeadAsks
  <2>12. Good(c)'
    BY <1>1, <2>1, <2>5, <2>6, <2>7, <2>10, <2>11 DEF Good
  <2>13. call' # None => call'.conn = c
    BY <1>1, <2>8
  <2> QED
    BY <1>1, <1>2, <1>3, <2>1, <2>12, <2>13, StepSteady
<1>5. CASE c \notin Open
  <2>1. ~Fresh(c)
    BY <1>3 DEF Fresh, AwaitsNothing
  <2>2. c \in left
    BY <1>5, <2>1 DEF Steady
  <2>3. ip'[c] = None /\ c \in left' /\ call' = None
    BY <1>1, <1>5, <2>2 DEF Open
  <2> QED
    BY <1>2, <1>3, <2>3, StepSteady
<1> QED
  BY <1>4, <1>5

\* What Steady speaks of.
connVars == <<ip, left, account, recvbuf, suspended, call, threads, pending, timers,
              barred>>

\* What touches no queue, thread or timer leaves all queues as they should be.
LEMMA KeptSteady == Steady /\ UNCHANGED connVars => Steady'
<1> SUFFICES ASSUME Steady, UNCHANGED connVars PROVE Steady'
  OBVIOUS
<1>1. /\ ip' = ip /\ left' = left /\ account' = account /\ recvbuf' = recvbuf
      /\ suspended' = suspended /\ call' = call /\ threads' = threads
      /\ pending' = pending /\ timers' = timers /\ barred' = barred
  BY DEF connVars
<1>2. Open' = Open
  BY <1>1 DEF Open
<1>3. \A c : /\ AwaitsNothing(c)' <=> AwaitsNothing(c)
             /\ AwaitsTimer(c)' <=> AwaitsTimer(c)
             /\ Called(c)' <=> Called(c)
             /\ \A n : AwaitsThread(c, n)' <=> AwaitsThread(c, n)
             /\ \A n : HeadAsks(c, n)' <=> HeadAsks(c, n)
  BY <1>1 DEF AwaitsNothing, AwaitsTimer, AwaitsThread, Called, HeadAsks
<1>4. \A c : Good(c) => Good(c)'
  BY <1>1, <1>3 DEF Good
<1>5. \A c : Fresh(c) => Fresh(c)'
  BY <1>1, <1>3 DEF Fresh
<1> QED
  BY <1>1, <1>2, <1>4, <1>5 DEF Steady

\* Every step leaves all queues as they should be.
LEMMA NextSteady == TypeOK /\ Steady /\ Next => Steady'
<1> SUFFICES ASSUME TypeOK, Steady, Next PROVE Steady'
  OBVIOUS
<1>1. ASSUME NEW c \in Conn, Disconnect(c) \/ ReceiveTooMuch(c) PROVE Steady'
  BY <1>1, ClosedSteady DEF Disconnect, ReceiveTooMuch
<1>2. ASSUME NEW b \in Bannable, Ban(b) \/ UnBan(b) PROVE Steady'
  BY <1>2, KeptSteady DEF Ban, UnBan, connVars
<1>3. ASSUME NEW i \in Ip, DelayEnds(i) PROVE Steady'
  BY <1>3, KeptSteady DEF DelayEnds, connVars
<1> QED
  BY <1>1, <1>2, <1>3, ConnectSteady, ReceiveSteady, CarrySteady, AnswerSteady,
     ResumeSteady DEF Next

-----------------------------------------------------------------------------
(* The results. *)

Inv == TypeOK /\ Steady

\* The invariant holds before anyone has connected.
LEMMA InitInv == Init => Inv
<1> SUFFICES ASSUME Init PROVE Inv
  OBVIOUS
<1>1. TypeOK
  BY LoginAssumption DEF Init, TypeOK
<1>2. Open = {} /\ left = {} /\ call = None
  BY DEF Init, Open
<1>3. \A c \in Conn : Fresh(c)
  BY DEF Init, Fresh, AwaitsNothing
<1> QED
  BY <1>1, <1>2, <1>3 DEF Inv, Steady

\* Every step preserves the invariant.
LEMMA NextInv == Inv /\ [Next]_vars => Inv'
<1> SUFFICES ASSUME Inv, [Next]_vars PROVE Inv'
  OBVIOUS
<1>1. CASE Next
  BY <1>1, NextTyped, NextSteady DEF Inv
<1>2. CASE UNCHANGED vars
  <2>1. TypeOK'
    BY <1>2 DEF vars, Inv, TypeOK
  <2>2. Steady'
    BY <1>2, KeptSteady DEF vars, connVars, Inv
  <2> QED
    BY <2>1, <2>2 DEF Inv
<1> QED
  BY <1>1, <1>2

\* The inductive invariant holds always: every open connection has a queue that waits
\* for exactly what is on its way to it (ServerUser.cpp:206-229).
THEOREM Invariant == Spec => []Inv
BY InitInv, NextInv, PTL DEF Spec

\* Every variable keeps a value of its kind.
THEOREM TypeCorrect == Spec => []TypeOK
<1>1. Inv => TypeOK
  BY DEF Inv
<1> QED
  BY <1>1, Invariant, PTL

\* A queue waits exactly as long as one thread or one timer is on its way to it,
\* whoever connects, sends, leaves or is banned (ServerUser.cpp:206-229,
\* ServerGuard.cpp:845-888, ServerNode.cpp:647-656).
THEOREM QueuesWaitForAnswers == Spec => []QueueWaitsForAnswer
<1>1. ASSUME Inv PROVE QueueWaitsForAnswer
  <2> SUFFICES ASSUME NEW c \in Open, call # None => call.conn # c
               PROVE  \/ /\ suspended[c]
                         /\ AwaitsTimer(c) \/ \E n \in WebName : AwaitsThread(c, n)
                      \/ /\ ~suspended[c]
                         /\ AwaitsNothing(c)
                         /\ recvbuf[c] = <<>> \/ Head(recvbuf[c]).cmd = "quit"
    BY DEF QueueWaitsForAnswer
  <2>1. Good(c) /\ ~Called(c)
    BY <1>1 DEF Inv, Steady, Called
  <2> QED
    BY <2>1 DEF Good
<1> QED
  BY <1>1, Invariant, PTL

\* A login is granted the account it asked for, but where a ban left an earlier
\* answer behind (ServerGuard.cpp:845-888).
THEOREM AccountsAreAsAsked == Spec => AccountAsAsked
<1> DEFINE Asked == \A c \in Conn :
              account[c] = None /\ account'[c] # None =>
                  account'[c] = InHand.name \/ c \in barred
<1>1. ASSUME Inv, Next PROVE Asked
  <2> SUFFICES ASSUME NEW c \in Conn, account[c] = None, account'[c] # None
               PROVE  account'[c] = InHand.name \/ c \in barred
    OBVIOUS
  <2>0. account \in [Conn -> Name \cup {None}]
    BY <1>1 DEF Inv, TypeOK
  <2>1. ASSUME NEW d \in Conn, LoginAccepted(d) PROVE account'[c] = InHand.name \/ c \in barred
    <3> DEFINE K == Twins(d)
    <3>1. /\ LogsOut(d, K)
          /\ account' = [SessionsWithout(K) EXCEPT ![d] = Granted(d)]
      BY <2>1 DEF LoginAccepted
    <3> HIDE DEF K
    <3>2. c = d
      BY <3>1 DEF SessionsWithout
    <3>3. account'[c] = Granted(c) /\ LogsIn(c)
      BY <3>1, <3>2 DEF SessionsWithout, LogsOut, Authenticates
    <3>4. Good(c)
      BY <1>1, <3>3, CarriedGood DEF Inv, LogsIn
    <3>5. CASE ~IsWeb
      BY <2>0, <3>3, <3>5 DEF Granted
    <3>6. CASE IsWeb /\ c \notin barred
      <4>1. Granted(c) = pending[c] /\ pending[c] # Denied /\ pending[c] # None
        BY <3>3, <3>6 DEF Granted
      <4>2. pending[c] = Head(recvbuf[c]).name
        BY <3>4, <3>6, <4>1 DEF Good, HeadAsks
      <4>3. InHand = Head(recvbuf[c])
        BY <1>1, <3>3, Carried DEF Inv, LogsIn
      <4> QED
        BY <3>3, <4>1, <4>2, <4>3
    <3> QED
      BY <3>2, <3>5, <3>6
  <2>2. ASSUME NEW d \in Conn,
               \/ Disconnect(d) \/ ReceiveTooMuch(d)
               \/ Quit(d) \/ Logout(d) \/ LoginAgain(d) \/ LoginBanned(d)
               \/ Ask(d) \/ LoginFails(d) \/ LoginTooSoon(d)
               \/ \E K \in SUBSET Conn : LoginRefused(d, K)
               \/ Resume(d)
        PROVE  FALSE
    BY <2>0, <2>2 DEF Disconnect, ReceiveTooMuch, Quit, Closed, Logout, LoginAgain,
                      LoginBanned, Ask, LoginFails, LoginTooSoon, LoginRefused,
                      SessionsWithout, Resume
  <2>3. ASSUME \/ \E d \in Conn :
                     \/ \E i \in Ip : Connect(d, i)
                     \/ \E m \in Sends[d] : Receive(d, m)
                     \/ \E n \in WebName, a \in WebName \cup {Denied} : Answer(d, n, a)
               \/ \E b \in Bannable : Ban(b) \/ UnBan(b)
               \/ \E i \in Ip : DelayEnds(i)
        PROVE  FALSE
    BY <2>3 DEF Connect, Receive, Answer, Ban, UnBan, DelayEnds
  <2> QED
    BY <1>1, <2>1, <2>2, <2>3 DEF Next, Carry
<1>2. ASSUME Inv, [Next]_vars PROVE [Asked]_vars
  BY <1>1, <1>2
<1>3. Spec => [][Asked]_vars
  BY <1>2, Invariant, PTL DEF Spec
<1> QED
  BY <1>3 DEF AccountAsAsked
=============================================================================
