----------------------------- MODULE LoginGuard -----------------------------
(***************************************************************************)
(* Logging in: the command queue of a connection, logins that a web        *)
(* service must answer, and what the server remembers of failed logins.    *)
(*                                                                         *)
(* The commands of a connection are carried out in the order received. A   *)
(* web login starts a thread that asks the service, and stays at the head  *)
(* of the queue; the queue waits. The thread leaves its answer under the   *)
(* user id and starts a timer, which carries out the same command again,   *)
(* now finding the answer, and then the rest of the queue. Meanwhile       *)
(* connections close, commands arrive, and bans come and go.               *)
(*                                                                         *)
(* The server lock is held by the loop over a queue, by the second half of *)
(* the thread and by the timer. The loop takes one step per command here,  *)
(* and "call" says that the lock is held by it. The limits on users and on *)
(* logins per address are in module ServerNode: here a login may be        *)
(* refused by them at any time.                                            *)
(***************************************************************************)
EXTENDS Integers, Sequences

CONSTANTS
    Conn,             \* TCP connections, by their user ids
    Ip,               \* addresses
    Name,             \* user names
    WebName,          \* those the web service authenticates: IsWebLogin()
    MultiLogin,       \* those that may be logged in more than once
    Bannable,         \* addresses and names administrators ban and unban
    MaxLoginAttempts, \* ServerSettings::maxloginattempts, 0 for no limit
    LoginDelay,       \* whether ServerSettings::logindelay is above zero
    MaxCommands,      \* MAX_COMMAND_LENGTH, in commands
    Sends,            \* bound: the commands the client of each connection sends
    Denied,           \* the answer of a web login that failed
    None              \* the null connection, name or answer

ASSUME LoginAssumption ==
    /\ Conn \subseteq Nat
    /\ WebName \subseteq Name
    /\ Bannable \subseteq Ip \cup Name
    /\ MaxLoginAttempts \in Nat
    /\ LoginDelay \in BOOLEAN
    /\ MaxCommands \in Nat
    /\ None \notin Conn \cup Ip \cup Name \cup {Denied}
    /\ Denied \notin Name

\* "good" says whether the password is right; a web login has none to look at.
LoginCommand == {m \in [cmd : {"login"}, name : Name, good : BOOLEAN] :
                    m.name \in WebName => ~m.good}
Command == LoginCommand \cup [cmd : {"logout", "quit"}]

\* ProcessCommandQueue: for whom, and whether the timer called it.
Call == [conn : Conn, timer : BOOLEAN]

ASSUME CallAssumption == Sends \in [Conn -> SUBSET Command] /\ None \notin Call

VARIABLES
    ip,         \* m_mUsers: the address of an open connection, None otherwise
    left,       \* connections closed
    account,    \* m_account: the user name, None when not authorized
    recvbuf,    \* m_recvbuf: the commands not done
    suspended,  \* m_cmdsuspended
    call,       \* the loop over a queue that runs, None otherwise
    threads,    \* threads that ask the service, by connection and name
    pending,    \* m_pendinglogin
    timers,     \* resume timers started, by connection
    failed,     \* m_failedlogins: how many
    recent,     \* m_logindelay: addresses whose last login is too recent
    banned,     \* the addresses and names banned
    barred      \* history: connections that lost an answer to a ban

vars == <<ip, left, account, recvbuf, suspended, call, threads,
          pending, timers, failed, recent, banned, barred>>

Open == {c \in Conn : ip[c] # None}

-----------------------------------------------------------------------------
(* Connections. *)

\* GetNewUserID: ids rise, and none is used again before they wrap at TT_MAX_ID.
Connect(c, i) ==
    /\ call = None
    /\ c \notin Open \cup left
    /\ \A d \in Conn : d < c => d \in Open \cup left
    /\ ip' = [ip EXCEPT ![c] = i]
    /\ UNCHANGED <<left, account, recvbuf, suspended, call, threads,
                   pending, timers, failed, recent, banned, barred>>

\* UserDisconnected. UserLogout makes the guard forget the answer kept for the
\* user; a connection that is not logged in leaves it.
Closed(c) ==
    /\ ip' = [ip EXCEPT ![c] = None]
    /\ left' = left \cup {c}
    /\ barred' = barred \ {c}
    /\ account' = [account EXCEPT ![c] = None]
    /\ recvbuf' = [recvbuf EXCEPT ![c] = <<>>]
    /\ suspended' = [suspended EXCEPT ![c] = FALSE]
    /\ pending' = IF account[c] = None THEN pending
                  ELSE [pending EXCEPT ![c] = None]
    /\ call' = None
    /\ UNCHANGED <<threads, timers, failed, recent, banned>>

\* The client closes the connection, or CheckKeepAlive drops it.
Disconnect(c) ==
    /\ call = None
    /\ c \in Open
    /\ Closed(c)

\* Mutant: the loop runs although the queue waits.
LoopAlways(c) == [conn |-> c, timer |-> FALSE]

\* ProcessCommandQueue(false) does nothing while the queue waits.
Loop(c) == IF suspended[c] THEN None ELSE [conn |-> c, timer |-> FALSE]

\* ReceiveData.
Receive(c, m) ==
    /\ call = None
    /\ c \in Open
    /\ Len(recvbuf[c]) <= MaxCommands
    /\ recvbuf' = [recvbuf EXCEPT ![c] = Append(@, m)]
    /\ call' = Loop(c)
    /\ UNCHANGED <<ip, left, account, suspended, threads, pending,
                   timers, failed, recent, banned, barred>>

ReceiveTooMuch(c) ==
    /\ call = None
    /\ c \in Open
    /\ Len(recvbuf[c]) > MaxCommands
    /\ Closed(c)

-----------------------------------------------------------------------------
(* The loop over a queue: one command. *)

InHand == Head(recvbuf[call.conn])

Carrying(c) == call # None /\ call.conn = c /\ recvbuf[c] # <<>>

\* CMD_DONE: on to the next command or out of the loop.
Done(c) ==
    /\ recvbuf' = [recvbuf EXCEPT ![c] = Tail(@)]
    /\ call' = IF Len(recvbuf[c]) = 1 THEN None ELSE call

\* CMD_ABORT. A connection that receives closes; the timer does not look at
\* what the loop returns, and the command stays.
Quit(c) ==
    /\ Carrying(c)
    /\ InHand.cmd = "quit"
    /\ IF call.timer
       THEN /\ call' = None
            /\ UNCHANGED <<ip, left, account, recvbuf, suspended,
                           threads, pending, timers, failed, recent, banned,
                           barred>>
       ELSE Closed(c)

\* UserLogout, refused to a user who is not logged in.
Logout(c) ==
    /\ Carrying(c)
    /\ InHand.cmd = "logout"
    /\ Done(c)
    /\ account' = [account EXCEPT ![c] = None]
    /\ pending' = IF account[c] = None THEN pending
                  ELSE [pending EXCEPT ![c] = None]
    /\ UNCHANGED <<ip, left, suspended, threads, timers, failed, recent,
                   banned, barred>>

LoginAgain(c) ==
    /\ Carrying(c)
    /\ InHand.cmd = "login"
    /\ account[c] # None
    /\ Done(c)
    /\ UNCHANGED <<ip, left, account, suspended, threads, pending, timers,
                   failed, recent, banned, barred>>

-----------------------------------------------------------------------------
(* UserLogin and AuthenticateUser. *)

LogsIn(c) ==
    /\ Carrying(c)
    /\ InHand.cmd = "login"
    /\ account[c] = None

IsBanned(c) == banned \cap {ip[c], InHand.name} # {}
IsWeb == InHand.name \in WebName

LoginBanned(c) ==
    /\ LogsIn(c)
    /\ IsBanned(c)
    /\ Done(c)
    /\ barred' = IF pending[c] = None THEN barred ELSE barred \cup {c}
    /\ UNCHANGED <<ip, left, account, suspended, threads, pending, timers,
                   failed, recent, banned>>

\* The thread is started and the command stays at the head of the queue.
Ask(c) ==
    /\ LogsIn(c)
    /\ ~IsBanned(c)
    /\ IsWeb
    /\ pending[c] = None
    /\ threads' = [threads EXCEPT ![c][InHand.name] = @ + 1]
    /\ suspended' = [suspended EXCEPT ![c] = TRUE]
    /\ call' = None
    /\ UNCHANGED <<ip, left, account, recvbuf, pending, timers, failed, recent,
                   banned, barred>>

\* Mutant: the answer is kept after it was used.
AnswerKept(c) == pending

\* The answer is used once.
AnswerUsed(c) == IF IsWeb THEN [pending EXCEPT ![c] = None] ELSE pending

\* Mutant: an answer that is there is a good one.
GrantedByAnyAnswer(c) ==
    IF IsWeb THEN pending[c]
    ELSE IF InHand.good THEN InHand.name ELSE None

\* The account a login is granted, None when it is wrong.
Granted(c) ==
    IF IsWeb THEN IF pending[c] = Denied THEN None ELSE pending[c]
    ELSE IF InHand.good THEN InHand.name ELSE None

\* AuthenticateUser knows whether the login is right.
Authenticates(c) ==
    /\ LogsIn(c)
    /\ ~IsBanned(c)
    /\ IsWeb => pending[c] # None

\* IncLoginAttempt.
LoginFails(c) ==
    /\ Authenticates(c)
    /\ Granted(c) = None
    /\ Done(c)
    /\ pending' = AnswerUsed(c)
    /\ LET n == failed[ip[c]] + 1 IN
       /\ failed' = [failed EXCEPT ![ip[c]] =
                       IF n > MaxLoginAttempts THEN MaxLoginAttempts ELSE n]
       /\ banned' = IF MaxLoginAttempts > 0 /\ n >= MaxLoginAttempts
                    THEN banned \cup {ip[c]} ELSE banned
    /\ UNCHANGED <<ip, left, account, suspended, threads, timers, recent,
                   barred>>

\* LoginsExceeded counts the delay from the last login that was right.
LoginTooSoon(c) ==
    /\ Authenticates(c)
    /\ Granted(c) # None
    /\ ip[c] \in recent
    /\ Done(c)
    /\ pending' = AnswerUsed(c)
    /\ UNCHANGED <<ip, left, account, suspended, threads, timers, failed,
                   recent, banned, barred>>

\* The rest of UserLogin. The sessions it logs out are those of the name asked,
\* unless the account granted may be used by several.
Twins(c) ==
    IF Granted(c) \in MultiLogin THEN {}
    ELSE {d \in Conn : account[d] = InHand.name}

LogsOut(c, K) ==
    /\ Authenticates(c)
    /\ Granted(c) # None
    /\ ip[c] \notin recent
    /\ Done(c)
    /\ pending' = [d \in Conn |-> IF d \in K THEN None ELSE AnswerUsed(c)[d]]
    /\ recent' = IF LoginDelay THEN recent \cup {ip[c]} ELSE recent
    /\ UNCHANGED <<ip, left, suspended, threads, timers, banned, barred>>

SessionsWithout(K) == [d \in Conn |-> IF d \in K THEN None ELSE account[d]]

\* A limit refuses the login, before or after the sessions are logged out.
LoginRefused(c, K) ==
    /\ LogsOut(c, K)
    /\ K \in {{}, Twins(c)}
    /\ account' = SessionsWithout(K)
    /\ UNCHANGED failed

LoginAccepted(c) ==
    /\ LogsOut(c, Twins(c))
    /\ account' = [SessionsWithout(Twins(c)) EXCEPT ![c] = Granted(c)]
    /\ failed' = [failed EXCEPT ![ip[c]] = 0]

-----------------------------------------------------------------------------
(* The thread that asks the service, and the timer it starts. *)

\* Mutant: no timer for a login that failed.
ResumeStartedFor(c, a) ==
    IF a = Denied THEN timers ELSE [timers EXCEPT ![c] = @ + 1]

ResumeStarted(c, a) == [timers EXCEPT ![c] = @ + 1]

\* WebLoginComplete, after WebLoginPostAuthenticate looked for a ban.
Answer(c, n, a) ==
    /\ call = None
    /\ threads[c][n] > 0
    /\ a \in {Denied} \cup ({n} \ banned)
    /\ threads' = [threads EXCEPT ![c][n] = @ - 1]
    /\ IF c \in Open
       THEN /\ pending' = [pending EXCEPT ![c] = a]
            /\ timers' = ResumeStarted(c, a)
       ELSE UNCHANGED <<pending, timers>>
    /\ UNCHANGED <<ip, left, account, recvbuf, suspended, call, failed,
                   recent, banned, barred>>

Resume(c) ==
    /\ call = None
    /\ timers[c] > 0
    /\ timers' = [timers EXCEPT ![c] = @ - 1]
    /\ suspended' = [suspended EXCEPT ![c] = FALSE]
    /\ call' = IF c \notin Open \/ recvbuf[c] = <<>> THEN None
               ELSE [conn |-> c, timer |-> TRUE]
    /\ UNCHANGED <<ip, left, account, recvbuf, threads, pending, failed,
                   recent, banned, barred>>

-----------------------------------------------------------------------------
(* What happens elsewhere in the server. *)

\* UserBan and UserUnBan of an administrator.
Ban(b) ==
    /\ call = None
    /\ b \in Bannable \ banned
    /\ banned' = banned \cup {b}
    /\ UNCHANGED <<ip, left, account, recvbuf, suspended, call, threads,
                   pending, timers, failed, recent, barred>>

UnBan(b) ==
    /\ call = None
    /\ b \in Bannable \cap banned
    /\ banned' = banned \ {b}
    /\ UNCHANGED <<ip, left, account, recvbuf, suspended, call, threads,
                   pending, timers, failed, recent, barred>>

\* The login delay of an address runs out.
DelayEnds(i) ==
    /\ call = None
    /\ i \in recent
    /\ recent' = recent \ {i}
    /\ UNCHANGED <<ip, left, account, recvbuf, suspended, call, threads,
                   pending, timers, failed, banned, barred>>

-----------------------------------------------------------------------------
Init ==
    /\ ip = [c \in Conn |-> None]
    /\ left = {}
    /\ account = [c \in Conn |-> None]
    /\ recvbuf = [c \in Conn |-> <<>>]
    /\ suspended = [c \in Conn |-> FALSE]
    /\ call = None
    /\ threads = [c \in Conn |-> [n \in WebName |-> 0]]
    /\ pending = [c \in Conn |-> None]
    /\ timers = [c \in Conn |-> 0]
    /\ failed = [i \in Ip |-> 0]
    /\ recent = {}
    /\ banned = {}
    /\ barred = {}

Carry(c) ==
    \/ Quit(c)
    \/ Logout(c)
    \/ LoginAgain(c)
    \/ LoginBanned(c)
    \/ Ask(c)
    \/ LoginFails(c)
    \/ LoginTooSoon(c)
    \/ \E K \in SUBSET Conn : LoginRefused(c, K)
    \/ LoginAccepted(c)

Next ==
    \/ \E c \in Conn :
        \/ \E i \in Ip : Connect(c, i)
        \/ Disconnect(c)
        \/ \E m \in Sends[c] : Receive(c, m)
        \/ ReceiveTooMuch(c)
        \/ Carry(c)
        \/ \E n \in WebName, a \in WebName \cup {Denied} : Answer(c, n, a)
        \/ Resume(c)
    \/ \E b \in Bannable : Ban(b) \/ UnBan(b)
    \/ \E i \in Ip : DelayEnds(i)

Spec == Init /\ [][Next]_vars

\* The loop runs on, a timer fires, and the web service answers or its request
\* times out. A thread and a timer need the lock: the lock is strongly fair.
Fairness ==
    /\ WF_vars(\E c \in Conn : Carry(c))
    /\ \A c \in Conn :
        /\ SF_vars(Resume(c))
        /\ SF_vars(\E n \in WebName, a \in WebName \cup {Denied} : Answer(c, n, a))

FairSpec == Spec /\ Fairness

-----------------------------------------------------------------------------
(* Properties. *)

\* Every session is of a user name, and every answer kept one of the service's.
TypeOK ==
    /\ ip \in [Conn -> Ip \cup {None}]
    /\ left \subseteq Conn
    /\ account \in [Conn -> Name \cup {None}]
    /\ recvbuf \in [Conn -> Seq(Command)]
    /\ suspended \in [Conn -> BOOLEAN]
    /\ call \in Call \cup {None}
    /\ threads \in [Conn -> [WebName -> Nat]]
    /\ pending \in [Conn -> WebName \cup {Denied, None}]
    /\ timers \in [Conn -> Nat]
    /\ failed \in [Ip -> 0..MaxLoginAttempts]
    /\ recent \subseteq Ip
    /\ banned \subseteq Ip \cup Name
    /\ barred \subseteq Conn

\* What is on its way to a queue: nothing, a thread, or its timer.
AwaitsNothing(c) ==
    /\ timers[c] = 0
    /\ \A n \in WebName : threads[c][n] = 0
AwaitsThread(c, n) ==
    /\ timers[c] = 0
    /\ \A m \in WebName : threads[c][m] = IF m = n THEN 1 ELSE 0
AwaitsTimer(c) ==
    /\ timers[c] = 1
    /\ \A n \in WebName : threads[c][n] = 0

\* Between two handlers a queue waits exactly as long as one thread or one timer
\* is on its way to it; a queue that does not wait is empty, but for the QUIT that
\* the timer leaves behind. So no command is carried out twice, forgotten, or
\* overtaken by one that came later.
QueueWaitsForAnswer ==
    \A c \in Open :
        (call # None => call.conn # c) =>
            \/ /\ suspended[c]
               /\ AwaitsTimer(c) \/ \E n \in WebName : AwaitsThread(c, n)
            \/ /\ ~suspended[c]
               /\ AwaitsNothing(c)
               /\ recvbuf[c] = <<>> \/ Head(recvbuf[c]).cmd = "quit"

\* A login is granted the account it asked for, unless a ban met an earlier
\* login of the connection after the service had answered it: then that answer
\* stays and the next web login takes it.
AccountAsAsked ==
    [][\A c \in Conn :
        (account[c] = None /\ account'[c] # None) =>
            account'[c] = InHand.name \/ c \in barred]_vars

\* Every web login is answered, whatever the service says and whoever leaves.
WebLoginAnswered == \A c \in Conn : []<>~suspended[c]
=============================================================================
