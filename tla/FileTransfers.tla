--------------------------- MODULE FileTransfers ---------------------------
(***************************************************************************)
(* Uploads to and downloads from channels, as the server handles them.     *)
(*                                                                         *)
(* A client registers a transfer with a command and is given an id. It     *)
(* then opens a second connection, names the id and the key it chose, and  *)
(* the bytes follow. An upload goes to a temporary file named after the    *)
(* id and is renamed, and listed in the channel, when it is complete. In   *)
(* between users come and go, channels are removed and their ids used      *)
(* again, files are deleted, and the server may die and start again from   *)
(* its saved configuration.                                                *)
(*                                                                         *)
(* All handlers run on the TCP thread, which holds the server lock while   *)
(* it dispatches, so each is one step. Whether a user may transfer to a    *)
(* channel (member or administrator) is decided when it registers only and *)
(* left open here, and so is who may delete a file.                        *)
(***************************************************************************)
EXTENDS Integers, FiniteSetsExt, Functions

CONSTANTS
    User,           \* ids of users
    Admin,          \* those who are administrators
    Channel,        \* ids of channels
    Permanent,      \* those that are permanent, so saved, when they exist
    Name,           \* names of files
    Size,           \* sizes of the files users upload
    Transfer,       \* the transfers clients ask for, each with a key of its own
    MaxTransfers,   \* ServerSettings::maxfiletransfers, per user
    DiskQuota,      \* ChannelProp::diskquota of every channel
    MaxDiskUsage,   \* ServerSettings::maxdiskusage
    MaxId,          \* bound: transfer ids in one run of the server
    MaxData,        \* bound: numbers of stored files
    None            \* the null transfer, file or number

ASSUME TransferAssumption ==
    /\ Admin \subseteq User
    /\ Permanent \subseteq Channel
    /\ Size \subseteq Nat
    /\ MaxTransfers \in Nat
    /\ DiskQuota \in Nat /\ MaxDiskUsage \in Nat
    /\ MaxId \in Nat \ {0} /\ MaxData \in Nat
    /\ IsFiniteSet(Channel) /\ IsFiniteSet(Name)
    /\ None \notin Transfer /\ None \notin Nat

Id == 1..MaxId
Data == 1..MaxData

\* FileTransfer as registered: "source" is the stored file a download reads.
Registration == [inbound : BOOLEAN, owner : User, chan : Channel, name : Name,
                 size : Nat, id : Id, source : Data \cup {None}]

\* RemoteFile: "data" is the number in its internal name, "by" the transfer
\* it was stored for.
RemoteFile == [fileid : Nat, data : Data, by : Transfer]

Status == {"waiting", "active", "finished", "error"}

ASSUME NullAssumption == None \notin Registration /\ None \notin RemoteFile

VARIABLES
    loggedIn,   \* users who are logged in
    channels,   \* channels in the tree
    counter,    \* m_filetx_id_counter
    fileid,     \* m_file_id_counter
    transfers,  \* m_filetransfers by id
    files,      \* m_files of each channel by name
    tmp,        \* temporary files by id: whose bytes are in it, {} for no file
    data,       \* stored files by number, likewise
    reg,        \* what the client knows of each transfer accepted, None before
    status,     \* the status its FileNode has reported
    conn        \* bytes passed on the data connection of each, None if closed

vars == <<loggedIn, channels, counter, fileid, transfers, files, tmp, data,
          reg, status, conn>>

-----------------------------------------------------------------------------
(* Registration. *)

FileAt(s) == files[s[1]][s[2]]
Stored == {s \in Channel \X Name : s[1] \in channels /\ FileAt(s) # None}
DiskUsage(C) == MapThenSumSet(LAMBDA s : reg[FileAt(s).by].size,
                              {s \in Stored : s[1] \in C})

Accepted == {t \in Transfer : reg[t] # None}

\* CountFileTransfers.
TransfersOf(u) == {i \in Id : transfers[i] # None /\ reg[transfers[i]].owner = u}

NextId == IF counter < 1 THEN 1 ELSE counter

MayRegister(u, c) ==
    /\ u \in loggedIn
    /\ c \in channels
    /\ Cardinality(TransfersOf(u)) < MaxTransfers
    /\ counter <= MaxId

HasSpace(u, c, s) ==
    /\ u \in Admin \/ s <= DiskQuota - DiskUsage({c})
    /\ s <= MaxDiskUsage - DiskUsage(channels)

Accept(t, r) ==
    /\ t \in Transfer \ Accepted
    /\ counter' = counter + 1
    /\ transfers' = [transfers EXCEPT ![NextId] = t]
    /\ reg' = [reg EXCEPT ![t] = r]
    /\ status' = [status EXCEPT ![t] = "waiting"]
    /\ UNCHANGED <<loggedIn, channels, fileid, files, tmp, data, conn>>

RegisterUpload(t, u, c, n, s) ==
    /\ MayRegister(u, c)
    /\ HasSpace(u, c, s)
    /\ transfers[NextId] = None
    /\ files[c][n] = None
    /\ Accept(t, [inbound |-> TRUE, owner |-> u, chan |-> c, name |-> n,
                  size |-> s, id |-> NextId, source |-> None])

RegisterDownload(t, u, c, n) ==
    /\ MayRegister(u, c)
    /\ files[c][n] # None
    /\ data[files[c][n].data] # {}
    /\ transfers[NextId] = None
    /\ Accept(t, [inbound |-> FALSE, owner |-> u, chan |-> c, name |-> n,
                  size |-> reg[files[c][n].by].size, id |-> NextId,
                  source |-> files[c][n].data])

\* The id is in use, or the file of an upload exists: the id is spent.
RegisterFails(u, c, n, inbound) ==
    /\ MayRegister(u, c)
    /\ IF inbound THEN /\ \E s \in Size : HasSpace(u, c, s)
                       /\ transfers[NextId] # None \/ files[c][n] # None
       ELSE /\ files[c][n] # None
            /\ data[files[c][n].data] # {}
            /\ transfers[NextId] # None
    /\ counter' = counter + 1
    /\ UNCHANGED <<loggedIn, channels, fileid, transfers, files, tmp, data, reg,
                   status, conn>>

-----------------------------------------------------------------------------
(* The data connection. *)

\* Mutant: keys are not compared.
MayBeginById(t) ==
    /\ transfers[reg[t].id] # None
    /\ reg[t].chan \in channels
    /\ IF reg[t].inbound THEN files[reg[t].chan][reg[t].name] = None
       ELSE data[reg[t].source] # {}

\* UserBeginFileTransfer: id and key are those of a registered transfer, whose
\* channel exists and, for an upload, has no such file meanwhile.
MayBegin(t) ==
    /\ transfers[reg[t].id] = t
    /\ reg[t].chan \in channels
    /\ IF reg[t].inbound THEN files[reg[t].chan][reg[t].name] = None
       ELSE data[reg[t].source] # {}

\* Connections still open on the temporary file of an id.
WritersOf(i) == {t \in tmp[i] : conn[t] # None}

\* Mutant: the file is opened, but not cut.
NewFileAppend(t) == tmp' = [tmp EXCEPT ![reg[t].id] = {t} \cup @]

\* MyFile::NewFile cuts the file; whoever still has it open goes on writing.
NewFile(t) == tmp' = [tmp EXCEPT ![reg[t].id] = {t} \cup WritersOf(reg[t].id)]

BeginFileTransfer(t) ==
    /\ t \in Accepted
    /\ status[t] = "waiting"
    /\ MayBegin(t)
    /\ status' = [status EXCEPT ![t] = "active"]
    /\ conn' = [conn EXCEPT ![t] = 0]
    /\ \/ reg[t].inbound /\ NewFile(t)
       \/ ~reg[t].inbound /\ UNCHANGED tmp
    /\ UNCHANGED <<loggedIn, channels, counter, fileid, transfers, files, data,
                   reg>>

\* The client is told an error, or gets no connection.
BeginFails(t) ==
    /\ t \in Accepted
    /\ status[t] = "waiting"
    /\ status' = [status EXCEPT ![t] = "error"]
    /\ UNCHANGED <<loggedIn, channels, counter, fileid, transfers, files, tmp,
                   data, reg, conn>>

\* FileInboundCompleted takes the next file id that no file has, and the next
\* number, from there on, that no file on the disk has.
FileIds == {FileAt(s).fileid : s \in Stored}
LaterIds == (fileid + 1)..(fileid + 1 + Cardinality(Stored))
IsNextFileId(i) ==
    /\ i \notin FileIds
    /\ \A j \in LaterIds : j < i => j \in FileIds

\* Mutant: the number is the file id, whatever is on the disk.
IsDataUnchecked(n, i) == n = i

IsNextData(n, i) ==
    /\ n >= i
    /\ data[n] = {}
    /\ \A m \in Data : i <= m /\ m < n => data[m] # {}

\* The file of the upload e moves and is listed, in place of one of that name.
Place(e, i, n, by) ==
    /\ tmp' = [tmp EXCEPT ![reg[e].id] = {}]
    /\ data' = [data EXCEPT ![n] = tmp[reg[e].id]]
    /\ files' = [files EXCEPT ![reg[e].chan][reg[e].name] =
                    [fileid |-> i, data |-> n, by |-> by]]

\* Mutant: the transfer is looked up again after it is erased.
StoreErased(e) ==
    \E i \in LaterIds :
        /\ IsNextFileId(i)
        /\ fileid' = i
        /\ \E n \in Data : IsNextData(n, i) /\ Place(e, i, n, None)

\* The upload registered as e: its file id is spent, also if the file is gone.
Store(e) ==
    \E i \in LaterIds :
        /\ IsNextFileId(i)
        /\ fileid' = i
        /\ IF tmp[reg[e].id] = {} THEN UNCHANGED <<files, tmp, data>>
           ELSE \E n \in Data : IsNextData(n, i) /\ Place(e, i, n, e)

\* UserEndFileTransfer of whatever transfer has id i by now.
EndFileTransfer(i) ==
    LET e == transfers[i] IN
    /\ transfers' = [transfers EXCEPT ![i] = None]
    /\ IF /\ e # None
          /\ reg[e].chan \in channels
          /\ reg[e].owner \in loggedIn
          /\ reg[e].inbound
       THEN Store(e)
       ELSE UNCHANGED <<fileid, files, tmp, data>>

\* HandleBinaryFileWrite of one more byte but the last.
Receive(t) ==
    /\ t \in Accepted
    /\ conn[t] # None
    /\ reg[t].inbound
    /\ conn[t] + 1 < reg[t].size
    /\ conn' = [conn EXCEPT ![t] = @ + 1]
    /\ UNCHANGED <<loggedIn, channels, counter, fileid, transfers, files, tmp,
                   data, reg, status>>

\* The last byte: the client is told, the file closed, the transfer ended. A
\* file of no bytes has none.
ReceiveLast(t) ==
    /\ t \in Accepted
    /\ conn[t] # None
    /\ reg[t].inbound
    /\ conn[t] + 1 = reg[t].size
    /\ status' = [status EXCEPT ![t] = "finished"]
    /\ conn' = [conn EXCEPT ![t] = None]
    /\ EndFileTransfer(reg[t].id)
    /\ UNCHANGED <<loggedIn, channels, counter, reg>>

\* SendFile: the client counts the bytes it gets.
Send(t) ==
    /\ t \in Accepted
    /\ conn[t] # None
    /\ ~reg[t].inbound
    /\ conn[t] < reg[t].size
    /\ conn' = [conn EXCEPT ![t] = @ + 1]
    /\ status' = [status EXCEPT ![t] = IF conn[t] + 1 = reg[t].size
                                       THEN "finished" ELSE @]
    /\ UNCHANGED <<loggedIn, channels, counter, fileid, transfers, files, tmp,
                   data, reg>>

\* SendData finds that all is sent.
SendDone(t) ==
    /\ t \in Accepted
    /\ conn[t] # None
    /\ ~reg[t].inbound
    /\ conn[t] >= reg[t].size
    /\ conn' = [conn EXCEPT ![t] = None]
    /\ EndFileTransfer(reg[t].id)
    /\ UNCHANGED <<loggedIn, channels, counter, reg, status>>

\* UserDisconnected and CloseTransfer: the connection is lost or cancelled. What
\* has the id goes, and the temporary file if bytes are missing.
LoseConnection(t) ==
    /\ t \in Accepted
    /\ conn[t] # None
    /\ conn' = [conn EXCEPT ![t] = None]
    /\ status' = [status EXCEPT ![t] = IF @ = "active" THEN "error" ELSE @]
    /\ transfers' = [transfers EXCEPT ![reg[t].id] = None]
    /\ tmp' = IF reg[t].inbound /\ conn[t] < reg[t].size
              THEN [tmp EXCEPT ![reg[t].id] = {}] ELSE tmp
    /\ UNCHANGED <<loggedIn, channels, counter, fileid, files, data, reg>>

-----------------------------------------------------------------------------
(* What happens around the transfers. *)

Login(u) ==
    /\ u \notin loggedIn
    /\ loggedIn' = loggedIn \cup {u}
    /\ UNCHANGED <<channels, counter, fileid, transfers, files, tmp, data, reg,
                   status, conn>>

\* Mutant: the user's transfers stay registered.
LogoutOnly(u) ==
    /\ u \in loggedIn
    /\ loggedIn' = loggedIn \ {u}
    /\ UNCHANGED <<channels, counter, fileid, transfers, files, tmp, data, reg,
                   status, conn>>

\* UserLogout, by command, kick or lost connection. Data connections stay.
Logout(u) ==
    /\ u \in loggedIn
    /\ loggedIn' = loggedIn \ {u}
    /\ transfers' = [i \in Id |-> IF i \in TransfersOf(u) THEN None
                                  ELSE transfers[i]]
    /\ UNCHANGED <<channels, counter, fileid, files, tmp, data, reg, status, conn>>

\* Taking files off a channel takes them off the disk.
DataAt(S) == {FileAt(s).data : s \in S}
Erased(D) == [n \in Data |-> IF n \in D THEN {} ELSE data[n]]

UserDeleteFile(c, n) ==
    /\ loggedIn # {}
    /\ c \in channels
    /\ files[c][n] # None
    /\ files' = [files EXCEPT ![c][n] = None]
    /\ data' = Erased({files[c][n].data})
    /\ UNCHANGED <<loggedIn, channels, counter, fileid, transfers, tmp, reg,
                   status, conn>>

NoFiles == [n \in Name |-> None]

\* A new channel may be given the id of one that was removed.
MakeChannel(c) ==
    /\ c \notin channels
    /\ channels' = channels \cup {c}
    /\ UNCHANGED <<loggedIn, counter, fileid, transfers, files, tmp, data, reg,
                   status, conn>>

RemoveChannel(c) ==
    /\ c \in channels
    /\ channels' = channels \ {c}
    /\ files' = [files EXCEPT ![c] = NoFiles]
    /\ data' = Erased(DataAt({s \in Stored : s[1] = c}))
    /\ UNCHANGED <<loggedIn, counter, fileid, transfers, tmp, reg, status, conn>>

\* The server dies and is started again. Permanent channels and their files are
\* saved as they change; MakeStaticChannels numbers the files anew.
Restart ==
    /\ loggedIn' = {}
    /\ channels' = channels \cap Permanent
    /\ counter' = 0
    /\ fileid' = 0
    /\ transfers' = [i \in Id |-> None]
    /\ LET kept == {s \in Stored : s[1] \in Permanent} IN
       \E number \in Injection(kept, 1..Cardinality(kept)) :
          files' = [c \in Channel |-> [n \in Name |->
                      IF <<c, n>> \in kept
                      THEN [files[c][n] EXCEPT !.fileid = number[<<c, n>>]]
                      ELSE None]]
    /\ conn' = [t \in Transfer |-> None]
    /\ status' = [t \in Transfer |->
                     IF conn[t] # None /\ status[t] = "active" THEN "error"
                     ELSE status[t]]
    /\ UNCHANGED <<tmp, data, reg>>

-----------------------------------------------------------------------------

Init ==
    /\ loggedIn = {}
    /\ channels = Permanent
    /\ counter = 0
    /\ fileid = 0
    /\ transfers = [i \in Id |-> None]
    /\ files = [c \in Channel |-> NoFiles]
    /\ tmp = [i \in Id |-> {}]
    /\ data = [n \in Data |-> {}]
    /\ reg = [t \in Transfer |-> None]
    /\ status = [t \in Transfer |-> "waiting"]
    /\ conn = [t \in Transfer |-> None]

RegisterNext ==
    \E u \in User, c \in Channel, n \in Name :
        \/ \E t \in Transfer :
              \/ \E s \in Size : RegisterUpload(t, u, c, n, s)
              \/ RegisterDownload(t, u, c, n)
        \/ \E inbound \in BOOLEAN : RegisterFails(u, c, n, inbound)

DataNext ==
    \E t \in Transfer :
        \/ BeginFileTransfer(t)
        \/ BeginFails(t)
        \/ Receive(t)
        \/ ReceiveLast(t)
        \/ Send(t)
        \/ SendDone(t)
        \/ LoseConnection(t)

ServerNext ==
    \/ \E u \in User : Login(u) \/ Logout(u)
    \/ \E c \in Channel, n \in Name : UserDeleteFile(c, n)
    \/ \E c \in Channel : MakeChannel(c) \/ RemoveChannel(c)
    \/ Restart

Next == RegisterNext \/ DataNext \/ ServerNext

Spec == Init /\ [][Next]_vars
-----------------------------------------------------------------------------
(* What transfers promise. *)

\* Every variable holds a value of its kind.
TypeOK ==
    /\ loggedIn \subseteq User
    /\ channels \subseteq Channel
    /\ counter \in Nat
    /\ fileid \in Nat
    /\ transfers \in [Id -> Transfer \cup {None}]
    /\ files \in [Channel -> [Name -> RemoteFile \cup {None}]]
    /\ tmp \in [Id -> SUBSET Transfer]
    /\ data \in [Data -> SUBSET Transfer]
    /\ reg \in [Transfer -> Registration \cup {None}]
    /\ status \in [Transfer -> Status]
    /\ conn \in [Transfer -> Nat \cup {None}]

\* A registered transfer belongs to a user who is logged in, and nobody has more
\* than the limit: logouts, kicks, lost data connections and completions return
\* what they took (ServerNode.cpp:2824, 3198).
TransfersOwned ==
    /\ \A i \in Id : transfers[i] # None =>
          /\ reg[transfers[i]] # None
          /\ reg[transfers[i]].id = i
          /\ reg[transfers[i]].owner \in loggedIn
    /\ \A u \in User : Cardinality(TransfersOf(u)) <= MaxTransfers

\* Each file listed in a channel is on the disk, in a file of its own, and has an
\* id of its own (ServerNode.cpp:4370): whatever is deleted, replaced or uploaded
\* after a restart, when ids and numbers start again.
FilesStored ==
    /\ \A s \in Stored : data[FileAt(s).data] # {}
    /\ \A r, s \in Stored :
          r # s => /\ FileAt(r).data # FileAt(s).data
                   /\ FileAt(r).fileid # FileAt(s).fileid

\* What a channel lists was written by its upload alone, also where an earlier
\* upload by that id was cut short by a restart. Two uploads may have had id 1.
StoredWhole ==
    \A s \in Stored :
        reg[FileAt(s).by].id # 1 => data[FileAt(s).data] = {FileAt(s).by}

\* A transfer loses its registration only when its own data connection is done
\* or lost, its user leaves or the server ends. Two transfers may have had id 1.
EndsItself ==
    [][\A i \in Id \ {1} :
          LET t == transfers[i] IN
          t # None /\ transfers'[i] # t =>
              \/ conn[t] # None /\ conn'[t] = None
              \/ reg[t].owner \notin loggedIn']_vars

\* Max bytes to use for storage of files (Common.h:98).
DiskUsageKept == DiskUsage(channels) <= MaxDiskUsage
=============================================================================
