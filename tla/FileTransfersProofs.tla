------------------------ MODULE FileTransfersProofs ------------------------
(***************************************************************************)
(* Proofs, for every set of users, channels, names and transfers and every *)
(* limit, of what FileTransfers promises.                                  *)
(***************************************************************************)
EXTENDS FileTransfers, FiniteSetTheorems, TLAPS

-----------------------------------------------------------------------------
(* The inductive invariant, part by part. *)

\* Every registration is that of an accepted transfer, under its own id, whose
\* user is logged in.
Owned ==
    \A i \in Id : transfers[i] # None =>
        /\ reg[transfers[i]] # None
        /\ reg[transfers[i]].id = i
        /\ reg[transfers[i]].owner \in loggedIn

\* Nobody has more transfers than the limit.
Limited == \A u \in User : Cardinality(TransfersOf(u)) <= MaxTransfers

\* A channel that does not exist has no files, for its id can be used again; a
\* listed file is on the disk and was put there by an accepted transfer.
Listed ==
    /\ \A c \in Channel \ channels, n \in Name : files[c][n] = None
    /\ \A c \in Channel, n \in Name : files[c][n] # None =>
          /\ data[files[c][n].data] # {}
          /\ reg[files[c][n].by] # None

\* Two listed files share neither data nor id.
Apart ==
    \A c, d \in Channel, n, m \in Name :
        /\ files[c][n] # None
        /\ files[d][m] # None
        /\ <<c, n>> # <<d, m>>
        => /\ files[c][n].data # files[d][m].data
           /\ files[c][n].fileid # files[d][m].fileid

\* The data of a listed file are of the upload that put it there.
Whole ==
    \A c \in Channel, n \in Name : files[c][n] # None =>
        (reg[files[c][n].by].id # 1
            => data[files[c][n].data] = {files[c][n].by})

\* An id but 1 is given once in a run of the server: whatever is registered under
\* it, or writes on a data connection for it, is the same transfer.
Unique ==
    /\ \A i \in Id \ {1} : transfers[i] # None => i < counter
    /\ \A t \in Transfer : conn[t] # None =>
          /\ reg[t] # None
          /\ reg[t].id # 1 => /\ reg[t].id < counter
                              /\ transfers[reg[t].id] \in {t, None}

\* So its temporary file has the bytes of that transfer alone.
Unmixed ==
    \A t \in Transfer :
        conn[t] # None /\ reg[t].inbound /\ reg[t].id # 1
            => tmp[reg[t].id] \in {{t}, {}}

\* What is in a temporary file was written by accepted uploads with that id.
Written ==
    \A i \in Id : \A t \in tmp[i] : reg[t] # None /\ reg[t].inbound /\ reg[t].id = i

Inv ==
    TypeOK /\ Owned /\ Limited /\ Listed /\ Apart /\ Whole /\ Unique /\ Unmixed
           /\ Written

-----------------------------------------------------------------------------
(* Type correctness. *)

\* Ids are finitely many numbers and 1 is one of them.
LEMMA IdFacts == Id \subseteq Nat /\ IsFiniteSet(Id) /\ 1 \in Id
<1>1. MaxId \in Nat \ {0}
  BY TransferAssumption
<1>2. IsFiniteSet(1..MaxId)
  BY <1>1, FS_Interval
<1> QED
  BY <1>1, <1>2 DEF Id

\* What the fields of a registration hold.
LEMMA RegistrationFields ==
    ASSUME NEW r \in Registration
    PROVE  /\ r # None
           /\ r.inbound \in BOOLEAN /\ r.owner \in User /\ r.chan \in Channel
           /\ r.name \in Name /\ r.size \in Nat /\ r.id \in Id
           /\ r.source \in Data \cup {None}
BY NullAssumption DEF Registration

\* What the fields of a file hold.
LEMMA FileFields ==
    ASSUME NEW r \in RemoteFile
    PROVE  r # None /\ r.fileid \in Nat /\ r.data \in Data /\ r.by \in Transfer
BY NullAssumption DEF RemoteFile

\* The files listed are finitely many, so an id that none of them has exists.
LEMMA StoredFinite == IsFiniteSet(Stored) /\ Cardinality(Stored) \in Nat
<1>1. IsFiniteSet(Channel \X Name)
  BY TransferAssumption, FS_Product
<1>2. Stored \subseteq Channel \X Name
  BY DEF Stored
<1>3. IsFiniteSet(Stored)
  BY <1>1, <1>2, FS_Subset
<1> QED
  BY <1>3, FS_CardinalityType

\* Storing an upload keeps files, temporary files and data of their kind.
LEMMA StoreTyped ==
    ASSUME TypeOK, NEW e \in Accepted, Store(e)
    PROVE  /\ fileid' \in Nat
           /\ files' \in [Channel -> [Name -> RemoteFile \cup {None}]]
           /\ tmp' \in [Id -> SUBSET Transfer]
           /\ data' \in [Data -> SUBSET Transfer]
<1>1. PICK i \in LaterIds : 
         /\ fileid' = i
         /\ \/ UNCHANGED <<files, tmp, data>>
            \/ \E n \in Data : IsNextData(n, i) /\ Place(e, i, n, e)
  BY DEF Store
<1>2. i \in Nat
  BY StoredFinite DEF LaterIds, TypeOK
<1>3. e \in Transfer /\ reg[e] \in Registration
  BY DEF Accepted, TypeOK
<1>4. CASE UNCHANGED <<files, tmp, data>>
  BY <1>1, <1>2, <1>4 DEF TypeOK
<1>5. CASE \E n \in Data : IsNextData(n, i) /\ Place(e, i, n, e)
  <2>1. PICK n \in Data : Place(e, i, n, e)
    BY <1>5
  <2> DEFINE new == [fileid |-> i, data |-> n, by |-> e]
  <2>2. new \in RemoteFile
    BY <1>2, <1>3 DEF RemoteFile
  <2>3. files' = [files EXCEPT ![reg[e].chan][reg[e].name] = new]
    BY <2>1 DEF Place
  <2> HIDE DEF new
  <2>4. files' \in [Channel -> [Name -> RemoteFile \cup {None}]]
    BY <1>3, <2>2, <2>3, RegistrationFields DEF TypeOK
  <2>5. tmp' \in [Id -> SUBSET Transfer] /\ data' \in [Data -> SUBSET Transfer]
    BY <1>3, <2>1, RegistrationFields DEF TypeOK, Place
  <2> QED
    BY <1>1, <1>2, <2>4, <2>5
<1> QED
  BY <1>1, <1>4, <1>5

\* What the ending of a transfer writes has its type, whichever it is.
LEMMA EndTyped ==
    ASSUME TypeOK, Owned, NEW i \in Id, EndFileTransfer(i)
    PROVE  /\ fileid' \in Nat
           /\ transfers' \in [Id -> Transfer \cup {None}]
           /\ files' \in [Channel -> [Name -> RemoteFile \cup {None}]]
           /\ tmp' \in [Id -> SUBSET Transfer]
           /\ data' \in [Data -> SUBSET Transfer]
<1>1. transfers' \in [Id -> Transfer \cup {None}]
  BY DEF EndFileTransfer, TypeOK
<1>2. CASE UNCHANGED <<fileid, files, tmp, data>>
  BY <1>1, <1>2 DEF TypeOK
<1>3. CASE transfers[i] # None /\ Store(transfers[i])
  <2>1. transfers[i] \in Accepted
    BY <1>3 DEF TypeOK, Owned, Accepted
  <2> QED
    BY <1>1, <1>3, <2>1, StoreTyped
<1> QED
  BY <1>2, <1>3 DEF EndFileTransfer

\* An id registered is an id of the model, whose first is spent twice.
LEMMA NextIdFacts ==
    ASSUME TypeOK, NEW u, NEW c, MayRegister(u, c)
    PROVE  NextId \in Id /\ (NextId # 1 => NextId = counter) /\ counter + 1 \in Nat
BY TransferAssumption DEF TypeOK, MayRegister, NextId, Id

\* So does accepting a transfer, as long as its id is one.
LEMMA AcceptTyped ==
    ASSUME TypeOK, NEW t, NEW r \in Registration, NextId \in Id, Accept(t, r)
    PROVE  TypeOK'
<1>1. t \in Transfer /\ counter + 1 \in Nat
  BY DEF Accept, TypeOK
<1>2. /\ reg' \in [Transfer -> Registration \cup {None}]
      /\ status' \in [Transfer -> Status]
      /\ transfers' \in [Id -> Transfer \cup {None}]
  BY <1>1 DEF Accept, TypeOK, Status
<1> QED
  BY <1>1, <1>2 DEF Accept, TypeOK

\* A download is accepted with a registration in the name of who asked.
LEMMA DownloadRegistration ==
    ASSUME TypeOK, Listed, NEW t \in Transfer, NEW u \in User, NEW c \in Channel,
           NEW n \in Name, RegisterDownload(t, u, c, n)
    PROVE  \E r \in Registration : r.owner = u /\ r.id = NextId /\ Accept(t, r)
<1> DEFINE f == files[c][n]
           r == [inbound |-> FALSE, owner |-> u, chan |-> c, name |-> n,
                 size |-> reg[f.by].size, id |-> NextId, source |-> f.data]
<1>1. NextId \in Id
  BY NextIdFacts DEF RegisterDownload
<1>2. f \in RemoteFile /\ reg[f.by] # None
  BY DEF RegisterDownload, TypeOK, Listed
<1>3. f.data \in Data /\ reg[f.by].size \in Nat
  BY <1>2, FileFields, RegistrationFields DEF TypeOK
<1>4. r \in Registration /\ r.owner = u /\ r.id = NextId
  BY <1>1, <1>3 DEF Registration
<1>5. Accept(t, r)
  BY DEF RegisterDownload
<1> HIDE DEF r
<1> QED
  BY <1>4, <1>5

\* Registering, deleting and refusing keep every variable of its kind.
LEMMA RegisterNextTyped == TypeOK /\ Listed /\ RegisterNext => TypeOK'
<1> SUFFICES ASSUME TypeOK, Listed, NEW u \in User, NEW c \in Channel, NEW n \in Name,
                    \/ \E t \in Transfer :
                          \/ \E s \in Size : RegisterUpload(t, u, c, n, s)
                          \/ RegisterDownload(t, u, c, n)
                    \/ \E inbound \in BOOLEAN : RegisterFails(u, c, n, inbound)
             PROVE  TypeOK'
  BY DEF RegisterNext
<1>1. ASSUME NEW t \in Transfer, NEW s \in Size, RegisterUpload(t, u, c, n, s)
      PROVE  TypeOK'
  <2> DEFINE r == [inbound |-> TRUE, owner |-> u, chan |-> c, name |-> n,
                   size |-> s, id |-> NextId, source |-> None]
  <2>1. NextId \in Id
    BY <1>1, NextIdFacts DEF RegisterUpload
  <2>2. r \in Registration
    BY <2>1, TransferAssumption DEF Registration
  <2>3. Accept(t, r)
    BY <1>1 DEF RegisterUpload
  <2> HIDE DEF r
  <2> QED
    BY <2>1, <2>2, <2>3, AcceptTyped
<1>2. ASSUME NEW t \in Transfer, RegisterDownload(t, u, c, n)
      PROVE  TypeOK'
  <2>1. NextId \in Id
    BY <1>2, NextIdFacts DEF RegisterDownload
  <2> QED
    BY <1>2, <2>1, DownloadRegistration, AcceptTyped
<1>3. ASSUME NEW inbound \in BOOLEAN, RegisterFails(u, c, n, inbound)
      PROVE  TypeOK'
  BY <1>3 DEF RegisterFails, TypeOK
<1> QED
  BY <1>1, <1>2, <1>3

\* So does every step of a data connection.
LEMMA DataNextTyped == TypeOK /\ Owned /\ DataNext => TypeOK'
<1> SUFFICES ASSUME TypeOK, Owned, NEW t \in Transfer,
                    \/ BeginFileTransfer(t) \/ BeginFails(t)
                    \/ Receive(t) \/ ReceiveLast(t)
                    \/ Send(t) \/ SendDone(t) \/ LoseConnection(t)
             PROVE  TypeOK'
  BY DEF DataNext
<1>1. t \in Accepted => reg[t] \in Registration /\ reg[t].id \in Id
  BY RegistrationFields DEF Accepted, TypeOK
<1>2. CASE BeginFileTransfer(t)
  <2>1. tmp' \in [Id -> SUBSET Transfer]
    BY <1>1, <1>2 DEF BeginFileTransfer, NewFile, WritersOf, TypeOK
  <2>2. status' \in [Transfer -> Status] /\ conn' \in [Transfer -> Nat \cup {None}]
    BY <1>2 DEF BeginFileTransfer, TypeOK, Status
  <2> QED
    BY <1>2, <2>1, <2>2 DEF BeginFileTransfer, TypeOK
<1>3. CASE BeginFails(t)
  BY <1>3 DEF BeginFails, TypeOK, Status
<1>4. CASE Receive(t)
  <2>1. conn[t] + 1 \in Nat
    BY <1>4 DEF Receive, TypeOK
  <2> QED
    BY <1>4, <2>1 DEF Receive, TypeOK
<1>5. CASE ReceiveLast(t)
  <2>1. EndFileTransfer(reg[t].id)
    BY <1>5 DEF ReceiveLast
  <2>2. status' \in [Transfer -> Status] /\ conn' \in [Transfer -> Nat \cup {None}]
    BY <1>5 DEF ReceiveLast, TypeOK, Status
  <2>3. t \in Accepted /\ UNCHANGED <<loggedIn, channels, counter, reg>>
    BY <1>5 DEF ReceiveLast
  <2> QED
    BY <1>1, <2>1, <2>2, <2>3, EndTyped DEF TypeOK
<1>6. CASE Send(t)
  <2>1. conn[t] + 1 \in Nat
    BY <1>6 DEF Send, TypeOK
  <2>2. conn' \in [Transfer -> Nat \cup {None}]
    BY <1>6, <2>1 DEF Send, TypeOK
  <2>3. status' \in [Transfer -> Status]
    BY <1>6 DEF Send, TypeOK, Status
  <2> QED
    BY <1>6, <2>2, <2>3 DEF Send, TypeOK
<1>7. CASE SendDone(t)
  <2>1. EndFileTransfer(reg[t].id)
    BY <1>7 DEF SendDone
  <2>2. conn' \in [Transfer -> Nat \cup {None}]
    BY <1>7 DEF SendDone, TypeOK
  <2>3. t \in Accepted /\ UNCHANGED <<loggedIn, channels, counter, reg, status>>
    BY <1>7 DEF SendDone
  <2> QED
    BY <1>1, <2>1, <2>2, <2>3, EndTyped DEF TypeOK
<1>8. CASE LoseConnection(t)
  <2>1. status' \in [Transfer -> Status] /\ conn' \in [Transfer -> Nat \cup {None}]
    BY <1>8 DEF LoseConnection, TypeOK, Status
  <2>2. transfers' \in [Id -> Transfer \cup {None}] /\ tmp' \in [Id -> SUBSET Transfer]
    BY <1>8 DEF LoseConnection, TypeOK
  <2> QED
    BY <1>8, <2>1, <2>2 DEF LoseConnection, TypeOK
<1> QED
  BY <1>2, <1>3, <1>4, <1>5, <1>6, <1>7, <1>8

\* A restart keeps the files of permanent channels, with numbers of their own.
Kept == {s \in Stored : s[1] \in Permanent}

\* After a restart exactly the files of permanent channels are listed, with their
\* data and numbers of their own.
LEMMA RestartFiles ==
    ASSUME TypeOK, Restart
    PROVE  \E number \in Injection(Kept, 1..Cardinality(Kept)) :
              /\ files' \in [Channel -> [Name -> RemoteFile \cup {None}]]
              /\ \A c \in Channel, n \in Name :
                    IF <<c, n>> \in Kept
                    THEN /\ files'[c][n] # None
                         /\ files'[c][n].fileid = number[<<c, n>>]
                         /\ files'[c][n].data = files[c][n].data
                         /\ files'[c][n].by = files[c][n].by
                    ELSE files'[c][n] = None
<1>1. PICK number \in Injection(Kept, 1..Cardinality(Kept)) :
         files' = [c \in Channel |-> [n \in Name |->
                      IF <<c, n>> \in Kept
                      THEN [files[c][n] EXCEPT !.fileid = number[<<c, n>>]]
                      ELSE None]]
  BY DEF Restart, Kept
<1>2. IsFiniteSet(Kept) /\ Cardinality(Kept) \in Nat
  BY StoredFinite, FS_Subset, FS_CardinalityType DEF Kept
<1>3. number \in [Kept -> 1..Cardinality(Kept)]
  BY <1>1 DEF Injection
<1>4. ASSUME NEW c \in Channel, NEW n \in Name, <<c, n>> \in Kept
      PROVE  LET r == [files[c][n] EXCEPT !.fileid = number[<<c, n>>]] IN
             /\ r \in RemoteFile
             /\ r.fileid = number[<<c, n>>]
             /\ r.data = files[c][n].data
             /\ r.by = files[c][n].by
  <2>1. files[c][n] \in RemoteFile
    BY <1>4 DEF Kept, Stored, FileAt, TypeOK
  <2>2. number[<<c, n>>] \in Nat
    BY <1>2, <1>3, <1>4
  <2> QED
    BY <2>1, <2>2 DEF RemoteFile
<1> DEFINE G(c, n) == IF <<c, n>> \in Kept
                      THEN [files[c][n] EXCEPT !.fileid = number[<<c, n>>]]
                      ELSE None
<1>5. files' = [c \in Channel |-> [n \in Name |-> G(c, n)]]
  BY <1>1
<1>6. \A c \in Channel, n \in Name :
         /\ G(c, n) \in RemoteFile \cup {None}
         /\ IF <<c, n>> \in Kept
            THEN /\ G(c, n) # None
                 /\ G(c, n).fileid = number[<<c, n>>]
                 /\ G(c, n).data = files[c][n].data
                 /\ G(c, n).by = files[c][n].by
            ELSE G(c, n) = None
  BY <1>4, NullAssumption
<1> HIDE DEF G
<1>7. files' \in [Channel -> [Name -> RemoteFile \cup {None}]]
  BY <1>5, <1>6
<1>8. \A c \in Channel, n \in Name : files'[c][n] = G(c, n)
  BY <1>5
<1> QED
  BY <1>6, <1>7, <1>8

\* Logins, logouts, channels and restarts keep every variable of its kind.
LEMMA ServerNextTyped == TypeOK /\ ServerNext => TypeOK'
<1> SUFFICES ASSUME TypeOK, ServerNext PROVE TypeOK'
  OBVIOUS
<1>1. ASSUME NEW u \in User, Login(u) PROVE TypeOK'
  BY <1>1 DEF Login, TypeOK
<1>2. ASSUME NEW u \in User, Logout(u) PROVE TypeOK'
  <2>1. transfers' \in [Id -> Transfer \cup {None}]
    BY <1>2 DEF Logout, TypeOK
  <2> QED
    BY <1>2, <2>1 DEF Logout, TypeOK
<1>3. NoFiles \in [Name -> RemoteFile \cup {None}]
  BY DEF NoFiles
<1>4. ASSUME NEW D PROVE Erased(D) \in [Data -> SUBSET Transfer]
  BY DEF Erased, TypeOK
<1>5. ASSUME NEW c \in Channel, NEW n \in Name, UserDeleteFile(c, n) PROVE TypeOK'
  <2>1. files' \in [Channel -> [Name -> RemoteFile \cup {None}]]
    BY <1>5 DEF UserDeleteFile, TypeOK
  <2>2. data' \in [Data -> SUBSET Transfer]
    BY <1>4, <1>5 DEF UserDeleteFile
  <2> QED
    BY <1>5, <2>1, <2>2 DEF UserDeleteFile, TypeOK
<1>6. ASSUME NEW c \in Channel, MakeChannel(c) PROVE TypeOK'
  BY <1>6 DEF MakeChannel, TypeOK
<1>7. ASSUME NEW c \in Channel, RemoveChannel(c) PROVE TypeOK'
  <2>1. files' \in [Channel -> [Name -> RemoteFile \cup {None}]]
    BY <1>3, <1>7 DEF RemoveChannel, TypeOK
  <2>2. data' \in [Data -> SUBSET Transfer]
    BY <1>4, <1>7 DEF RemoveChannel
  <2> QED
    BY <1>7, <2>1, <2>2 DEF RemoveChannel, TypeOK
<1>8. CASE Restart
  <2>1. files' \in [Channel -> [Name -> RemoteFile \cup {None}]]
    BY <1>8, RestartFiles DEF TypeOK
  <2>2. /\ status' \in [Transfer -> Status]
        /\ conn' \in [Transfer -> Nat \cup {None}]
        /\ transfers' \in [Id -> Transfer \cup {None}]
    BY <1>8 DEF Restart, TypeOK, Status
  <2>3. /\ loggedIn' \subseteq User /\ channels' \subseteq Channel
        /\ counter' \in Nat /\ fileid' \in Nat /\ UNCHANGED <<tmp, data, reg>>
    BY <1>8 DEF Restart, TypeOK
  <2> QED
    BY <2>1, <2>2, <2>3 DEF TypeOK
<1> QED
  BY <1>1, <1>2, <1>5, <1>6, <1>7, <1>8 DEF ServerNext

-----------------------------------------------------------------------------
(* Registrations belong to users who are logged in, and are few. *)

\* A user who keeps some of its transfers and gets none stays within the limit.
LEMMA FewerOf ==
    ASSUME TypeOK, Limited, NEW u \in User, TransfersOf(u)' \subseteq TransfersOf(u)
    PROVE  Cardinality(TransfersOf(u))' <= MaxTransfers
<1>1. TransfersOf(u) \subseteq Id
  BY DEF TransfersOf
<1>2. IsFiniteSet(TransfersOf(u))
  BY <1>1, IdFacts, FS_Subset
<1>3. /\ Cardinality(TransfersOf(u)') <= Cardinality(TransfersOf(u))
      /\ IsFiniteSet(TransfersOf(u)')
  BY <1>2, FS_Subset
<1>4. /\ Cardinality(TransfersOf(u)) \in Nat
      /\ Cardinality(TransfersOf(u)') \in Nat
  BY <1>2, <1>3, FS_CardinalityType
<1> QED
  BY <1>3, <1>4, TransferAssumption DEF Limited

\* Whoever loses registrations, or logs in, disturbs neither.
LEMMA FewerOwned ==
    ASSUME TypeOK, Owned, Limited, UNCHANGED reg, loggedIn \subseteq loggedIn',
           \A i \in Id : transfers'[i] \in {transfers[i], None}
    PROVE  Owned' /\ Limited'
<1>1. Owned'
  BY DEF Owned
<1>2. ASSUME NEW u \in User PROVE TransfersOf(u)' \subseteq TransfersOf(u)
  BY DEF TransfersOf
<1>3. ASSUME NEW u \in User PROVE Cardinality(TransfersOf(u))' <= MaxTransfers
  BY <1>2, FewerOf
<1> QED
  BY <1>1, <1>3 DEF Limited

\* A new registration is one more of a user who has fewer than the limit.
LEMMA AcceptOwned ==
    ASSUME TypeOK, Owned, Limited, NEW t, NEW r \in Registration, NextId \in Id,
           r.owner \in loggedIn, r.id = NextId,
           Cardinality(TransfersOf(r.owner)) < MaxTransfers, Accept(t, r)
    PROVE  Owned' /\ Limited'
<1>1. /\ t \in Transfer /\ reg[t] = None /\ t # None /\ r # None
      /\ transfers' = [transfers EXCEPT ![NextId] = t]
      /\ reg' = [reg EXCEPT ![t] = r]
      /\ loggedIn' = loggedIn
  BY TransferAssumption, NullAssumption DEF Accept, Accepted
<1>2. \A i \in Id : transfers[i] # t
  BY <1>1 DEF Owned
<1>3. \A x \in Transfer : reg'[x] = IF x = t THEN r ELSE reg[x]
  BY <1>1 DEF TypeOK
<1>4. \A i \in Id : transfers'[i] = IF i = NextId THEN t ELSE transfers[i]
  BY <1>1 DEF TypeOK
<1>5. \A i \in Id : transfers[i] # None => transfers[i] \in Transfer
  BY DEF TypeOK
<1>6. Owned'
  BY <1>1, <1>2, <1>3, <1>4, <1>5 DEF Owned
<1>7. ASSUME NEW u \in User PROVE Cardinality(TransfersOf(u))' <= MaxTransfers
  <2>1. TransfersOf(u) \subseteq Id
    BY DEF TransfersOf
  <2>2. IsFiniteSet(TransfersOf(u)) /\ Cardinality(TransfersOf(u)) \in Nat
    BY <2>1, IdFacts, FS_Subset, FS_CardinalityType
  <2>3. CASE u # r.owner
    <3>1. TransfersOf(u)' \subseteq TransfersOf(u)
      BY <1>1, <1>2, <1>3, <1>4, <1>5, <2>3 DEF TransfersOf
    <3>2. /\ Cardinality(TransfersOf(u)') <= Cardinality(TransfersOf(u))
          /\ IsFiniteSet(TransfersOf(u)')
      BY <2>2, <3>1, FS_Subset
    <3>3. Cardinality(TransfersOf(u)') \in Nat
      BY <3>2, FS_CardinalityType
    <3> QED
      BY <2>2, <3>2, <3>3, TransferAssumption DEF Limited
  <2>4. CASE u = r.owner
    <3> DEFINE more == TransfersOf(u) \cup {NextId}
    <3>1. TransfersOf(u)' \subseteq more
      BY <1>1, <1>2, <1>3, <1>4, <1>5 DEF TransfersOf
    <3>2. IsFiniteSet(more) /\ Cardinality(more) <= Cardinality(TransfersOf(u)) + 1
      <4> DEFINE had == TransfersOf(u)
      <4>1. IsFiniteSet(had) /\ Cardinality(had) \in Nat
        BY <2>2
      <4> HIDE DEF had
      <4>2. /\ IsFiniteSet(had \cup {NextId})
            /\ Cardinality(had \cup {NextId}) =
                  IF NextId \in had THEN Cardinality(had) ELSE Cardinality(had) + 1
        BY <4>1, FS_AddElement
      <4>3. /\ IsFiniteSet(had \cup {NextId})
            /\ Cardinality(had \cup {NextId}) <= Cardinality(had) + 1
        BY <4>1, <4>2
      <4> QED
        BY <4>3 DEF had
    <3> HIDE DEF more
    <3>3. /\ Cardinality(TransfersOf(u)') <= Cardinality(more)
          /\ IsFiniteSet(TransfersOf(u)')
      BY <3>1, <3>2, FS_Subset
    <3>4. Cardinality(TransfersOf(u)') \in Nat /\ Cardinality(more) \in Nat
      BY <3>2, <3>3, FS_CardinalityType
    <3> QED
      BY <2>2, <2>4, <3>2, <3>3, <3>4, TransferAssumption
  <2> QED
    BY <2>3, <2>4
<1> QED
  BY <1>6, <1>7 DEF Limited

\* Every step leaves transfers with users who are logged in, and few enough.
LEMMA NextOwned == TypeOK /\ Listed /\ Owned /\ Limited /\ Next => Owned' /\ Limited'
<1> SUFFICES ASSUME TypeOK, Listed, Owned, Limited, Next PROVE Owned' /\ Limited'
  OBVIOUS
<1>1. ASSUME NEW t \in Transfer, NEW s \in Size, NEW u \in User, NEW c \in Channel,
             NEW n \in Name, RegisterUpload(t, u, c, n, s)
      PROVE  Owned' /\ Limited'
  <2> DEFINE r == [inbound |-> TRUE, owner |-> u, chan |-> c, name |-> n,
                   size |-> s, id |-> NextId, source |-> None]
  <2>1. NextId \in Id
    BY <1>1, NextIdFacts DEF RegisterUpload
  <2>2. r \in Registration /\ r.owner = u /\ r.id = NextId
    BY <2>1, TransferAssumption DEF Registration
  <2>3. /\ Accept(t, r) /\ u \in loggedIn
        /\ Cardinality(TransfersOf(u)) < MaxTransfers
    BY <1>1 DEF RegisterUpload, MayRegister
  <2> HIDE DEF r
  <2> QED
    BY <2>1, <2>2, <2>3, AcceptOwned
<1>2. ASSUME NEW t \in Transfer, NEW u \in User, NEW c \in Channel, NEW n \in Name,
             RegisterDownload(t, u, c, n)
      PROVE  Owned' /\ Limited'
  <2>1. NextId \in Id
    BY <1>2, NextIdFacts DEF RegisterDownload
  <2>2. PICK r \in Registration :
           r.owner = u /\ r.id = NextId /\ Accept(t, r)
    BY <1>2, DownloadRegistration
  <2>3. u \in loggedIn /\ Cardinality(TransfersOf(u)) < MaxTransfers
    BY <1>2 DEF RegisterDownload, MayRegister
  <2> QED
    BY <2>1, <2>2, <2>3, AcceptOwned
<1>3. ASSUME NEW u \in User, NEW c \in Channel, NEW n \in Name, NEW inbound,
             RegisterFails(u, c, n, inbound)
      PROVE  Owned' /\ Limited'
  BY <1>3, FewerOwned DEF RegisterFails
<1>4. ASSUME NEW t \in Transfer,
             \/ BeginFileTransfer(t) \/ BeginFails(t)
             \/ Receive(t) \/ ReceiveLast(t)
             \/ Send(t) \/ SendDone(t) \/ LoseConnection(t)
      PROVE  Owned' /\ Limited'
  <2>1. UNCHANGED <<reg, loggedIn>>
    BY <1>4 DEF BeginFileTransfer, BeginFails, Receive, ReceiveLast, Send, SendDone,
                LoseConnection
  <2>2. \A i \in Id : transfers'[i] \in {transfers[i], None}
    BY <1>4 DEF BeginFileTransfer, BeginFails, Receive, ReceiveLast, Send, SendDone,
                LoseConnection, EndFileTransfer, TypeOK
  <2> QED
    BY <2>1, <2>2, FewerOwned
<1>5. ASSUME NEW u \in User, Login(u) PROVE Owned' /\ Limited'
  BY <1>5, FewerOwned DEF Login
<1>6. ASSUME NEW u \in User, Logout(u) PROVE Owned' /\ Limited'
  <2>1. \A i \in Id : transfers'[i] = IF i \in TransfersOf(u) THEN None
                                      ELSE transfers[i]
    BY <1>6 DEF Logout
  <2>2. reg' = reg /\ loggedIn' = loggedIn \ {u}
    BY <1>6 DEF Logout
  <2>3. Owned'
    BY <2>1, <2>2 DEF Owned, TransfersOf
  <2>4. Limited'
    <3>1. ASSUME NEW v \in User PROVE TransfersOf(v)' \subseteq TransfersOf(v)
      BY <2>1, <2>2 DEF TransfersOf
    <3>2. ASSUME NEW v \in User PROVE Cardinality(TransfersOf(v))' <= MaxTransfers
      BY <3>1, FewerOf
    <3> QED
      BY <3>2 DEF Limited
  <2> QED
    BY <2>3, <2>4
<1>7. ASSUME NEW c \in Channel, NEW n \in Name, UserDeleteFile(c, n)
      PROVE  Owned' /\ Limited'
  BY <1>7, FewerOwned DEF UserDeleteFile
<1>8. ASSUME NEW c \in Channel, MakeChannel(c) \/ RemoveChannel(c)
      PROVE  Owned' /\ Limited'
  BY <1>8, FewerOwned DEF MakeChannel, RemoveChannel
<1>9. CASE Restart
  <2>1. \A i \in Id : transfers'[i] = None
    BY <1>9 DEF Restart
  <2>2. Owned'
    BY <2>1 DEF Owned
  <2>3. ASSUME NEW u \in User PROVE Cardinality(TransfersOf(u))' <= MaxTransfers
    <3>1. TransfersOf(u)' \subseteq TransfersOf(u)
      BY <2>1 DEF TransfersOf
    <3> QED
      BY <3>1, FewerOf
  <2> QED
    BY <2>2, <2>3 DEF Limited
<1> QED
  BY <1>1, <1>2, <1>3, <1>4, <1>5, <1>6, <1>7, <1>8, <1>9
     DEF Next, RegisterNext, DataNext, ServerNext

-----------------------------------------------------------------------------
(* Listed files are on the disk, each in a file of its own. *)

Filed == Listed /\ Apart /\ Whole

\* None of it is disturbed where files are left alone and registrations only added.
LEMMA FiledKept ==
    ASSUME TypeOK, Filed, UNCHANGED <<channels, files, data>>,
           \A t \in Transfer : reg[t] # None => reg'[t] = reg[t]
    PROVE  Filed'
<1>1. \A c \in Channel, n \in Name : files[c][n] # None =>
         /\ files[c][n].by \in Transfer
         /\ reg'[files[c][n].by] = reg[files[c][n].by]
  BY FileFields DEF TypeOK, Filed, Listed
<1>2. Listed'
  BY <1>1 DEF Filed, Listed
<1>3. Apart'
  BY DEF Filed, Apart
<1>4. Whole'
  BY <1>1 DEF Filed, Whole
<1> QED
  BY <1>2, <1>3, <1>4 DEF Filed

\* The next file id is that of no file.
LEMMA NextFileIdNew ==
    ASSUME TypeOK, Listed, NEW i, IsNextFileId(i)
    PROVE  \A c \in Channel, n \in Name : files[c][n] # None => files[c][n].fileid # i
<1> SUFFICES ASSUME NEW c \in Channel, NEW n \in Name, files[c][n] # None
             PROVE  files[c][n].fileid # i
  OBVIOUS
<1>1. c \in channels
  BY DEF Listed
<1>2. <<c, n>> \in Stored /\ FileAt(<<c, n>>) = files[c][n]
  BY <1>1 DEF Stored, FileAt
<1> QED
  BY <1>2 DEF IsNextFileId, FileIds

\* An upload that is stored takes an id and data of its own; with an id that is not
\* given twice, what is stored is its own.
LEMMA StoreFiled ==
    ASSUME TypeOK, Filed, NEW e \in Accepted, reg[e].chan \in channels,
           Store(e), UNCHANGED <<channels, reg>>,
           reg[e].id # 1 => tmp[reg[e].id] \in {{e}, {}}
    PROVE  Filed'
<1>1. PICK i \in LaterIds :
         /\ IsNextFileId(i)
         /\ \/ UNCHANGED <<files, tmp, data>>
            \/ /\ tmp[reg[e].id] # {}
               /\ \E n \in Data : IsNextData(n, i) /\ Place(e, i, n, e)
  BY DEF Store
<1>2. CASE UNCHANGED <<files, tmp, data>>
  BY <1>2, FiledKept
<1>3. CASE /\ tmp[reg[e].id] # {}
           /\ \E k \in Data : IsNextData(k, i) /\ Place(e, i, k, e)
  <2>1. PICK k \in Data : IsNextData(k, i) /\ Place(e, i, k, e)
    BY <1>3
  <2> DEFINE new == [fileid |-> i, data |-> k, by |-> e]
             C == reg[e].chan
             N == reg[e].name
  <2>2. /\ e \in Transfer /\ reg[e] # None
        /\ C \in Channel /\ N \in Name /\ reg[e].id \in Id
    BY RegistrationFields DEF Accepted, TypeOK
  <2>3. i \in Nat
    BY <1>1, StoredFinite DEF LaterIds, TypeOK
  <2>4. /\ new # None /\ new.fileid = i /\ new.data = k /\ new.by = e
    <3>1. new \in RemoteFile
      BY <2>1, <2>2, <2>3 DEF RemoteFile
    <3> QED
      BY <3>1, FileFields
  <2>5. files' = [files EXCEPT ![C][N] = new]
    BY <2>1 DEF Place
  <2> HIDE DEF new
  <2>6. \A c \in Channel, n \in Name :
           files'[c][n] = IF c = C /\ n = N THEN new ELSE files[c][n]
    BY <2>2, <2>5 DEF TypeOK
  <2>7. \A d \in Data : data'[d] = IF d = k THEN tmp[reg[e].id] ELSE data[d]
    BY <2>1 DEF Place, TypeOK
  <2>8. data[k] = {}
    BY <2>1 DEF IsNextData
  <2>9. \A c \in Channel, n \in Name : files[c][n] # None =>
           /\ files[c][n].fileid # i
           /\ files[c][n].data \in Data
           /\ files[c][n].data # k
    <3>1. \A c \in Channel, n \in Name : files[c][n] # None =>
             files[c][n] \in RemoteFile
      BY DEF TypeOK
    <3> QED
      BY <1>1, <2>8, <3>1, FileFields, NextFileIdNew DEF Filed, Listed
  <2>10. C \in channels /\ channels' = channels /\ reg' = reg
    OBVIOUS
  <2> HIDE DEF C, N
  <2>11. Listed'
    BY <1>3, <2>1, <2>2, <2>4, <2>6, <2>7, <2>9, <2>10 DEF Filed, Listed
  <2>12. Apart'
    BY <2>4, <2>6, <2>9 DEF Filed, Apart
  <2>13. Whole'
    BY <1>3, <2>1, <2>4, <2>6, <2>7, <2>9, <2>10 DEF Filed, Whole
  <2> QED
    BY <2>11, <2>12, <2>13 DEF Filed
<1> QED
  BY <1>1, <1>2, <1>3

\* A data connection that is done ends its own transfer, or one that shares id 1.
LEMMA EndFiled ==
    ASSUME TypeOK, Owned, Unique, Unmixed, Filed,
           NEW t \in Accepted, conn[t] # None, EndFileTransfer(reg[t].id),
           UNCHANGED <<channels, reg>>
    PROVE  Filed'
<1> DEFINE i == reg[t].id
           e == transfers[i]
<1>1. t \in Transfer /\ i \in Id
  BY RegistrationFields DEF Accepted, TypeOK
<1>2. CASE UNCHANGED <<files, data>>
  BY <1>2, FiledKept
<1>3. CASE e # None /\ reg[e].chan \in channels /\ reg[e].inbound /\ Store(e)
  <2>1. e \in Accepted /\ reg[e].id = i
    BY <1>1, <1>3 DEF TypeOK, Owned, Accepted
  <2>2. i # 1 => e = t
    BY <1>1, <1>3 DEF Unique
  <2>3. i # 1 => tmp[i] \in {{e}, {}}
    BY <1>1, <1>3, <2>2 DEF Unmixed
  <2> QED
    BY <1>3, <2>1, <2>3, StoreFiled
<1> QED
  BY <1>2, <1>3 DEF EndFileTransfer

\* Files are taken off the channel and the disk together.
LEMMA EraseFiled ==
    ASSUME TypeOK, Filed, NEW S \in SUBSET (Channel \X Name), UNCHANGED reg,
           \A c \in Channel \ channels', n \in Name : files'[c][n] = None,
           \A c \in Channel, n \in Name :
              files'[c][n] = IF <<c, n>> \in S THEN None ELSE files[c][n],
           \A s \in S : files[s[1]][s[2]] # None,
           data' = Erased(DataAt(S))
    PROVE  Filed'
<1>1. ASSUME NEW c \in Channel, NEW n \in Name, files'[c][n] # None
      PROVE  /\ files'[c][n] = files[c][n]
             /\ files[c][n].data \in Data /\ files[c][n].by \in Transfer
  <2>1. files'[c][n] = files[c][n]
    BY <1>1
  <2>2. files[c][n] \in RemoteFile
    BY <1>1, <2>1 DEF TypeOK
  <2> QED
    BY <2>1, <2>2, FileFields
<1>2. ASSUME NEW c \in Channel, NEW n \in Name, files'[c][n] # None
      PROVE  data'[files[c][n].data] = data[files[c][n].data]
  <2>1. <<c, n>> \notin S /\ files[c][n] # None
    BY <1>2
  <2>2. ASSUME NEW s \in S PROVE files[s[1]][s[2]].data # files[c][n].data
    <3>1. /\ s[1] \in Channel /\ s[2] \in Name /\ s = <<s[1], s[2]>>
          /\ files[s[1]][s[2]] # None
      BY <2>2
    <3>2. <<s[1], s[2]>> # <<c, n>>
      BY <2>1, <2>2, <3>1
    <3> QED
      BY <2>1, <3>1, <3>2 DEF Filed, Apart
  <2>3. files[c][n].data \notin DataAt(S)
    BY <2>2 DEF DataAt, FileAt
  <2> QED
    BY <1>1, <1>2, <2>3 DEF Erased
<1>3. Listed'
  BY <1>1, <1>2 DEF Filed, Listed
<1>4. Apart'
  BY <1>1 DEF Filed, Apart
<1>5. Whole'
  BY <1>1, <1>2 DEF Filed, Whole
<1> QED
  BY <1>3, <1>4, <1>5 DEF Filed

\* The files of a restarted server are numbered, each with a number of its own.
LEMMA RestartFiled == ASSUME TypeOK, Filed, Restart PROVE Filed'
<1>1. PICK number \in Injection(Kept, 1..Cardinality(Kept)) :
         \A c \in Channel, n \in Name :
            IF <<c, n>> \in Kept
            THEN /\ files'[c][n] # None
                 /\ files'[c][n].fileid = number[<<c, n>>]
                 /\ files'[c][n].data = files[c][n].data
                 /\ files'[c][n].by = files[c][n].by
            ELSE files'[c][n] = None
  BY RestartFiles
<1>2. \A r, s \in Kept : number[r] = number[s] => r = s
  BY <1>1 DEF Injection, IsInjective
<1>3. /\ channels' = channels \cap Permanent
      /\ data' = data /\ reg' = reg
  BY DEF Restart
<1>4. \A c \in Channel, n \in Name : <<c, n>> \in Kept =>
         c \in channels' /\ files[c][n] # None
  BY <1>3 DEF Kept, Stored, FileAt
<1>5. Listed'
  BY <1>1, <1>3, <1>4 DEF Filed, Listed
<1>6. Apart'
  <2> SUFFICES ASSUME NEW c \in Channel, NEW d \in Channel, NEW n \in Name, NEW m \in Name,
                      files'[c][n] # None, files'[d][m] # None, <<c, n>> # <<d, m>>
               PROVE  /\ files'[c][n].data # files'[d][m].data
                      /\ files'[c][n].fileid # files'[d][m].fileid
    BY DEF Apart
  <2>1. <<c, n>> \in Kept /\ <<d, m>> \in Kept
    BY <1>1
  <2>2. files[c][n].data # files[d][m].data
    BY <1>4, <2>1 DEF Filed, Apart
  <2>3. number[<<c, n>>] # number[<<d, m>>]
    BY <1>2, <2>1
  <2> QED
    BY <1>1, <2>1, <2>2, <2>3
<1>7. Whole'
  BY <1>1, <1>3, <1>4 DEF Filed, Whole
<1> QED
  BY <1>5, <1>6, <1>7 DEF Filed

\* Every step leaves listed files on the disk, apart and whole.
LEMMA NextFiled ==
    TypeOK /\ Owned /\ Unique /\ Unmixed /\ Filed /\ Next => Filed'
<1> SUFFICES ASSUME TypeOK, Owned, Unique, Unmixed, Filed, Next PROVE Filed'
  OBVIOUS
<1>1. ASSUME NEW t \in Transfer, NEW u \in User, NEW c \in Channel, NEW n \in Name,
             \/ \E r \in Size : RegisterUpload(t, u, c, n, r)
             \/ RegisterDownload(t, u, c, n)
      PROVE  Filed'
  <2>1. \A x \in Transfer : reg[x] # None => reg'[x] = reg[x]
    BY <1>1 DEF RegisterUpload, RegisterDownload, Accept, Accepted, TypeOK
  <2>2. UNCHANGED <<channels, files, data>>
    BY <1>1 DEF RegisterUpload, RegisterDownload, Accept
  <2> QED
    BY <2>1, <2>2, FiledKept
<1>2. ASSUME NEW u \in User, NEW c \in Channel, NEW n \in Name, NEW inbound,
             RegisterFails(u, c, n, inbound)
      PROVE  Filed'
  BY <1>2, FiledKept DEF RegisterFails
<1>3. ASSUME NEW t \in Transfer,
             BeginFileTransfer(t) \/ BeginFails(t) \/ Receive(t) \/ Send(t)
                \/ LoseConnection(t)
      PROVE  Filed'
  BY <1>3, FiledKept DEF BeginFileTransfer, BeginFails, Receive, Send, LoseConnection
<1>4. ASSUME NEW t \in Transfer, ReceiveLast(t) \/ SendDone(t) PROVE Filed'
  BY <1>4, EndFiled DEF ReceiveLast, SendDone
<1>5. ASSUME NEW u \in User, Login(u) \/ Logout(u) PROVE Filed'
  BY <1>5, FiledKept DEF Login, Logout
<1>6. ASSUME NEW c \in Channel, NEW n \in Name, UserDeleteFile(c, n) PROVE Filed'
  <2> DEFINE S == {<<c, n>>}
  <2>1. /\ files' = [files EXCEPT ![c][n] = None]
        /\ data' = Erased({files[c][n].data})
        /\ channels' = channels /\ reg' = reg /\ files[c][n] # None
    BY <1>6 DEF UserDeleteFile
  <2>2. \A d \in Channel, m \in Name :
           files'[d][m] = IF <<d, m>> \in S THEN None ELSE files[d][m]
    BY <2>1 DEF TypeOK
  <2>3. DataAt(S) = {files[c][n].data}
    BY DEF DataAt, FileAt
  <2>4. \A d \in Channel \ channels', m \in Name : files'[d][m] = None
    BY <2>1, <2>2 DEF Filed, Listed
  <2>5. S \in SUBSET (Channel \X Name) /\ \A s \in S : files[s[1]][s[2]] # None
    BY <2>1
  <2> HIDE DEF S
  <2> QED
    BY <2>1, <2>2, <2>3, <2>4, <2>5, EraseFiled
<1>7. ASSUME NEW c \in Channel, MakeChannel(c) PROVE Filed'
  <2>1. /\ channels' = channels \cup {c}
        /\ files' = files /\ data' = data /\ reg' = reg
    BY <1>7 DEF MakeChannel
  <2> QED
    BY <2>1 DEF Filed, Listed, Apart, Whole
<1>8. ASSUME NEW c \in Channel, RemoveChannel(c) PROVE Filed'
  <2> DEFINE S == {s \in Stored : s[1] = c}
  <2>1. /\ files' = [files EXCEPT ![c] = NoFiles]
        /\ data' = Erased(DataAt(S))
        /\ channels' = channels \ {c} /\ reg' = reg /\ c \in channels
    BY <1>8 DEF RemoveChannel
  <2>2. \A d \in Channel, m \in Name :
           /\ files'[d][m] = IF d = c THEN None ELSE files[d][m]
           /\ <<d, m>> \in S <=> d = c /\ files[c][m] # None
    BY <2>1 DEF TypeOK, NoFiles, Stored, FileAt
  <2>3. \A d \in Channel, m \in Name :
           files'[d][m] = IF <<d, m>> \in S THEN None ELSE files[d][m]
    BY <2>2
  <2>4. ASSUME NEW d \in Channel \ channels', NEW m \in Name
        PROVE  files'[d][m] = None
    <3>1. CASE d = c
      BY <2>2, <3>1
    <3>2. CASE d \in Channel \ channels
      <4>1. files[d][m] = None
        BY <3>2 DEF Filed, Listed
      <4> QED
        BY <2>2, <3>2, <4>1
    <3> QED
      BY <2>1, <3>1, <3>2
  <2>5. S \in SUBSET (Channel \X Name) /\ \A s \in S : files[s[1]][s[2]] # None
    BY DEF Stored, FileAt
  <2> HIDE DEF S
  <2> QED
    BY <2>1, <2>3, <2>4, <2>5, EraseFiled
<1>9. CASE Restart
  BY <1>9, RestartFiled
<1> QED
  BY <1>1, <1>2, <1>3, <1>4, <1>5, <1>6, <1>7, <1>8, <1>9
     DEF Next, RegisterNext, DataNext, ServerNext

-----------------------------------------------------------------------------
(* What is sent under an id is the transfer's own. *)

Apt == Unique /\ Unmixed /\ Written

\* A transfer that loses its registration, or its temporary file, disturbs nothing.
LEMMA AptFewer ==
    ASSUME TypeOK, Apt, UNCHANGED <<reg, counter>>,
           \A i \in Id : transfers'[i] \in {transfers[i], None},
           \A t \in Transfer : conn'[t] # None => conn[t] # None,
           \A i \in Id : tmp'[i] \in {tmp[i], {}}
    PROVE  Apt'
<1>1. \A t \in Transfer : reg[t] # None => reg[t].id \in Id
  BY RegistrationFields DEF TypeOK
<1>2. Unique'
  BY <1>1 DEF Apt, Unique
<1>3. Unmixed'
  BY <1>1 DEF Apt, Unmixed, Unique
<1>4. Written'
  BY DEF Apt, Written
<1> QED
  BY <1>2, <1>3, <1>4 DEF Apt

\* A new registration has the next id, which is that of no connection but for 1.
LEMMA AcceptApt ==
    ASSUME TypeOK, Apt, NEW t, NEW r \in Registration, NextId \in Id,
           transfers[NextId] = None, r.id = NextId, Accept(t, r)
    PROVE  Apt'
<1>1. /\ t \in Transfer /\ reg[t] = None /\ r # None /\ counter' = counter + 1
      /\ transfers' = [transfers EXCEPT ![NextId] = t]
      /\ reg' = [reg EXCEPT ![t] = r]
      /\ conn' = conn /\ tmp' = tmp
  BY NullAssumption DEF Accept, Accepted
<1>2. \A i \in Id : transfers'[i] = IF i = NextId THEN t ELSE transfers[i]
  BY <1>1 DEF TypeOK
<1>3. \A x \in Transfer : reg[x] # None => reg'[x] = reg[x] /\ reg[x].id \in Id
  BY <1>1, RegistrationFields DEF TypeOK
<1>4. /\ counter \in Nat
      /\ NextId # 1 => NextId = counter
      /\ Id \subseteq Nat
  BY IdFacts DEF NextId, TypeOK
<1>5. Unique'
  <2>1. \A i \in Id \ {1} : transfers'[i] # None => i < counter'
    BY <1>1, <1>2, <1>4 DEF Apt, Unique
  <2>2. ASSUME NEW x \in Transfer, conn'[x] # None
        PROVE  /\ reg'[x] # None
               /\ reg'[x].id # 1 => /\ reg'[x].id < counter'
                                    /\ transfers'[reg'[x].id] \in {x, None}
    <3>1. reg[x] # None /\ reg'[x] = reg[x] /\ reg[x].id \in Id
      BY <1>1, <1>3, <2>2 DEF Apt, Unique
    <3>2. reg[x].id # 1 => /\ reg[x].id < counter
                           /\ transfers[reg[x].id] \in {x, None}
      BY <1>1, <2>2 DEF Apt, Unique
    <3>3. reg[x].id # 1 => reg[x].id # NextId /\ reg[x].id < counter'
      <4>1. reg[x].id \in Nat /\ counter' = counter + 1
        BY <1>1, <1>4, <3>1
      <4>2. reg[x].id # 1 => reg[x].id < counter
        BY <3>2
      <4>3. reg[x].id # 1 => reg[x].id # NextId
        BY <1>4, <4>1, <4>2
      <4> QED
        BY <1>4, <4>1, <4>2, <4>3
    <3>4. reg[x].id # 1 => transfers'[reg[x].id] = transfers[reg[x].id]
      BY <1>2, <3>1, <3>3
    <3> QED
      BY <3>1, <3>2, <3>3, <3>4
  <2> QED
    BY <2>1, <2>2 DEF Unique
<1>6. Unmixed'
  BY <1>1, <1>3 DEF Apt, Unmixed, Unique
<1>7. Written'
  BY <1>1, <1>3 DEF Apt, Written, TypeOK
<1> QED
  BY <1>5, <1>6, <1>7 DEF Apt

\* An upload that begins finds in its temporary file only what shares id 1.
LEMMA BeginApt ==
    ASSUME TypeOK, Apt, NEW t \in Transfer, BeginFileTransfer(t)
    PROVE  Apt'
<1> DEFINE i == reg[t].id
<1>1. /\ reg[t] # None /\ transfers[i] = t
      /\ UNCHANGED <<reg, counter, transfers>>
  BY DEF BeginFileTransfer, MayBegin, Accepted
<1>2. i \in Id /\ t # None
  BY <1>1, RegistrationFields, TransferAssumption DEF TypeOK
<1>3. \A x \in Transfer : x # t => conn'[x] = conn[x]
  BY DEF BeginFileTransfer, TypeOK
<1>4. \A x \in Transfer : reg[x] # None => reg[x].id \in Id
  BY RegistrationFields DEF TypeOK
<1>5. Unique'
  BY <1>1, <1>2, <1>3 DEF Apt, Unique
<1>6. \A x \in Transfer : conn[x] # None /\ reg[x].id = i /\ i # 1 => x = t
  BY <1>1, <1>2 DEF Apt, Unique
<1>7. CASE ~reg[t].inbound /\ UNCHANGED tmp
  <2>1. Unmixed'
    BY <1>1, <1>3, <1>7 DEF Apt, Unmixed
  <2>2. Written'
    BY <1>1, <1>7 DEF Apt, Written
  <2> QED
    BY <1>5, <2>1, <2>2 DEF Apt
<1>8. CASE reg[t].inbound /\ NewFile(t)
  <2>1. tmp' = [tmp EXCEPT ![i] = {t} \cup WritersOf(i)]
    BY <1>8 DEF NewFile
  <2>2. \A x \in WritersOf(i) : /\ x \in Transfer /\ reg[x] # None
                                /\ reg[x].inbound /\ reg[x].id = i /\ conn[x] # None
    BY <1>2 DEF WritersOf, Apt, Written, TypeOK
  <2>3. i # 1 => WritersOf(i) \subseteq {t}
    BY <1>6, <2>2
  <2>4. \A j \in Id : tmp'[j] = IF j = i THEN {t} \cup WritersOf(i) ELSE tmp[j]
    BY <2>1 DEF TypeOK
  <2>5. Unmixed'
    <3> SUFFICES ASSUME NEW x \in Transfer, conn'[x] # None, reg'[x].inbound,
                        reg'[x].id # 1
                 PROVE  tmp'[reg'[x].id] \in {{x}, {}}
      BY DEF Unmixed
    <3>1. CASE x = t
      BY <1>1, <1>2, <2>3, <2>4, <3>1
    <3>2. CASE x # t
      <4>1. conn[x] # None /\ reg'[x] = reg[x] /\ reg[x].id # i
        BY <1>1, <1>3, <1>6, <3>2
      <4>2. reg[x].id \in Id
        BY <1>4, <4>1 DEF Apt, Unique
      <4>3. tmp[reg[x].id] \in {{x}, {}}
        BY <4>1 DEF Apt, Unmixed
      <4> QED
        BY <2>4, <4>1, <4>2, <4>3
    <3> QED
      BY <3>1, <3>2
  <2>6. Written'
    BY <1>1, <1>8, <2>2, <2>4 DEF Apt, Written
  <2> QED
    BY <1>5, <2>5, <2>6 DEF Apt
<1> QED
  BY <1>7, <1>8 DEF BeginFileTransfer

\* Every step leaves an id, but 1, and its temporary file to one transfer.
LEMMA NextApt == TypeOK /\ Listed /\ Owned /\ Apt /\ Next => Apt'
<1> SUFFICES ASSUME TypeOK, Listed, Owned, Apt, Next PROVE Apt'
  OBVIOUS
<1>1. ASSUME NEW t \in Transfer, NEW s \in Size, NEW u \in User, NEW c \in Channel,
             NEW n \in Name, RegisterUpload(t, u, c, n, s)
      PROVE  Apt'
  <2> DEFINE r == [inbound |-> TRUE, owner |-> u, chan |-> c, name |-> n,
                   size |-> s, id |-> NextId, source |-> None]
  <2>1. NextId \in Id
    BY <1>1, NextIdFacts DEF RegisterUpload
  <2>2. r \in Registration /\ r.id = NextId
    BY <2>1, TransferAssumption DEF Registration
  <2>3. Accept(t, r) /\ transfers[NextId] = None
    BY <1>1 DEF RegisterUpload
  <2> HIDE DEF r
  <2> QED
    BY <2>1, <2>2, <2>3, AcceptApt
<1>2. ASSUME NEW t \in Transfer, NEW u \in User, NEW c \in Channel, NEW n \in Name,
             RegisterDownload(t, u, c, n)
      PROVE  Apt'
  <2>1. NextId \in Id
    BY <1>2, NextIdFacts DEF RegisterDownload
  <2>2. PICK r \in Registration : r.id = NextId /\ Accept(t, r)
    BY <1>2, DownloadRegistration
  <2>3. transfers[NextId] = None
    BY <1>2 DEF RegisterDownload
  <2> QED
    BY <2>1, <2>2, <2>3, AcceptApt
<1>3. ASSUME NEW u \in User, NEW c \in Channel, NEW n \in Name, NEW inbound,
             RegisterFails(u, c, n, inbound)
      PROVE  Apt'
  <2>1. /\ counter' = counter + 1
        /\ UNCHANGED <<transfers, tmp, reg, conn>>
    BY <1>3 DEF RegisterFails
  <2>2. \A k \in Nat : k < counter => k < counter'
    BY <2>1 DEF TypeOK
  <2>3. \A t \in Transfer : reg[t] # None => reg[t].id \in Id
    BY RegistrationFields DEF TypeOK
  <2>4. Unique'
    BY <2>1, <2>2, <2>3, IdFacts DEF Apt, Unique
  <2> QED
    BY <2>1, <2>4 DEF Apt, Unmixed, Written
<1>4. ASSUME NEW t \in Transfer, BeginFileTransfer(t) PROVE Apt'
  BY <1>4, BeginApt
<1>5. ASSUME NEW t \in Transfer,
             \/ BeginFails(t) \/ Receive(t) \/ ReceiveLast(t)
             \/ Send(t) \/ SendDone(t) \/ LoseConnection(t)
      PROVE  Apt'
  <2>1. UNCHANGED <<reg, counter>>
    BY <1>5 DEF BeginFails, Receive, ReceiveLast, Send, SendDone, LoseConnection
  <2>2. \A i \in Id : transfers'[i] \in {transfers[i], None}
    BY <1>5 DEF BeginFails, Receive, ReceiveLast, Send, SendDone, LoseConnection,
                EndFileTransfer, TypeOK
  <2>3. \A x \in Transfer : conn'[x] # None => conn[x] # None
    BY <1>5 DEF BeginFails, Receive, ReceiveLast, Send, SendDone, LoseConnection,
                TypeOK
  <2>4. \A i \in Id : tmp'[i] \in {tmp[i], {}}
    <3>1. \A e : Store(e) => \A i \in Id : tmp'[i] \in {tmp[i], {}}
      BY DEF Store, Place, TypeOK
    <3>2. ASSUME NEW k, EndFileTransfer(k)
          PROVE  \A i \in Id : tmp'[i] \in {tmp[i], {}}
      BY <3>1, <3>2 DEF EndFileTransfer
    <3>3. CASE ReceiveLast(t) \/ SendDone(t)
      BY <3>2, <3>3 DEF ReceiveLast, SendDone
    <3>4. CASE LoseConnection(t)
      BY <3>4 DEF LoseConnection, TypeOK
    <3>5. CASE BeginFails(t) \/ Receive(t) \/ Send(t)
      BY <3>5 DEF BeginFails, Receive, Send
    <3> QED
      BY <1>5, <3>3, <3>4, <3>5
  <2> QED
    BY <2>1, <2>2, <2>3, <2>4, AptFewer
<1>6. ASSUME NEW u \in User, Login(u) PROVE Apt'
  BY <1>6, AptFewer DEF Login
<1>7. ASSUME NEW u \in User, Logout(u) PROVE Apt'
  BY <1>7, AptFewer DEF Logout
<1>8. ASSUME NEW c \in Channel, NEW n \in Name, UserDeleteFile(c, n) PROVE Apt'
  BY <1>8, AptFewer DEF UserDeleteFile
<1>9. ASSUME NEW c \in Channel, MakeChannel(c) \/ RemoveChannel(c) PROVE Apt'
  BY <1>9, AptFewer DEF MakeChannel, RemoveChannel
<1>10. CASE Restart
  <2>1. /\ \A i \in Id : transfers'[i] = None
        /\ \A t \in Transfer : conn'[t] = None
        /\ UNCHANGED <<tmp, reg>>
    BY <1>10 DEF Restart
  <2> QED
    BY <2>1 DEF Apt, Unique, Unmixed, Written
<1> QED
  BY <1>1, <1>2, <1>3, <1>4, <1>5, <1>6, <1>7, <1>8, <1>9, <1>10
     DEF Next, RegisterNext, DataNext, ServerNext

-----------------------------------------------------------------------------
(* The results. *)

\* The invariant holds of a server that has started without files.
LEMMA InitInv == Init => Inv
<1> SUFFICES ASSUME Init PROVE Inv
  OBVIOUS
<1>1. TypeOK
  BY TransferAssumption DEF Init, TypeOK, Status, NoFiles
<1>2. ASSUME NEW u \in User PROVE Cardinality(TransfersOf(u)) <= MaxTransfers
  <2>1. TransfersOf(u) = {}
    BY DEF Init, TransfersOf
  <2> QED
    BY <2>1, FS_EmptySet, TransferAssumption
<1>3. Owned /\ Limited
  BY <1>2 DEF Init, Owned, Limited
<1>4. Listed /\ Apart /\ Whole
  BY DEF Init, Listed, Apart, Whole, NoFiles
<1>5. Unique /\ Unmixed /\ Written
  BY DEF Init, Unique, Unmixed, Written
<1> QED
  BY <1>1, <1>3, <1>4, <1>5 DEF Inv

\* Every step preserves the invariant.
LEMMA NextInv == Inv /\ [Next]_vars => Inv'
<1> SUFFICES ASSUME Inv, [Next]_vars PROVE Inv'
  OBVIOUS
<1>1. CASE Next
  <2>1. TypeOK'
    BY <1>1, RegisterNextTyped, DataNextTyped, ServerNextTyped DEF Next, Inv
  <2>2. Owned' /\ Limited'
    BY <1>1, NextOwned DEF Inv
  <2>3. Filed'
    BY <1>1, NextFiled DEF Inv, Filed
  <2>4. Apt'
    BY <1>1, NextApt DEF Inv, Apt
  <2> QED
    BY <2>1, <2>2, <2>3, <2>4 DEF Inv, Filed, Apt
<1>2. CASE UNCHANGED vars
  <2>1. TypeOK' /\ Owned' /\ Listed' /\ Apart' /\ Whole'
    BY <1>2 DEF vars, Inv, TypeOK, Owned, Listed, Apart, Whole
  <2>2. Unique' /\ Unmixed' /\ Written'
    BY <1>2 DEF vars, Inv, Unique, Unmixed, Written
  <2>3. Limited'
    BY <1>2 DEF vars, Inv, Limited, TransfersOf
  <2> QED
    BY <2>1, <2>2, <2>3 DEF Inv
<1> QED
  BY <1>1, <1>2

\* The invariant holds in every reachable state, for every value of the constants.
THEOREM Invariant == Spec => []Inv
BY InitInv, NextInv, PTL DEF Spec

\* Every variable keeps a value of its kind.
THEOREM TypeCorrect == Spec => []TypeOK
<1>1. Inv => TypeOK
  BY DEF Inv
<1> QED
  BY <1>1, Invariant, PTL

\* Whatever users, data connections and restarts do, a registered transfer belongs
\* to a user who is logged in and nobody has more than the limit
\* (ServerNode.cpp:2824, 3198, 4214).
THEOREM TransfersStayOwned == Spec => []TransfersOwned
<1>1. Inv => TransfersOwned
  BY DEF Inv, Owned, Limited, TransfersOwned
<1> QED
  BY <1>1, Invariant, PTL

\* Each file listed in a channel is on the disk, in a file of its own and under an
\* id of its own (ServerNode.cpp:392-448, 4366-4413).
THEOREM FilesStayStored == Spec => []FilesStored
<1>1. ASSUME Inv PROVE FilesStored
  <2>1. \A s \in Stored : /\ s[1] \in Channel /\ s[2] \in Name
                          /\ s = <<s[1], s[2]>>
                          /\ files[s[1]][s[2]] # None
    BY DEF Stored, FileAt
  <2>2. \A s \in Stored : data[FileAt(s).data] # {}
    BY <1>1, <2>1 DEF Inv, Listed, FileAt
  <2>3. ASSUME NEW r \in Stored, NEW s \in Stored, r # s
        PROVE  /\ FileAt(r).data # FileAt(s).data
               /\ FileAt(r).fileid # FileAt(s).fileid
    <3>1. <<r[1], r[2]>> # <<s[1], s[2]>>
      BY <2>1, <2>3
    <3> QED
      BY <1>1, <2>1, <3>1 DEF Inv, Apart, FileAt
  <2> QED
    BY <2>2, <2>3 DEF FilesStored
<1> QED
  BY <1>1, Invariant, PTL

\* What a channel lists has only the bytes of the upload it is listed for, unless
\* that upload had id 1, which two transfers may have at once (ServerNode.cpp:4235).
THEOREM StoredFilesAreWhole == Spec => []StoredWhole
<1>1. ASSUME Inv PROVE StoredWhole
  <2>1. \A s \in Stored : /\ s[1] \in Channel /\ s[2] \in Name
                          /\ files[s[1]][s[2]] # None
    BY DEF Stored, FileAt
  <2> QED
    BY <1>1, <2>1 DEF Inv, Whole, FileAt, StoredWhole
<1> QED
  BY <1>1, Invariant, PTL

\* No transfer is ended by another one's data connection: a registration goes only
\* with its own connection, its user or the server (ServerNode.cpp:367-390, 3198).
THEOREM TransfersEndThemselves == Spec => EndsItself
<1> DEFINE Ends == \A i \in Id \ {1} :
              LET t == transfers[i] IN
              t # None /\ transfers'[i] # t =>
                  \/ conn[t] # None /\ conn'[t] = None
                  \/ reg[t].owner \notin loggedIn'
<1>1. ASSUME Inv, Next PROVE Ends
  <2> SUFFICES ASSUME NEW i \in Id \ {1}, transfers[i] # None,
                      transfers'[i] # transfers[i]
               PROVE  \/ conn[transfers[i]] # None /\ conn'[transfers[i]] = None
                      \/ reg[transfers[i]].owner \notin loggedIn'
    OBVIOUS
  <2> DEFINE t == transfers[i]
  <2>1. t \in Transfer /\ reg[t] # None /\ reg[t].owner \in User
    BY <1>1, RegistrationFields DEF Inv, Owned, TypeOK
  <2>2. ASSUME NEW x \in Accepted, conn[x] # None, reg[x].id = i PROVE x = t
    BY <1>1, <2>2 DEF Inv, Unique, Accepted
  <2>3. ASSUME RegisterNext PROVE FALSE
    BY <1>1, <2>3 DEF RegisterNext, RegisterUpload, RegisterDownload, RegisterFails,
                      Accept, Inv, TypeOK
  <2>4. ASSUME NEW x \in Transfer,
               BeginFileTransfer(x) \/ BeginFails(x) \/ Receive(x) \/ Send(x)
        PROVE  FALSE
    BY <2>4 DEF BeginFileTransfer, BeginFails, Receive, Send
  <2>5. ASSUME NEW x \in Transfer, ReceiveLast(x) \/ SendDone(x) \/ LoseConnection(x)
        PROVE  conn[t] # None /\ conn'[t] = None
    <3>1. x \in Accepted /\ conn[x] # None /\ conn' = [conn EXCEPT ![x] = None]
      BY <2>5 DEF ReceiveLast, SendDone, LoseConnection
    <3>2. transfers' = [transfers EXCEPT ![reg[x].id] = None]
      BY <2>5 DEF ReceiveLast, SendDone, LoseConnection, EndFileTransfer
    <3>3. reg[x].id = i
      BY <1>1, <3>2 DEF Inv, TypeOK
    <3>4. x = t
      BY <2>2, <3>1, <3>3
    <3> QED
      BY <1>1, <3>1, <3>4 DEF Inv, TypeOK
  <2>6. ASSUME NEW u \in User, Logout(u) PROVE reg[t].owner \notin loggedIn'
    BY <2>6 DEF Logout, TransfersOf
  <2>7. /\ \A u \in User : ~Login(u)
        /\ \A c \in Channel, n \in Name : ~UserDeleteFile(c, n)
        /\ \A c \in Channel : ~MakeChannel(c) /\ ~RemoveChannel(c)
    BY DEF Login, UserDeleteFile, MakeChannel, RemoveChannel
  <2>8. ASSUME Restart PROVE reg[t].owner \notin loggedIn'
    BY <2>8 DEF Restart
  <2> QED
    BY <1>1, <2>3, <2>4, <2>5, <2>6, <2>7, <2>8 DEF Next, DataNext, ServerNext
<1>2. ASSUME Inv, [Next]_vars PROVE [Ends]_vars
  BY <1>1, <1>2
<1>3. Spec => [][Ends]_vars
  BY <1>2, Invariant, PTL DEF Spec
<1> QED
  BY <1>3 DEF EndsItself
=============================================================================
