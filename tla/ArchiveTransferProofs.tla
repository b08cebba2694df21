--------------------- MODULE ArchiveTransferProofs ---------------------
(***************************************************************************)
(* What ArchiveTransfer promises of the bytes and of the answer, for any   *)
(* number of requests, tokens and chunks, and any failures of the reaper.  *)
(***************************************************************************)
EXTENDS ArchiveTransfer, FiniteSetTheorems, TLAPS

-----------------------------------------------------------------------------
(* The invariant.                                                          *)

Finalizing == {"create", "copy", "verify", "send"}
Operation == {"idle", "replace", "clear", "insert", "mkdir", "place", "record", "create", "copy",
              "verify", "send", "stored", "tidy", "end_row", "end_operation", "end_files"}
Entry == [op: Operation, token: Tokens \cup {0}, part: 0..Parts, body: Bodies \cup {Absent},
          rows: Content, file: Files \cup {NoFile}, right: BOOLEAN]
Directory == [there: BOOLEAN, chunks: Content, assembling: Files \cup {NoFile}]
Session == [token: Tokens \cup {0}, state: {"open", "finalized", "failed"}, expired: BOOLEAN]

Tables == /\ transfer \in Session /\ received \in Content /\ minted \in Tokens \cup {0}
          /\ receiver \in BOOLEAN
Disk == staging \in [Tokens -> Directory] /\ files \in [Files -> Content] /\ torn \subseteq Files
Work == work \in [Requests -> Entry]
Rest == /\ operation \in {"none", "running", "terminal"}
        /\ sweep \in [phase: {"rest", "sessions", "row", "scanned", "orphans"},
                      todo: SUBSET Tokens, faults: 0..MaxFaults]

LEMMA TypesInParts == TypeOK <=> Tables /\ Disk /\ Work /\ Rest
  BY DEF TypeOK, Tables, Disk, Work, Rest, Entry, Directory, Session, Operation

Assembled(t) == staging[t].assembling

(* Finalizations of one token have read the same rows, all of them, which  *)
(* are those of the session as long as it is there; a token that lost its  *)
(* session never has one again.                                            *)
RowsAgree ==
    /\ transfer.token <= minted
    /\ \A r \in Requests : work[r].op \in Finalizing =>
         /\ work[r].token \in Tokens /\ work[r].token <= minted
         /\ \A k \in 1..Parts : work[r].rows[k] # Absent
         /\ transfer.token = work[r].token =>
              \A k \in 1..Parts : work[r].rows[k] = received[k]
         /\ \A q \in Requests : work[q].op \in Finalizing /\ work[q].token = work[r].token =>
              \A k \in 1..Parts : work[r].rows[k] = work[q].rows[k]

(* A file belongs to one token: whoever has it open, or as its name.       *)
FilesApart ==
    /\ \A r \in Requests : work[r].op = "create" => work[r].file = NoFile
    /\ \A r \in Requests : work[r].op \in {"copy", "verify", "send"} => work[r].file # NoFile
    /\ \A t \in Tokens : Assembled(t) # NoFile => t <= minted
    /\ \A t, u \in Tokens : Assembled(t) = Assembled(u) /\ Assembled(t) # NoFile => t = u
    /\ \A t \in Tokens, r \in Requests :
         Assembled(t) = work[r].file /\ Assembled(t) # NoFile => work[r].token = t
    /\ \A r, q \in Requests :
         work[r].file = work[q].file /\ work[r].file # NoFile => work[r].token = work[q].token

(* What a file holds of a chunk is what the rows of its token record.      *)
ContentsAgree ==
    /\ \A r \in Requests, k \in 1..Parts :
         work[r].op \in Finalizing /\ work[r].file # NoFile /\ files[work[r].file][k] # Absent =>
           files[work[r].file][k] = work[r].rows[k]
    /\ \A t \in Tokens, r \in Requests, k \in 1..Parts :
         (/\ work[r].op \in Finalizing /\ work[r].token = t
          /\ Assembled(t) # NoFile /\ files[Assembled(t)][k] # Absent)
           => files[Assembled(t)][k] = work[r].rows[k]
    /\ \A t \in Tokens, k \in 1..Parts :
         transfer.token = t /\ Assembled(t) # NoFile /\ files[Assembled(t)][k] # Absent =>
           files[Assembled(t)][k] = received[k]

(* A digest that matches so far is that of the declared bytes.             *)
RightSoFar ==
    \A r \in Requests :
      /\ work[r].op = "copy" => work[r].part \in 1..Parts
      /\ work[r].op = "copy" /\ work[r].right =>
           \A k \in 1..Parts : k < work[r].part => work[r].rows[k] = "right"
      /\ work[r].op = "verify" /\ work[r].right => \A k \in 1..Parts : work[r].rows[k] = "right"
      /\ work[r].op = "send" => \A k \in 1..Parts : work[r].rows[k] = "right"

(* A file that was not torn has no hole, and whoever writes one has left   *)
(* none behind.                                                            *)
HolesAreTorn ==
    /\ \A f \in Files, j, k \in 1..Parts :
         f \notin torn /\ j < k /\ files[f][k] # Absent => files[f][j] # Absent
    /\ \A r \in Requests, j \in 1..Parts :
         work[r].op = "copy" /\ work[r].file \notin torn /\ j < work[r].part =>
           files[work[r].file][j] # Absent

(* Whoever is told that it is stored has that from the receiver.           *)
ReceiverHasIt ==
    /\ \A r \in Requests : work[r].op = "stored" => receiver
    /\ StoredMeansReceived

TransferInv ==
    /\ TypeOK
    /\ RowsAgree /\ FilesApart /\ ContentsAgree /\ RightSoFar
    /\ ReceiverHasIt /\ HolesAreTorn

LEMMA IdleIsAnEntry ==
    /\ Idle \in Entry /\ Idle.op = "idle" /\ Idle.file = NoFile
    /\ Blank \in Content /\ NoDirectory \in Directory /\ NoTransfer \in Session
  <1>1. Blank \in Content
    BY DEF Blank, Content
  <1> QED BY <1>1, TransferAssumption DEF Idle, Entry, Operation, NoDirectory, Directory, NoTransfer, Session

LEMMA TokensAreNaturals == Tokens \subseteq Nat /\ 0 \notin Tokens
  BY TransferAssumption

-----------------------------------------------------------------------------
(* A file that nobody has.                                                 *)

LEMMA FreeFileIsFree ==
    ASSUME Disk, Work, NEW r \in Requests, work[r].file = NoFile
    PROVE  FreeFile \in Files /\ ~InUse(FreeFile)
  <1> DEFINE names == [t \in Tokens |-> Assembled(t)]
             Named == {Assembled(t) : t \in Tokens}
             others == Requests \ {r}
             opened == [q \in others |-> work[q].file]
             Opened == {work[q].file : q \in others}
             n == Cardinality(Requests)
             m == Cardinality(Tokens)
  <1>1. n \in Nat /\ m \in Nat /\ IsFiniteSet(others) /\ Cardinality(others) = n - 1
    BY TransferAssumption, FS_CardinalityType, FS_RemoveElement
  <1>2. IsFiniteSet(Named) /\ Cardinality(Named) <= m
    <2>1. names \in Surjection(Tokens, Named)
      BY DEF Surjection
    <2> QED BY <2>1, FS_Surjection, TransferAssumption
  <1>3. IsFiniteSet(Opened) /\ Cardinality(Opened) <= n - 1
    <2>1. opened \in Surjection(others, Opened)
      BY DEF Surjection
    <2> QED BY <1>1, <2>1, FS_Surjection
  <1>4. IsFiniteSet(Named \cup Opened) /\ Cardinality(Named \cup Opened) <= n + m - 1
    <2>1. /\ Cardinality(Named) \in Nat /\ Cardinality(Opened) \in Nat
          /\ Cardinality(Named \cap Opened) \in Nat
      BY <1>2, <1>3, FS_CardinalityType, FS_Intersection
    <2> HIDE DEF Named, Opened, n, m
    <2>2. /\ IsFiniteSet(Named \cup Opened)
          /\ Cardinality(Named \cup Opened)
               = Cardinality(Named) + Cardinality(Opened) - Cardinality(Named \cap Opened)
      BY <1>2, <1>3, FS_Union
    <2> QED BY <1>1, <1>2, <1>3, <2>1, <2>2
  <1>5. Cardinality(Files) = n + m
    BY <1>1, FS_Interval DEF Files
  <1>6. ~ (Files \subseteq Named \cup Opened)
    <2> SUFFICES ASSUME Files \subseteq Named \cup Opened PROVE FALSE
      OBVIOUS
    <2>1. Cardinality(Files) <= Cardinality(Named \cup Opened)
      BY <1>4, FS_Subset
    <2>2. Cardinality(Named \cup Opened) \in Nat
      BY <1>4, FS_CardinalityType
    <2> QED BY <1>1, <1>4, <1>5, <2>1, <2>2
  <1>7. PICK f \in Files : f \notin Named /\ f \notin Opened
    BY <1>6
  <1>8. f # NoFile
    BY <1>1, <1>7 DEF Files, NoFile
  <1>9. ~InUse(f)
    BY <1>7, <1>8 DEF InUse, Assembled
  <1> QED BY <1>7, <1>9 DEF FreeFile

-----------------------------------------------------------------------------
(* Steps that finalize nothing.                                            *)

(* Whoever goes on outside of a finalization keeps its file, or lets it go.*)
GoesOutside(r) ==
    \/ work'[r] = work[r]
    \/ /\ work'[r].op \notin Finalizing
       /\ work'[r].file = NoFile \/ (work'[r].file = work[r].file /\ work'[r].token = work[r].token)
       /\ work'[r].op = "stored" => receiver'

(* The session stays, with at least its rows, or it goes, or a token comes *)
(* that was never minted.                                                  *)
SessionsGoOn ==
    /\ minted <= minted' /\ transfer'.token <= minted'
    /\ \A t \in Tokens : t <= minted /\ transfer'.token = t =>
         /\ transfer.token = t
         /\ \A k \in 1..Parts : received[k] # Absent => received'[k] = received[k]

(* A quiet step, by its parts: it writes no archive file, and opens none.  *)
(* A file that nobody has any more may be forgotten.                       *)
QuietTables ==
    /\ Tables' /\ SessionsGoOn
    /\ receiver => receiver'
    /\ transfer'.state = "finalized" => receiver'
QuietDisk ==
    /\ Disk'
    /\ \A f \in Files : \/ files'[f] = files[f] /\ (f \in torn => f \in torn')
                        \/ files'[f] = Blank /\ ~InUse(f)'
    /\ \A t \in Tokens : Assembled(t)' \in {Assembled(t), NoFile}
QuietWork == Work' /\ \A r \in Requests : GoesOutside(r)
QuietRest == Rest'

LEMMA Parted ==
    TransferInv => /\ Tables /\ Disk /\ Work /\ Rest
                   /\ RowsAgree /\ FilesApart /\ ContentsAgree /\ RightSoFar /\ ReceiverHasIt
                   /\ HolesAreTorn
  BY TypesInParts DEF TransferInv

LEMMA PartsMakeTheType == Tables' /\ Disk' /\ Work' /\ Rest' => TypeOK'
  BY DEF TypeOK, Tables, Disk, Work, Rest, Entry, Directory, Session, Operation

(* A file that somebody has after a quiet step is as it was.               *)
LEMMA UsedStays ==
    ASSUME QuietDisk
    PROVE  /\ \A r \in Requests : work'[r].file \in Files =>
                /\ files'[work'[r].file] = files[work'[r].file]
                /\ work'[r].file \in torn => work'[r].file \in torn'
           /\ \A t \in Tokens : Assembled(t)' \in Files => files'[Assembled(t)'] = files[Assembled(t)']
  <1>1. \A f \in Files : InUse(f)' => files'[f] = files[f] /\ (f \in torn => f \in torn')
    BY DEF QuietDisk
  <1>2. /\ \A f \in Files, r \in Requests : work'[r].file = f => InUse(f)'
        /\ \A f \in Files, t \in Tokens : Assembled(t)' = f => InUse(f)'
    BY DEF InUse, Assembled
  <1> HIDE DEF InUse
  <1> QED BY <1>1, <1>2, Zenon

LEMMA HolesStay ==
    ASSUME TransferInv, QuietDisk, Work',
           \A r \in Requests : work'[r].op = "copy" =>
             work[r].op = "copy" /\ work'[r].file = work[r].file /\ work'[r].part = work[r].part
    PROVE  HolesAreTorn'
  <1>1. HolesAreTorn /\ FilesApart /\ Work
    BY Parted
  <1>2. \A f \in Files, j, k \in 1..Parts :
          f \notin torn' /\ j < k /\ files'[f][k] # Absent => files'[f][j] # Absent
    <2>1. \A k \in 1..Parts : Blank[k] = Absent
      BY DEF Blank
    <2> QED BY <1>1, <2>1 DEF QuietDisk, HolesAreTorn
  <1>3. ASSUME NEW r \in Requests, NEW j \in 1..Parts,
               work'[r].op = "copy", work'[r].file \notin torn', j < work'[r].part
        PROVE  files'[work'[r].file][j] # Absent
    <2>1. work[r].op = "copy" /\ work'[r].file = work[r].file /\ work'[r].part = work[r].part
      BY <1>3
    <2>2. work[r].file \in Files
      BY <1>1, <2>1 DEF FilesApart, Work, Entry
    <2>3. /\ files'[work[r].file] = files[work[r].file]
          /\ work[r].file \notin torn
      BY <1>3, <2>1, <2>2, UsedStays
    <2> QED BY <1>1, <1>3, <2>1, <2>3 DEF HolesAreTorn
  <1> QED BY <1>2, <1>3 DEF HolesAreTorn

LEMMA QuietKeeps ==
    ASSUME TransferInv, QuietTables, QuietDisk, QuietWork, QuietRest
    PROVE  TransferInv'
  <1>0. /\ RowsAgree /\ FilesApart /\ ContentsAgree /\ RightSoFar /\ ReceiverHasIt
        /\ Work /\ Work' /\ Tables /\ Tables' /\ Disk'
    BY Parted DEF QuietTables, QuietWork, QuietDisk
  <1>a. TypeOK'
    BY PartsMakeTheType DEF QuietTables, QuietDisk, QuietWork, QuietRest
  <1>b. /\ \A t \in Tokens : Assembled(t)' \in {Assembled(t), NoFile}
        /\ \A r \in Requests : GoesOutside(r)
        /\ SessionsGoOn
        /\ receiver => receiver'
        /\ transfer'.state = "finalized" => receiver'
    BY DEF QuietTables, QuietDisk, QuietWork
  <1>1. \A r \in Requests : work'[r].op \in Finalizing => work'[r] = work[r]
    BY <1>b DEF GoesOutside
  <1>2. \A r \in Requests : work'[r].file # NoFile =>
          work'[r].file = work[r].file /\ work'[r].token = work[r].token
    BY <1>b DEF GoesOutside
  <1>c. /\ \A r \in Requests : work'[r].file # NoFile =>
             files'[work'[r].file] = files[work'[r].file]
        /\ \A t \in Tokens : Assembled(t)' # NoFile => files'[Assembled(t)'] = files[Assembled(t)']
    <2>1. /\ \A r \in Requests : work'[r].file \in Files \cup {NoFile}
          /\ \A t \in Tokens : Assembled(t)' \in Files \cup {NoFile}
      BY <1>0 DEF Work, Entry, Disk, Directory, Assembled
    <2> QED BY <2>1, UsedStays
  <1>3. minted \in Nat /\ minted' \in Nat /\ minted <= minted'
    BY <1>0, <1>b, TokensAreNaturals DEF Tables, SessionsGoOn
  <1>4. RowsAgree'
    <2>1. ASSUME NEW r \in Requests, work'[r].op \in Finalizing
          PROVE  /\ work'[r].token \in Tokens /\ work'[r].token <= minted'
                 /\ \A k \in 1..Parts : work'[r].rows[k] # Absent
                 /\ transfer'.token = work'[r].token =>
                      \A k \in 1..Parts : work'[r].rows[k] = received'[k]
      <3>1. work'[r] = work[r] /\ work[r].op \in Finalizing
        BY <1>1, <2>1
      <3>2. /\ work[r].token \in Tokens /\ work[r].token <= minted
            /\ \A k \in 1..Parts : work[r].rows[k] # Absent
            /\ transfer.token = work[r].token => \A k \in 1..Parts : work[r].rows[k] = received[k]
        BY <1>0, <3>1 DEF RowsAgree
      <3>3. work[r].token \in Nat
        BY <3>2, TokensAreNaturals
      <3> QED BY <1>3, <1>b, <3>1, <3>2, <3>3 DEF SessionsGoOn
    <2>2. \A r, q \in Requests :
            work'[r].op \in Finalizing /\ work'[q].op \in Finalizing /\ work'[q].token = work'[r].token
              => \A k \in 1..Parts : work'[r].rows[k] = work'[q].rows[k]
      BY <1>0, <1>1 DEF RowsAgree
    <2> QED BY <1>b, <2>1, <2>2 DEF RowsAgree, SessionsGoOn
  <1>5. FilesApart'
    <2>1. /\ \A r \in Requests : work'[r].op = "create" => work'[r].file = NoFile
          /\ \A r \in Requests : work'[r].op \in {"copy", "verify", "send"} => work'[r].file # NoFile
      BY <1>0, <1>1 DEF FilesApart, Finalizing
    <2>2. /\ \A t \in Tokens : Assembled(t)' # NoFile => Assembled(t)' = Assembled(t)
          /\ \A t \in Tokens : t \in Nat
      BY <1>b, TokensAreNaturals
    <2>3. \A t \in Tokens : Assembled(t)' # NoFile => t <= minted'
      BY <1>0, <1>3, <2>2 DEF FilesApart
    <2>4. /\ \A t, u \in Tokens : Assembled(t)' = Assembled(u)' /\ Assembled(t)' # NoFile => t = u
          /\ \A t \in Tokens, r \in Requests :
               Assembled(t)' = work'[r].file /\ Assembled(t)' # NoFile => work'[r].token = t
      BY <1>0, <1>2, <2>2 DEF FilesApart
    <2>5. \A r, q \in Requests :
            work'[r].file = work'[q].file /\ work'[r].file # NoFile => work'[r].token = work'[q].token
      BY <1>0, <1>2 DEF FilesApart
    <2> QED BY <2>1, <2>3, <2>4, <2>5 DEF FilesApart
  <1>6. ContentsAgree'
    <2>1. \A t \in Tokens : Assembled(t)' # NoFile => Assembled(t)' = Assembled(t)
      BY <1>b
    <2>2. \A r \in Requests, k \in 1..Parts :
            work'[r].op \in Finalizing /\ work'[r].file # NoFile /\ files'[work'[r].file][k] # Absent =>
              files'[work'[r].file][k] = work'[r].rows[k]
      BY <1>0, <1>1, <1>c DEF ContentsAgree
    <2>3. \A t \in Tokens, r \in Requests, k \in 1..Parts :
            (/\ work'[r].op \in Finalizing /\ work'[r].token = t
             /\ Assembled(t)' # NoFile /\ files'[Assembled(t)'][k] # Absent)
              => files'[Assembled(t)'][k] = work'[r].rows[k]
      BY <1>0, <1>1, <1>c, <2>1 DEF ContentsAgree
    <2>4. ASSUME NEW t \in Tokens, NEW k \in 1..Parts, transfer'.token = t,
                 Assembled(t)' # NoFile, files'[Assembled(t)'][k] # Absent
          PROVE  files'[Assembled(t)'][k] = received'[k]
      <3>1. Assembled(t)' = Assembled(t) /\ t <= minted
        BY <1>0, <2>1, <2>4 DEF FilesApart
      <3>2. transfer.token = t /\ (received[k] # Absent => received'[k] = received[k])
        BY <1>b, <2>4, <3>1 DEF SessionsGoOn
      <3>3. files[Assembled(t)][k] # Absent /\ files[Assembled(t)][k] = received[k]
        BY <1>0, <1>c, <2>4, <3>1, <3>2 DEF ContentsAgree
      <3> QED BY <1>c, <2>4, <3>1, <3>2, <3>3
    <2> QED BY <2>2, <2>3, <2>4 DEF ContentsAgree
  <1>7. RightSoFar'
    BY <1>0, <1>1 DEF RightSoFar, Finalizing
  <1>8. ReceiverHasIt'
    BY <1>0, <1>b DEF ReceiverHasIt, StoredMeansReceived, GoesOutside
  <1>9. HolesAreTorn'
    BY <1>0, <1>1, HolesStay DEF Finalizing
  <1> QED BY <1>a, <1>4, <1>5, <1>6, <1>7, <1>8, <1>9 DEF TransferInv

(* One request goes on to an entry, with everybody else where they were.   *)
LEMMA OneEntry ==
    ASSUME Work, NEW r \in Requests, NEW e \in Entry, work' = [work EXCEPT ![r] = e]
    PROVE  Work' /\ work'[r] = e /\ \A q \in Requests \ {r} : work'[q] = work[q]
  BY DEF Work

(* A request begins, without a file.                                       *)
LEMMA EntryBegins ==
    ASSUME NEW op \in Operation, NEW token \in Tokens \cup {0}
    PROVE  \E e \in Entry : /\ e = [Idle EXCEPT !.op = op, !.token = token]
                            /\ e.op = op /\ e.token = token /\ e.file = NoFile
  <1> DEFINE e == [Idle EXCEPT !.op = op, !.token = token]
  <1>1. e \in Entry /\ e.op = op /\ e.token = token /\ e.file = NoFile
    BY IdleIsAnEntry DEF Entry
  <1> QED BY <1>1, Zenon

(* A request goes on to an operation that finalizes nothing, or is done.   *)
LEMMA OneGoesOutside ==
    ASSUME Work, NEW r \in Requests, NEW op \in Operation \ Finalizing,
           op = "stored" => receiver', To(r, op) \/ Answered(r, op) \/ Done(r)
    PROVE  Work' /\ \A q \in Requests : GoesOutside(q)
  <1>1. CASE To(r, op)
    <2>1. PICK e \in Entry : /\ work' = [work EXCEPT ![r] = e]
                             /\ e.op = op /\ e.file = work[r].file /\ e.token = work[r].token
      <3> DEFINE e == [work[r] EXCEPT !.op = op]
      <3>1. e \in Entry /\ e.op = op /\ e.file = work[r].file /\ e.token = work[r].token
        BY DEF Work, Entry
      <3>2. work' = [work EXCEPT ![r] = e]
        BY <1>1 DEF To, Work
      <3> QED BY <3>1, <3>2, Zenon
    <2> QED BY <2>1, OneEntry DEF GoesOutside
  <1>2. CASE Done(r)
    BY <1>2, IdleIsAnEntry, OneEntry DEF Done, GoesOutside, Finalizing
  <1>3. CASE Answered(r, op)
    <2>1. work[r].token \in Tokens \cup {0}
      BY DEF Work, Entry
    <2>2. PICK token \in Tokens \cup {0} : token = work[r].token
      BY <2>1
    <2>3. PICK e \in Entry : /\ e = [Idle EXCEPT !.op = op, !.token = token]
                            /\ e.op = op /\ e.token = token /\ e.file = NoFile
      <3> DEFINE e == [Idle EXCEPT !.op = op, !.token = token]
      <3>1. e \in Entry /\ e.op = op /\ e.token = token /\ e.file = NoFile
        BY IdleIsAnEntry DEF Entry
      <3> QED BY <3>1, Zenon
    <2>4. work' = [work EXCEPT ![r] = e]
      BY <1>3, <2>2, <2>3, Zenon DEF Answered
    <2> QED BY <2>3, <2>4, OneEntry DEF GoesOutside
  <1> QED BY <1>1, <1>2, <1>3

(* A directory goes, is made or takes a chunk: its file keeps its name, or *)
(* loses it.                                                               *)
LEMMA DirectoriesOutside ==
    ASSUME Disk, files' \in [Files -> Content], torn' \subseteq Files, NEW t, NEW k, NEW b \in Bodies \cup {Absent},
           \/ UNCHANGED staging \/ Remove(t)
           \/ staging' = [staging EXCEPT ![t] = Made(@)]
           \/ staging' = [staging EXCEPT ![t] = [Made(@) EXCEPT !.chunks[k] = b]]
    PROVE  Disk' /\ \A u \in Tokens : Assembled(u)' \in {Assembled(u), NoFile}
  <1>0. \A d \in Directory :
          /\ Made(d) \in Directory /\ Made(d).assembling = d.assembling
          /\ [Made(d) EXCEPT !.chunks[k] = b] \in Directory
          /\ [Made(d) EXCEPT !.chunks[k] = b].assembling = d.assembling
    <2> SUFFICES ASSUME NEW d \in Directory
                 PROVE  /\ Made(d) \in Directory /\ Made(d).assembling = d.assembling
                        /\ [Made(d) EXCEPT !.chunks[k] = b] \in Directory
                        /\ [Made(d) EXCEPT !.chunks[k] = b].assembling = d.assembling
      OBVIOUS
    <2>1. Made(d) \in Directory /\ Made(d).assembling = d.assembling
      BY DEF Made, Directory
    <2>2. \A c \in Content : [c EXCEPT ![k] = b] \in Content
      BY DEF Content
    <2>3. PICK made \in Directory : made = Made(d)
      BY <2>1
    <2>4. /\ [made EXCEPT !.chunks[k] = b] \in Directory
          /\ [made EXCEPT !.chunks[k] = b].assembling = made.assembling
      BY <2>2 DEF Directory
    <2> QED BY <2>1, <2>3, <2>4
  <1>1. CASE UNCHANGED staging
    BY <1>1 DEF Disk, Assembled
  <1>2. CASE Remove(t)
    BY <1>2, IdleIsAnEntry DEF Remove, Disk, Assembled, NoDirectory
  <1>3. CASE staging' = [staging EXCEPT ![t] = Made(@)]
    BY <1>0, <1>3 DEF Disk, Assembled
  <1>4. CASE staging' = [staging EXCEPT ![t] = [Made(@) EXCEPT !.chunks[k] = b]]
    BY <1>0, <1>4 DEF Disk, Assembled
  <1> QED BY <1>1, <1>2, <1>3, <1>4

(* What the tables may do without a new session.                           *)
LEMMA TablesStay ==
    ASSUME TransferInv, UNCHANGED minted, receiver' = receiver,
           transfer'.token = transfer.token, transfer' \in Session, received' \in Content,
           \A k \in 1..Parts : received[k] # Absent => received'[k] = received[k],
           transfer'.state = "finalized" => receiver
    PROVE  QuietTables
  <1>1. Tables /\ RowsAgree
    BY Parted
  <1>2. Tables'
    BY <1>1 DEF Tables
  <1>3. minted \in Nat /\ transfer.token <= minted
    BY <1>1, TokensAreNaturals DEF Tables, RowsAgree
  <1>4. SessionsGoOn
    BY <1>3 DEF SessionsGoOn
  <1> QED BY <1>2, <1>4 DEF QuietTables

LEMMA TablesUntouched ==
    ASSUME TransferInv, UNCHANGED <<transfer, received, minted, receiver>>
    PROVE  QuietTables
  <1>1. /\ transfer \in Session /\ received \in Content
        /\ transfer.state = "finalized" => receiver
    BY Parted DEF Tables, ReceiverHasIt, StoredMeansReceived
  <1> QED BY <1>1, TablesStay

LEMMA SessionGoes ==
    ASSUME TransferInv, UNCHANGED <<minted, receiver>>,
           transfer' = NoTransfer, received' = Blank
    PROVE  QuietTables
  <1>1. Tables /\ RowsAgree
    BY Parted
  <1>2. /\ Tables' /\ transfer'.state = "open" /\ transfer'.token = 0
    BY <1>1, IdleIsAnEntry DEF Tables, NoTransfer
  <1>3. minted \in Nat /\ \A t \in Tokens : t # 0
    BY <1>1, TokensAreNaturals DEF Tables
  <1>4. SessionsGoOn
    BY <1>2, <1>3 DEF SessionsGoOn
  <1> QED BY <1>2, <1>4 DEF QuietTables

LEMMA DiskUntouched ==
    ASSUME TransferInv, UNCHANGED disk
    PROVE  QuietDisk
  BY Parted DEF disk, QuietDisk, Disk, Assembled

(* What is forgotten nobody has.                                           *)
LEMMA FilesForgotten ==
    ASSUME Disk, Forgets
    PROVE  /\ files' \in [Files -> Content] /\ torn' \subseteq Files
           /\ \A f \in Files : \/ files'[f] = files[f] /\ (f \in torn => f \in torn')
                               \/ files'[f] = Blank /\ ~InUse(f)'
  <1>1. Blank \in Content
    BY IdleIsAnEntry
  <1>2. /\ files' = [f \in Files |-> IF InUse(f)' THEN files[f] ELSE Blank]
        /\ torn' = {f \in torn : InUse(f)'}
    BY DEF Forgets
  <1> HIDE DEF Forgets
  <1> QED BY <1>1, <1>2 DEF Disk

LEMMA DirectoryGoes ==
    ASSUME TransferInv, Forgets, NEW t, Remove(t) \/ UNCHANGED staging
    PROVE  QuietDisk
  <1>1. Disk /\ "right" \in Bodies
    BY Parted DEF Bodies
  <1>2. /\ files' \in [Files -> Content] /\ torn' \subseteq Files
        /\ \A f \in Files : \/ files'[f] = files[f] /\ (f \in torn => f \in torn')
                            \/ files'[f] = Blank /\ ~InUse(f)'
    BY <1>1, FilesForgotten
  <1>3. Disk' /\ \A u \in Tokens : Assembled(u)' \in {Assembled(u), NoFile}
    BY <1>1, <1>2, DirectoriesOutside
  <1> QED BY <1>2, <1>3 DEF QuietDisk

LEMMA WorkUntouched ==
    ASSUME TransferInv, UNCHANGED work
    PROVE  QuietWork
  BY Parted DEF QuietWork, Work, GoesOutside

LEMMA RestUntouched ==
    ASSUME TransferInv, UNCHANGED sweep,
           operation' = operation \/ operation' \in {"running", "terminal"}
    PROVE  QuietRest
  BY Parted DEF QuietRest, Rest

LEMMA RequestGoesOutside ==
    ASSUME TransferInv, NEW r \in Requests, NEW op \in Operation \ Finalizing,
           op = "stored" => receiver', To(r, op) \/ Answered(r, op) \/ Done(r)
    PROVE  QuietWork
  <1>1. Work
    BY Parted
  <1> QED BY <1>1, OneGoesOutside DEF QuietWork

LEMMA RequestBegins ==
    ASSUME TransferInv, NEW r \in Requests, NEW op \in Operation \ (Finalizing \cup {"stored"}),
           NEW token \in Tokens \cup {0},
           work' = [work EXCEPT ![r] = [Idle EXCEPT !.op = op, !.token = token]]
    PROVE  QuietWork
  <1>1. Work
    BY Parted
  <1>2. op \in Operation
    OBVIOUS
  <1>3. \E f \in Entry : /\ f = [Idle EXCEPT !.op = op, !.token = token]
                         /\ f.op = op /\ f.token = token /\ f.file = NoFile
    BY <1>2, EntryBegins, Zenon
  <1>4. PICK e \in Entry : /\ e = [Idle EXCEPT !.op = op, !.token = token]
                          /\ e.op = op /\ e.token = token /\ e.file = NoFile
    BY <1>3, Zenon
  <1>5. work' = [work EXCEPT ![r] = e]
    BY <1>4, Zenon
  <1>6. Work' /\ work'[r] = e /\ \A q \in Requests \ {r} : work'[q] = work[q]
    BY <1>1, <1>5, OneEntry
  <1>7. \A q \in Requests : GoesOutside(q)
    BY <1>4, <1>6 DEF GoesOutside
  <1> QED BY <1>6, <1>7 DEF QuietWork

-----------------------------------------------------------------------------
(* POST .../uploads.                                                       *)

LEMMA OpenKeeps ==
    ASSUME TransferInv, NEW r \in Requests, Open(r)
    PROVE  TransferInv'
  <1>0. Tables
    BY Parted
  <1>1. UNCHANGED <<operation, receiver, sweep>>
    BY DEF Open, OpenReads, OpenReplaces, OpenClears, OpenInserts, OpenMakesDirectory, tables, disk
  <1>2. QuietRest
    BY <1>1, RestUntouched
  <1>3. CASE OpenReads(r)
    <2>1. PICK op \in {"insert", "replace"} :
             work' = [work EXCEPT ![r] = [Idle EXCEPT !.op = op, !.token = transfer.token]]
      BY <1>3 DEF OpenReads
    <2>2. PICK token \in Tokens \cup {0} : token = transfer.token
      BY <1>0 DEF Tables, Session
    <2>3. op \in Operation \ (Finalizing \cup {"stored"})
      BY DEF Operation, Finalizing
    <2>4. work' = [work EXCEPT ![r] = [Idle EXCEPT !.op = op, !.token = token]]
      BY <2>1, <2>2
    <2>5. QuietWork
      BY <2>3, <2>4, RequestBegins
    <2>6. UNCHANGED <<transfer, received, minted, receiver>> /\ UNCHANGED disk
      BY <1>3 DEF OpenReads, tables
    <2> QED BY <1>2, <2>5, <2>6, TablesUntouched, DiskUntouched, QuietKeeps
  <1>4. CASE OpenReplaces(r)
    <2>1. QuietWork
      BY <1>4, RequestGoesOutside DEF OpenReplaces, Operation, Finalizing
    <2>2. QuietTables /\ QuietDisk
      BY <1>4, SessionGoes, DiskUntouched DEF OpenReplaces
    <2> QED BY <1>2, <2>1, <2>2, QuietKeeps
  <1>5. CASE OpenClears(r)
    <2>1. QuietWork
      BY <1>5, RequestGoesOutside DEF OpenClears, Operation, Finalizing
    <2>2. QuietTables /\ QuietDisk
      BY <1>5, TablesUntouched, DirectoryGoes DEF OpenClears, tables
    <2> QED BY <1>2, <2>1, <2>2, QuietKeeps
  <1>6. CASE OpenInserts(r)
    <2>1. CASE transfer.token = 0
      <3>1. minted + 1 \in Tokens /\ minted \in Nat
        BY <1>0, <1>6, <2>1, TokensAreNaturals DEF OpenInserts, Tables
      <3>2. /\ minted' = minted + 1 /\ transfer' = [NoTransfer EXCEPT !.token = minted + 1]
            /\ received' = received
            /\ work' = [work EXCEPT ![r] = [Idle EXCEPT !.op = "mkdir", !.token = minted + 1]]
        BY <1>6, <2>1 DEF OpenInserts
      <3>3. PICK token \in Tokens \cup {0} : token = minted + 1
        BY <3>1
      <3>4. work' = [work EXCEPT ![r] = [Idle EXCEPT !.op = "mkdir", !.token = token]]
        BY <3>2, <3>3
      <3>5. "mkdir" \in Operation \ (Finalizing \cup {"stored"})
        BY DEF Operation, Finalizing
      <3>6. QuietWork
        BY <3>4, <3>5, RequestBegins
      <3>7. transfer' \in Session /\ transfer'.token = minted + 1 /\ transfer'.state = "open"
        BY <3>1, <3>2, IdleIsAnEntry DEF NoTransfer, Session
      <3>8. Tables'
        BY <1>0, <1>1, <3>1, <3>2, <3>7 DEF Tables
      <3>9. SessionsGoOn
        BY <3>1, <3>2, <3>7, TokensAreNaturals DEF SessionsGoOn
      <3>10. QuietTables /\ QuietDisk
        BY <1>1, <1>6, <3>7, <3>8, <3>9, DiskUntouched DEF QuietTables, OpenInserts
      <3> QED BY <1>2, <3>6, <3>10, QuietKeeps
    <2>2. CASE transfer.token # 0
      <3>1. /\ Done(r) /\ UNCHANGED disk
            /\ UNCHANGED <<transfer, received, minted, receiver>>
        BY <1>6, <2>2 DEF OpenInserts
      <3>2. QuietWork
        BY <3>1, RequestGoesOutside DEF Operation, Finalizing
      <3> QED BY <1>2, <3>1, <3>2, TablesUntouched, DiskUntouched, QuietKeeps
    <2> QED BY <2>1, <2>2
  <1>7. CASE OpenMakesDirectory(r)
    <2>1. QuietWork
      BY <1>7, RequestGoesOutside DEF OpenMakesDirectory, Operation, Finalizing
    <2>2. QuietTables
      BY <1>7, TablesUntouched DEF OpenMakesDirectory, tables
    <2>3. Disk /\ "right" \in Bodies
      BY Parted DEF Bodies
    <2>4. /\ UNCHANGED <<files, torn>>
          /\ files' \in [Files -> Content] /\ torn' \subseteq Files
      BY <1>7, <2>3 DEF OpenMakesDirectory, Disk
    <2>5. Disk' /\ \A t \in Tokens : Assembled(t)' \in {Assembled(t), NoFile}
      BY <1>7, <2>3, <2>4, DirectoriesOutside DEF OpenMakesDirectory
    <2> QED BY <1>2, <2>1, <2>2, <2>4, <2>5, QuietKeeps DEF QuietDisk
  <1> QED BY <1>3, <1>4, <1>5, <1>6, <1>7 DEF Open

-----------------------------------------------------------------------------
(* PUT .../chunks/{index}.                                                 *)

(* An entry that has no file and finalizes nothing, whatever else it holds.*)
LEMMA EntryOutside ==
    ASSUME TransferInv, NEW r \in Requests, NEW e \in Entry,
           e.op \notin Finalizing, e.file = NoFile, e.op # "stored",
           work' = [work EXCEPT ![r] = e]
    PROVE  QuietWork
  <1>1. Work
    BY Parted
  <1>2. Work' /\ work'[r] = e /\ \A q \in Requests \ {r} : work'[q] = work[q]
    BY <1>1, OneEntry
  <1> QED BY <1>2 DEF QuietWork, GoesOutside

LEMMA PutKeeps ==
    ASSUME TransferInv, NEW r \in Requests, PutChunk(r)
    PROVE  TransferInv'
  <1>0. Tables /\ Work /\ Disk
    BY Parted
  <1>1. /\ UNCHANGED <<operation, receiver, sweep>>
        /\ UNCHANGED <<transfer, minted>>
    BY DEF PutChunk, PutReads, PutPlaces, PutRecords, tables, disk
  <1>2. QuietRest
    BY <1>1, RestUntouched
  <1>3. CASE PutReads(r)
    <2>1. PICK t \in Tokens, k \in 1..Parts, b \in Bodies :
             work' = [work EXCEPT ![r] =
                       [Idle EXCEPT !.op = "place", !.token = t, !.part = k, !.body = b]]
      <3>1. PICK u \in Uploads :
              work' = [work EXCEPT ![r] = [Idle EXCEPT !.op = "place", !.token = u.token,
                                                       !.part = u.part, !.body = u.body]]
        BY <1>3, TransferAssumption DEF PutReads
      <3>2. u.token \in Tokens /\ u.part \in 1..Parts /\ u.body \in Bodies
        BY TransferAssumption
      <3> QED BY <3>1, <3>2
    <2> DEFINE e == [Idle EXCEPT !.op = "place", !.token = t, !.part = k, !.body = b]
    <2>2. /\ e \in Entry /\ e.op = "place" /\ e.file = NoFile
      <3>1. Blank \in Content /\ k \in 0..Parts /\ "place" \in Operation
        BY IdleIsAnEntry, TransferAssumption DEF Operation
      <3>2. PICK idle \in Entry : idle = Idle /\ idle.file = NoFile
        BY IdleIsAnEntry
      <3>3. e = [idle EXCEPT !.op = "place", !.token = t, !.part = k, !.body = b]
        BY <3>2
      <3> HIDE DEF e
      <3> QED BY <3>1, <3>2, <3>3 DEF Entry
    <2>3. e.op \notin Finalizing /\ e.op # "stored"
      BY <2>2 DEF Finalizing
    <2>4. work' = [work EXCEPT ![r] = e]
      BY <2>1, Zenon
    <2> HIDE DEF e
    <2>5. QuietWork
      BY <2>2, <2>3, <2>4, EntryOutside
    <2>6. UNCHANGED <<transfer, received, minted, receiver>> /\ UNCHANGED disk
      BY <1>3 DEF PutReads, tables
    <2> QED BY <1>2, <2>5, <2>6, TablesUntouched, DiskUntouched, QuietKeeps
  <1>4. CASE PutPlaces(r)
    <2>1. QuietWork
      BY <1>4, RequestGoesOutside DEF PutPlaces, Operation, Finalizing
    <2>2. QuietTables
      BY <1>4, TablesUntouched DEF PutPlaces, tables
    <2>3. work[r].body \in Bodies \cup {Absent}
      BY <1>0 DEF Work, Entry
    <2>4. PICK b \in Bodies \cup {Absent} : b = work[r].body
      BY <2>3
    <2>5. PICK t : t = work[r].token
      OBVIOUS
    <2>6. PICK k : k = work[r].part
      OBVIOUS
    <2>7. staging' = [staging EXCEPT ![t] = [Made(@) EXCEPT !.chunks[k] = b]]
      BY <1>4, <2>4, <2>5, <2>6 DEF PutPlaces
    <2>8. /\ UNCHANGED <<files, torn>>
          /\ files' \in [Files -> Content] /\ torn' \subseteq Files
      BY <1>0, <1>4 DEF PutPlaces, Disk
    <2>9. Disk' /\ \A u \in Tokens : Assembled(u)' \in {Assembled(u), NoFile}
      BY <1>0, <2>7, <2>8, DirectoriesOutside
    <2> QED BY <1>2, <2>1, <2>2, <2>8, <2>9, QuietKeeps DEF QuietDisk
  <1>5. CASE PutRecords(r)
    <2>1. QuietWork
      BY <1>5, RequestGoesOutside DEF PutRecords, Operation, Finalizing
    <2>2. /\ received' \in Content
          /\ \A k \in 1..Parts : received[k] # Absent => received'[k] = received[k]
      <3>1. received \in Content /\ work[r].body \in Bodies \cup {Absent}
        BY <1>0 DEF Tables, Work, Entry
      <3>2. \/ received' = received
            \/ /\ received' = [received EXCEPT ![work[r].part] = work[r].body]
               /\ received[work[r].part] = Absent
        BY <1>5 DEF PutRecords
      <3> QED BY <3>1, <3>2 DEF Content
    <2>3. transfer \in Session /\ (transfer.state = "finalized" => receiver)
      BY Parted DEF Tables, ReceiverHasIt, StoredMeansReceived
    <2>4. QuietTables
      BY <1>1, <2>2, <2>3, TablesStay
    <2>5. QuietDisk
      BY <1>5, DiskUntouched DEF PutRecords
    <2> QED BY <1>2, <2>1, <2>4, <2>5, QuietKeeps
  <1> QED BY <1>3, <1>4, <1>5 DEF PutChunk

-----------------------------------------------------------------------------
(* The end of a delivery, the answers, the reaper and the clock.           *)

(* A session that ends keeps its token and its clock.                      *)
LEMMA SessionMoves ==
    ASSUME TransferInv, NEW state \in {"open", "finalized", "failed"},
           state = "finalized" => receiver,
           \/ UNCHANGED transfer
           \/ transfer' = [transfer EXCEPT !.state = state]
           \/ transfer' = [transfer EXCEPT !.expired = TRUE],
           UNCHANGED <<received, minted, receiver>>
    PROVE  QuietTables
  <1>1. /\ transfer \in Session /\ received \in Content
        /\ transfer.state = "finalized" => receiver
    BY Parted DEF Tables, ReceiverHasIt, StoredMeansReceived
  <1>2. /\ transfer' \in Session /\ transfer'.token = transfer.token
        /\ transfer'.state \in {transfer.state, state}
    BY <1>1 DEF Session
  <1> QED BY <1>1, <1>2, TablesStay

LEMMA EndDeliveryKeeps ==
    ASSUME TransferInv, NEW r \in Requests, EndDelivery(r)
    PROVE  TransferInv'
  <1>1. CASE EndsRow(r)
    <2>1. QuietWork
      BY <1>1, RequestGoesOutside DEF EndsRow, Operation, Finalizing
    <2>2. UNCHANGED transfer \/ transfer' = [transfer EXCEPT !.state = "failed"]
      BY <1>1 DEF EndsRow, FailSession
    <2>3. QuietTables
      BY <1>1, <2>2, SessionMoves DEF EndsRow
    <2>4. QuietDisk /\ QuietRest
      BY <1>1, DiskUntouched, RestUntouched DEF EndsRow
    <2> QED BY <2>1, <2>3, <2>4, QuietKeeps
  <1>2. CASE EndsOperation(r)
    <2>1. QuietWork
      BY <1>2, RequestGoesOutside DEF EndsOperation, Operation, Finalizing
    <2>2. QuietTables /\ QuietDisk /\ QuietRest
      BY <1>2, TablesUntouched, DiskUntouched, RestUntouched DEF EndsOperation
    <2> QED BY <2>1, <2>2, QuietKeeps
  <1>3. CASE EndsFiles(r)
    <2>1. QuietWork
      BY <1>3, RequestGoesOutside DEF EndsFiles, Operation, Finalizing
    <2>2. QuietTables /\ QuietDisk /\ QuietRest
      BY <1>3, TablesUntouched, DirectoryGoes, RestUntouched DEF EndsFiles, tables
    <2> QED BY <2>1, <2>2, QuietKeeps
  <1> QED BY <1>1, <1>2, <1>3 DEF EndDelivery

LEMMA AnswersKeep ==
    ASSUME TransferInv, NEW r \in Requests,
           FinalizeStores(r) \/ FinalizeTidies(r) \/ Abandon(r)
    PROVE  TransferInv'
  <1>1. CASE FinalizeStores(r)
    <2>1. receiver
      BY <1>1, Parted DEF FinalizeStores, ReceiverHasIt
    <2>2. QuietWork
      BY <1>1, RequestGoesOutside DEF FinalizeStores, Operation, Finalizing
    <2>3. QuietTables
      BY <1>1, <2>1, SessionMoves DEF FinalizeStores
    <2>4. QuietDisk /\ QuietRest
      BY <1>1, DiskUntouched, RestUntouched DEF FinalizeStores
    <2> QED BY <2>2, <2>3, <2>4, QuietKeeps
  <1>2. CASE FinalizeTidies(r)
    <2>1. QuietWork
      BY <1>2, RequestGoesOutside DEF FinalizeTidies, Operation, Finalizing
    <2>2. QuietTables /\ QuietDisk /\ QuietRest
      BY <1>2, TablesUntouched, DirectoryGoes, RestUntouched DEF FinalizeTidies, tables
    <2> QED BY <2>1, <2>2, QuietKeeps
  <1>3. CASE Abandon(r)
    <2>1. QuietWork
      BY <1>3, RequestGoesOutside DEF Abandon, Operation, Finalizing
    <2>2. QuietTables /\ QuietDisk /\ QuietRest
      BY <1>3, TablesUntouched, DirectoryGoes, RestUntouched DEF Abandon, tables
    <2> QED BY <2>1, <2>2, QuietKeeps
  <1> QED BY <1>1, <1>2, <1>3

LEMMA SweepKeeps ==
    ASSUME TransferInv, SweepStep \/ SweepPasses \/ SweepFails
    PROVE  TransferInv'
  <1>0. Rest /\ MaxFaults \in Nat
    BY Parted, TransferAssumption
  <1>1. UNCHANGED <<operation, minted, receiver, work>>
    BY DEF SweepStep, SweepSelects, SweepRemoves, SweepDeletesRow, SweepScans, Scan,
           SweepAsksOwners, SweepRemovesOrphan, SweepRests, SweepPasses, SweepFails, tables, disk
  <1>2. \A phase \in {"rest", "sessions", "row", "scanned", "orphans"}, todo \in SUBSET Tokens :
          Sweeps(phase, todo) =>
            sweep' \in [phase: {"rest", "sessions", "row", "scanned", "orphans"},
                       todo: SUBSET Tokens, faults: 0..MaxFaults]
    BY <1>0 DEF Rest, Sweeps
  <1>3. sweep' \in [phase: {"rest", "sessions", "row", "scanned", "orphans"},
                    todo: SUBSET Tokens, faults: 0..MaxFaults]
    <2>1. CASE SweepSelects \/ SweepDeletesRow \/ SweepScans \/ SweepAsksOwners \/ SweepRests
      <3>1. sweep.todo \in SUBSET Tokens
        BY <1>0 DEF Rest
      <3> QED BY <1>2, <2>1, <3>1 DEF SweepSelects, SweepDeletesRow, SweepScans, Scan, There,
                                      SweepAsksOwners, SweepRests
    <2>2. CASE SweepRemoves
      BY <1>0, <2>2 DEF Rest, SweepRemoves
    <2>3. CASE SweepRemovesOrphan
      BY <1>0, <2>3 DEF Rest, SweepRemovesOrphan
    <2>4. sweep.faults < MaxFaults => sweep.faults + 1 \in 0..MaxFaults
      BY <1>0 DEF Rest
    <2>5. CASE SweepPasses
      BY <1>0, <2>4, <2>5 DEF Rest, SweepPasses
    <2>6. CASE SweepFails
      BY <1>0, <2>4, <2>6 DEF Rest, SweepFails
    <2> QED BY <2>1, <2>2, <2>3, <2>5, <2>6 DEF SweepStep
  <1>4. QuietRest
    BY <1>0, <1>1, <1>3 DEF Rest, QuietRest
  <1>5. QuietWork
    BY <1>1, WorkUntouched
  <1>6. QuietTables
    <2>1. \/ UNCHANGED <<transfer, received>>
          \/ transfer' = NoTransfer /\ received' = Blank
      BY DEF SweepStep, SweepSelects, SweepRemoves, SweepDeletesRow, SweepScans, Scan,
             SweepAsksOwners, SweepRemovesOrphan, SweepRests, SweepPasses, SweepFails, tables
    <2> QED BY <1>1, <2>1, TablesUntouched, SessionGoes
  <1>7. QuietDisk
    <2>1. UNCHANGED disk \/ (Forgets /\ \E t \in Tokens : Remove(t))
      BY <1>0 DEF SweepStep, SweepSelects, SweepRemoves, SweepDeletesRow, SweepScans, Scan,
             SweepAsksOwners, SweepRemovesOrphan, SweepRests, SweepPasses, SweepFails, disk, Rest
    <2> QED BY <2>1, DiskUntouched, DirectoryGoes
  <1> QED BY <1>4, <1>5, <1>6, <1>7, QuietKeeps

LEMMA OthersKeep ==
    ASSUME TransferInv, Prepare \/ OperationEnds \/ TransferExpires \/ UNCHANGED vars
    PROVE  TransferInv'
  <1>1. QuietWork /\ QuietDisk
    BY WorkUntouched, DiskUntouched DEF Prepare, OperationEnds, TransferExpires, vars, disk
  <1>2. QuietRest
    BY RestUntouched DEF Prepare, OperationEnds, TransferExpires, vars
  <1>3. QuietTables
    <2>1. CASE TransferExpires
      BY <2>1, SessionMoves DEF TransferExpires
    <2>2. CASE ~TransferExpires
      BY <2>2, TablesUntouched DEF Prepare, OperationEnds, vars
    <2> QED BY <2>1, <2>2
  <1> QED BY <1>1, <1>2, <1>3, QuietKeeps

-----------------------------------------------------------------------------
(* POST .../finalize.                                                      *)

LEMMA FinalizeReadsKeeps ==
    ASSUME TransferInv, NEW r \in Requests, FinalizeReads(r)
    PROVE  TransferInv'
  <1>0. /\ Tables /\ Disk /\ Work /\ Rest /\ RowsAgree /\ FilesApart /\ ContentsAgree
        /\ RightSoFar /\ ReceiverHasIt /\ HolesAreTorn
    BY Parted
  <1>1. PICK t \in Tokens :
          /\ transfer.token = t /\ \A k \in 1..Parts : received[k] # Absent
          /\ work' = [work EXCEPT ![r] =
                        [Idle EXCEPT !.op = "create", !.token = t, !.rows = received]]
    BY DEF FinalizeReads, Uploading, Bound
  <1> DEFINE e == [Idle EXCEPT !.op = "create", !.token = t, !.rows = received]
  <1>2. /\ e \in Entry /\ e.op = "create" /\ e.token = t /\ e.rows = received
        /\ e.file = NoFile
    <2>1. PICK idle \in Entry : idle = Idle /\ idle.file = NoFile
      BY IdleIsAnEntry
    <2>2. e = [idle EXCEPT !.op = "create", !.token = t, !.rows = received]
      BY <2>1
    <2>3. received \in Content /\ "create" \in Operation
      BY <1>0 DEF Tables, Operation
    <2> HIDE DEF e
    <2> QED BY <2>1, <2>2, <2>3 DEF Entry
  <1>3. work' = [work EXCEPT ![r] = e]
    BY <1>1, Zenon
  <1> HIDE DEF e
  <1>4. Work' /\ work'[r] = e /\ \A q \in Requests \ {r} : work'[q] = work[q]
    BY <1>0, <1>2, <1>3, OneEntry
  <1>5. UNCHANGED <<operation, transfer, received, minted, staging, files, torn, receiver, sweep>>
    BY DEF FinalizeReads, tables, disk
  <1>6. TypeOK'
    BY <1>0, <1>4, <1>5, PartsMakeTheType DEF Tables, Disk, Rest
  <1>7. RowsAgree'
    BY <1>0, <1>1, <1>2, <1>4, <1>5 DEF RowsAgree, Finalizing
  <1>8. FilesApart'
    BY <1>0, <1>2, <1>4, <1>5 DEF FilesApart, Assembled
  <1>9. ContentsAgree'
    <2>1. \A q \in Requests, k \in 1..Parts :
            work'[q].op \in Finalizing /\ work'[q].file # NoFile /\ files'[work'[q].file][k] # Absent =>
              files'[work'[q].file][k] = work'[q].rows[k]
      BY <1>0, <1>2, <1>4, <1>5 DEF ContentsAgree
    <2>2. \A u \in Tokens, q \in Requests, k \in 1..Parts :
            (/\ work'[q].op \in Finalizing /\ work'[q].token = u
             /\ Assembled(u)' # NoFile /\ files'[Assembled(u)'][k] # Absent)
              => files'[Assembled(u)'][k] = work'[q].rows[k]
      BY <1>0, <1>1, <1>2, <1>4, <1>5 DEF ContentsAgree, Assembled
    <2>3. \A u \in Tokens, k \in 1..Parts :
            transfer'.token = u /\ Assembled(u)' # NoFile /\ files'[Assembled(u)'][k] # Absent =>
              files'[Assembled(u)'][k] = received'[k]
      BY <1>0, <1>5 DEF ContentsAgree, Assembled
    <2> QED BY <2>1, <2>2, <2>3 DEF ContentsAgree
  <1>10. RightSoFar' /\ ReceiverHasIt' /\ HolesAreTorn'
    BY <1>0, <1>2, <1>4, <1>5
       DEF RightSoFar, ReceiverHasIt, StoredMeansReceived, HolesAreTorn
  <1> QED BY <1>6, <1>7, <1>8, <1>9, <1>10 DEF TransferInv

(* The file that is truncated is of no other token.                        *)
LEMMA FinalizeCreatesKeeps ==
    ASSUME TransferInv, NEW r \in Requests, FinalizeCreates(r)
    PROVE  TransferInv'
  <1>0. /\ Tables /\ Disk /\ Work /\ Rest /\ RowsAgree /\ FilesApart /\ ContentsAgree
        /\ RightSoFar /\ ReceiverHasIt /\ HolesAreTorn
    BY Parted
  <1>1. /\ work[r].op = "create" /\ work[r].file = NoFile
        /\ UNCHANGED <<operation, transfer, received, minted, receiver, sweep>>
    BY <1>0 DEF FinalizeCreates, FilesApart, tables
  <1>2. QuietRest /\ QuietTables
    BY <1>1, RestUntouched, TablesUntouched
  <1>3. work[r].token \in Tokens /\ work[r].token <= minted
    BY <1>0, <1>1 DEF RowsAgree, Finalizing
  <1>4. PICK t \in Tokens : t = work[r].token
    BY <1>3
  <1>5. CASE ~staging[t].there
    <2>1. Done(r) /\ UNCHANGED disk
      BY <1>4, <1>5 DEF FinalizeCreates, disk
    <2>2. QuietWork
      BY <2>1, RequestGoesOutside DEF Operation, Finalizing
    <2> QED BY <1>2, <2>1, <2>2, DiskUntouched, QuietKeeps
  <1>6. CASE staging[t].there
    <2>1. PICK f : f = IF staging[t].assembling # NoFile THEN staging[t].assembling ELSE FreeFile
      OBVIOUS
    <2>2. /\ staging' = [staging EXCEPT ![t] = [Made(@) EXCEPT !.assembling = f]]
          /\ files' = [files EXCEPT ![f] = Blank]
          /\ torn' = IF \E q \in Requests : Halfway(q, f) THEN torn \cup {f} ELSE torn \ {f}
          /\ work' = [work EXCEPT ![r].op = "copy", ![r].part = 1, ![r].file = f]
      BY <1>4, <1>6, <2>1 DEF FinalizeCreates
    <2>3. /\ f \in Files /\ f # NoFile
          /\ \A u \in Tokens : Assembled(u) = f => u = t
          /\ \A q \in Requests : work[q].file = f => work[q].token = t
      <3>1. CASE Assembled(t) # NoFile
        <4>1. Assembled(t) \in Files \cup {NoFile}
          BY <1>0 DEF Disk, Directory, Assembled
        <4> QED BY <1>0, <2>1, <3>1, <4>1 DEF FilesApart, Assembled
      <3>2. CASE Assembled(t) = NoFile
        <4>1. f \in Files /\ ~InUse(f)
          BY <1>0, <1>1, <2>1, <3>2, FreeFileIsFree DEF Assembled
        <4>2. \A g \in Files : g # NoFile
          BY DEF Files, NoFile
        <4> QED BY <4>1, <4>2 DEF InUse, Assembled
      <3> QED BY <3>1, <3>2
    <2>4. /\ \A u \in Tokens : Assembled(u)' = IF u = t THEN f ELSE Assembled(u)
          /\ staging' \in [Tokens -> Directory]
      <3>1. \A d \in Directory : /\ [Made(d) EXCEPT !.assembling = f] \in Directory
                                 /\ [Made(d) EXCEPT !.assembling = f].assembling = f
        BY <2>3 DEF Made, Directory
      <3> QED BY <1>0, <2>2, <3>1 DEF Disk, Assembled
    <2>5. /\ files' \in [Files -> Content] /\ files'[f] = Blank
          /\ \A g \in Files : g # f => files'[g] = files[g]
          /\ torn' \subseteq Files /\ torn \ {f} = torn' \ {f}
          /\ f \notin torn' => \A q \in Requests : ~Halfway(q, f)
      BY <1>0, <2>2, <2>3, IdleIsAnEntry DEF Disk
    <2>6. /\ Work' /\ work'[r].op = "copy" /\ work'[r].part = 1 /\ work'[r].file = f
          /\ work'[r].token = t /\ work'[r].rows = work[r].rows
          /\ \A q \in Requests \ {r} : work'[q] = work[q]
      <3> DEFINE e == [work[r] EXCEPT !.op = "copy", !.part = 1, !.file = f]
      <3>1. work[r] \in Entry /\ 1 \in 0..Parts
        BY <1>0, TransferAssumption DEF Work
      <3>2. /\ e \in Entry /\ e.op = "copy" /\ e.part = 1 /\ e.file = f
            /\ e.token = work[r].token /\ e.rows = work[r].rows
        BY <2>3, <3>1 DEF Entry, Operation
      <3>3. work' = [work EXCEPT ![r] = e]
        BY <1>0, <2>2 DEF Work
      <3> HIDE DEF e
      <3> QED BY <1>0, <1>4, <3>2, <3>3, OneEntry
    <2>7. TypeOK'
      BY <1>2, <2>4, <2>5, <2>6, PartsMakeTheType DEF QuietTables, QuietRest, Disk
    <2>8. RowsAgree'
      BY <1>0, <1>1, <1>4, <2>6 DEF RowsAgree, Finalizing
    <2>9. FilesApart'
      <3>1. /\ \A q \in Requests : work'[q].op = "create" => work'[q].file = NoFile
            /\ \A q \in Requests : work'[q].op \in {"copy", "verify", "send"} => work'[q].file # NoFile
        BY <1>0, <2>3, <2>6 DEF FilesApart
      <3>2. /\ \A u \in Tokens : Assembled(u)' # NoFile => u <= minted'
            /\ \A u, v \in Tokens : Assembled(u)' = Assembled(v)' /\ Assembled(u)' # NoFile => u = v
        BY <1>0, <1>1, <1>3, <1>4, <2>3, <2>4 DEF FilesApart
      <3>3. \A u \in Tokens, q \in Requests :
              Assembled(u)' = work'[q].file /\ Assembled(u)' # NoFile => work'[q].token = u
        BY <1>0, <1>4, <2>3, <2>4, <2>6 DEF FilesApart
      <3>4. \A p, q \in Requests :
              work'[p].file = work'[q].file /\ work'[p].file # NoFile => work'[p].token = work'[q].token
        BY <1>0, <1>4, <2>3, <2>6 DEF FilesApart
      <3> QED BY <3>1, <3>2, <3>3, <3>4 DEF FilesApart
    <2>10. ContentsAgree'
      <3>1. \A k \in 1..Parts : files'[f][k] = Absent
        BY <2>5 DEF Blank
      <3>2. /\ \A q \in Requests : work[q].file \in Files \cup {NoFile}
            /\ \A u \in Tokens : Assembled(u) \in Files \cup {NoFile}
        BY <1>0 DEF Work, Entry, Disk, Directory, Assembled
      <3>3. \A q \in Requests, k \in 1..Parts :
              work'[q].op \in Finalizing /\ work'[q].file # NoFile /\ files'[work'[q].file][k] # Absent =>
                files'[work'[q].file][k] = work'[q].rows[k]
        BY <1>0, <2>5, <2>6, <3>1, <3>2 DEF ContentsAgree
      <3>4. \A u \in Tokens, q \in Requests, k \in 1..Parts :
              (/\ work'[q].op \in Finalizing /\ work'[q].token = u
               /\ Assembled(u)' # NoFile /\ files'[Assembled(u)'][k] # Absent)
                => files'[Assembled(u)'][k] = work'[q].rows[k]
        BY <1>0, <1>1, <1>4, <2>4, <2>5, <2>6, <3>1, <3>2 DEF ContentsAgree, Finalizing
      <3>5. \A u \in Tokens, k \in 1..Parts :
              transfer'.token = u /\ Assembled(u)' # NoFile /\ files'[Assembled(u)'][k] # Absent =>
                files'[Assembled(u)'][k] = received'[k]
        BY <1>0, <1>1, <2>4, <2>5, <3>1, <3>2 DEF ContentsAgree
      <3> QED BY <3>3, <3>4, <3>5 DEF ContentsAgree
    <2>11. RightSoFar'
      <3>1. 1 \in 1..Parts /\ \A k \in 1..Parts : ~(k < 1)
        BY TransferAssumption
      <3> QED BY <1>0, <2>6, <3>1 DEF RightSoFar
    <2>12. ReceiverHasIt'
      BY <1>0, <1>1, <2>6 DEF ReceiverHasIt, StoredMeansReceived
    <2>13. HolesAreTorn'
      <3>1. \A k \in 1..Parts : files'[f][k] = Absent
        BY <2>5 DEF Blank
      <3>2. \A g \in Files, j, k \in 1..Parts :
              g \notin torn' /\ j < k /\ files'[g][k] # Absent => files'[g][j] # Absent
        BY <1>0, <2>5, <3>1 DEF HolesAreTorn
      <3>3. ASSUME NEW q \in Requests, NEW j \in 1..Parts,
                   work'[q].op = "copy", work'[q].file \notin torn', j < work'[q].part
            PROVE  files'[work'[q].file][j] # Absent
        <4>1. q # r /\ work'[q] = work[q]
          <5>1. ~(j < 1)
            OBVIOUS
          <5> QED BY <2>6, <3>3, <5>1
        <4>2. work[q].part \in Nat /\ work[q].file \in Files
          BY <1>0, <3>3, <4>1, TransferAssumption DEF Work, Entry, FilesApart
        <4>3. work[q].file # f
          <5>1. work[q].part > 1
            BY <3>3, <4>1, <4>2
          <5> QED BY <2>5, <3>3, <4>1, <5>1 DEF Halfway
        <4>4. work[q].file \notin torn /\ files'[work[q].file] = files[work[q].file]
          BY <2>5, <3>3, <4>1, <4>2, <4>3
        <4> QED BY <1>0, <3>3, <4>1, <4>4 DEF HolesAreTorn
      <3> QED BY <3>2, <3>3 DEF HolesAreTorn
    <2> QED BY <2>13, <2>7, <2>8, <2>9, <2>10, <2>11, <2>12 DEF TransferInv
  <1> QED BY <1>5, <1>6

(* Every finalization that may write a file writes the same rows to it.    *)
LEMMA FinalizeCopiesKeeps ==
    ASSUME TransferInv, NEW r \in Requests, FinalizeCopies(r)
    PROVE  TransferInv'
  <1>0. /\ Tables /\ Disk /\ Work /\ Rest /\ RowsAgree /\ FilesApart /\ ContentsAgree
        /\ RightSoFar /\ ReceiverHasIt /\ HolesAreTorn
    BY Parted
  <1>1. /\ work[r].op = "copy"
        /\ UNCHANGED <<operation, transfer, received, minted, staging, receiver, sweep>>
    BY DEF FinalizeCopies, tables
  <1>2. QuietRest /\ QuietTables
    BY <1>1, RestUntouched, TablesUntouched
  <1>3. PICK k \in 1..Parts : k = work[r].part
    BY <1>0, <1>1 DEF RightSoFar
  <1>4. PICK chunk : chunk = staging[work[r].token].chunks[k]
    OBVIOUS
  <1>5. CASE Done(r) /\ Forgets
    <2>1. QuietWork
      BY <1>5, RequestGoesOutside DEF Operation, Finalizing
    <2>2. QuietDisk
      BY <1>1, <1>5, DirectoryGoes
    <2> QED BY <1>2, <2>1, <2>2, QuietKeeps
  <1>6. CASE ~(Done(r) /\ Forgets)
    <2>1. /\ chunk # Absent /\ chunk = work[r].rows[k]
          /\ files' = [files EXCEPT ![work[r].file][k] = chunk] /\ UNCHANGED torn
          /\ work' = [work EXCEPT ![r].right = @ /\ chunk = "right",
                                  ![r].part = IF k = Parts THEN 0 ELSE k + 1,
                                  ![r].op = IF k = Parts THEN "verify" ELSE "copy"]
      BY <1>3, <1>4, <1>6 DEF FinalizeCopies, AsRecorded
    <2>2. PICK g \in Files : g = work[r].file /\ g # NoFile
      <3>1. work[r].file # NoFile
        BY <1>0, <1>1 DEF FilesApart
      <3>2. work[r].file \in Files \cup {NoFile}
        BY <1>0 DEF Work, Entry
      <3> QED BY <3>1, <3>2
    <2>3. chunk \in Bodies \cup {Absent}
      BY <1>0, <2>1 DEF Work, Entry, Content
    <2>4. /\ files' \in [Files -> Content]
          /\ \A f \in Files : f # g => files'[f] = files[f]
          /\ \A i \in 1..Parts : files'[g][i] = IF i = k THEN chunk ELSE files[g][i]
      <3>1. files[g] \in Content /\ files \in [Files -> Content]
        BY <1>0 DEF Disk
      <3>2. PICK c \in Content : c = [files[g] EXCEPT ![k] = chunk]
        BY <2>3, <3>1 DEF Content
      <3>3. files' = [files EXCEPT ![g] = c]
        BY <2>1, <2>2, <3>2
      <3>4. \A i \in 1..Parts : c[i] = IF i = k THEN chunk ELSE files[g][i]
        BY <3>1, <3>2 DEF Content
      <3> QED BY <3>1, <3>3, <3>4
    <2>5. /\ work'[r].op = (IF k = Parts THEN "verify" ELSE "copy")
          /\ work'[r].part = (IF k = Parts THEN 0 ELSE k + 1)
          /\ work'[r].file = g /\ work'[r].token = work[r].token
          /\ work'[r].rows = work[r].rows
          /\ \A q \in Requests \ {r} : work'[q] = work[q]
      BY <1>0, <2>1, <2>2 DEF Work, Entry
    <2>6. work'[r].right <=> (work[r].right /\ chunk = "right")
      BY <1>0, <2>1, Zenon DEF Work, Entry
    <2>7. Work'
      <3>1. PICK part \in 0..Parts : part = (IF k = Parts THEN 0 ELSE k + 1)
        <4>1. k \in 1..Parts /\ Parts \in Nat
          BY <1>0, <1>1, TransferAssumption DEF RightSoFar
        <4> QED BY <4>1
      <3>2. PICK op \in Operation : op = (IF k = Parts THEN "verify" ELSE "copy")
        BY DEF Operation
      <3>3. PICK right \in BOOLEAN : right = (work[r].right /\ chunk = "right")
        OBVIOUS
      <3> DEFINE e == [work[r] EXCEPT !.right = right, !.part = part, !.op = op]
      <3>4. work[r] \in Entry
        BY <1>0 DEF Work
      <3>5. e \in Entry
        BY <3>4 DEF Entry
      <3>6. work' = [work EXCEPT ![r] = e]
        BY <1>0, <2>1, <3>1, <3>2, <3>3, Zenon
      <3> HIDE DEF e
      <3> QED BY <1>0, <3>5, <3>6, OneEntry
    <2>8. TypeOK'
      <3>1. Disk'
        BY <1>0, <1>1, <2>1, <2>4 DEF Disk
      <3> QED BY <1>2, <2>7, <3>1, PartsMakeTheType DEF QuietTables, QuietRest
    <2>9. \A q \in Requests : /\ work'[q].op \in Finalizing <=> work[q].op \in Finalizing
                             /\ work'[q].rows = work[q].rows /\ work'[q].token = work[q].token
                             /\ work'[q].file = work[q].file
      BY <1>1, <2>2, <2>5 DEF Finalizing
    <2>10. RowsAgree'
      BY <1>0, <1>1, <2>9 DEF RowsAgree
    <2>11. FilesApart'
      <3>1. /\ \A t \in Tokens : Assembled(t)' = Assembled(t)
            /\ \A q \in Requests : work'[q].op = "create" => work[q].op = "create"
            /\ \A q \in Requests : work'[q].op \in {"copy", "verify", "send"} =>
                                      work[q].op \in {"copy", "verify", "send"}
        BY <1>1, <2>5 DEF Assembled
      <3> QED BY <1>0, <1>1, <2>9, <3>1 DEF FilesApart
    <2>12. ContentsAgree'
      <3>1. /\ \A q \in Requests : work[q].file \in Files \cup {NoFile}
            /\ \A u \in Tokens : /\ Assembled(u) \in Files \cup {NoFile}
                                 /\ Assembled(u)' = Assembled(u)
        BY <1>0, <1>1 DEF Work, Entry, Disk, Directory, Assembled
      <3>2. \A q \in Requests :
              work[q].op \in Finalizing /\ work[q].token = work[r].token => work[q].rows[k] = chunk
        BY <1>0, <1>1, <2>1 DEF RowsAgree, Finalizing
      <3>3. transfer.token = work[r].token => received[k] = chunk
        BY <1>0, <1>1, <2>1 DEF RowsAgree, Finalizing
      <3>4. /\ \A q \in Requests : work[q].file = g => work[q].token = work[r].token
            /\ \A u \in Tokens : Assembled(u) = g => work[r].token = u
        BY <1>0, <2>2 DEF FilesApart
      <3>5. \A q \in Requests, i \in 1..Parts :
              work'[q].op \in Finalizing /\ work'[q].file # NoFile /\ files'[work'[q].file][i] # Absent =>
                files'[work'[q].file][i] = work'[q].rows[i]
        BY <1>0, <2>4, <2>9, <3>1, <3>2, <3>4 DEF ContentsAgree
      <3>6. \A u \in Tokens, q \in Requests, i \in 1..Parts :
              (/\ work'[q].op \in Finalizing /\ work'[q].token = u
               /\ Assembled(u)' # NoFile /\ files'[Assembled(u)'][i] # Absent)
                => files'[Assembled(u)'][i] = work'[q].rows[i]
        BY <1>0, <2>4, <2>9, <3>1, <3>2, <3>4 DEF ContentsAgree
      <3>7. \A u \in Tokens, i \in 1..Parts :
              transfer'.token = u /\ Assembled(u)' # NoFile /\ files'[Assembled(u)'][i] # Absent =>
                files'[Assembled(u)'][i] = received'[i]
        BY <1>0, <1>1, <2>4, <3>1, <3>3, <3>4 DEF ContentsAgree
      <3> QED BY <3>5, <3>6, <3>7 DEF ContentsAgree
    <2>13. RightSoFar'
      <3>1. work'[r].right => \A i \in 1..Parts : i <= k => work[r].rows[i] = "right"
        <4>1. \A i \in 1..Parts : i <= k => i < k \/ i = k
          OBVIOUS
        <4> QED BY <1>0, <1>1, <1>3, <2>1, <2>6, <4>1 DEF RightSoFar
      <3>2. /\ Parts \in Nat
            /\ k # Parts => k + 1 \in 1..Parts /\ \A i \in 1..Parts : i < k + 1 => i <= k
            /\ k = Parts => \A i \in 1..Parts : i <= k
        BY TransferAssumption
      <3>3. /\ work'[r].op = "copy" => work'[r].part \in 1..Parts
            /\ work'[r].op = "copy" /\ work'[r].right =>
                 \A i \in 1..Parts : i < work'[r].part => work'[r].rows[i] = "right"
            /\ work'[r].op = "verify" /\ work'[r].right =>
                 \A i \in 1..Parts : work'[r].rows[i] = "right"
            /\ work'[r].op # "send"
        BY <2>5, <3>1, <3>2
      <3> QED BY <1>0, <2>5, <3>3 DEF RightSoFar
    <2>14. ReceiverHasIt'
      BY <1>0, <1>1, <2>5 DEF ReceiverHasIt, StoredMeansReceived
    <2>15. HolesAreTorn'
      <3>0. torn' = torn
        BY <2>1
      <3>1. g \notin torn => \A j \in 1..Parts : j < k => files[g][j] # Absent
        BY <1>0, <1>1, <1>3, <2>2 DEF HolesAreTorn
      <3>2. \A f \in Files, j \in 1..Parts : files[f][j] # Absent => files'[f][j] # Absent
        BY <2>1, <2>4
      <3>3. \A f \in Files, j, i \in 1..Parts :
              f \notin torn' /\ j < i /\ files'[f][i] # Absent => files'[f][j] # Absent
        <4>1. ASSUME NEW f \in Files, NEW j \in 1..Parts, NEW i \in 1..Parts,
                     f \notin torn', j < i, files'[f][i] # Absent
              PROVE  files'[f][j] # Absent
          <5>1. f \notin torn
            BY <2>1, <4>1
          <5>2. CASE f = g /\ i = k
            BY <3>1, <3>2, <4>1, <5>1, <5>2
          <5>3. CASE ~(f = g /\ i = k)
            <6>1. files[f][i] # Absent
              BY <2>4, <4>1, <5>3
            <6>2. files[f][j] # Absent
              BY <1>0, <4>1, <5>1, <6>1 DEF HolesAreTorn
            <6> QED BY <3>2, <6>2
          <5> QED BY <5>2, <5>3
        <4> QED BY <4>1
      <3>4. ASSUME NEW q \in Requests, NEW j \in 1..Parts,
                   work'[q].op = "copy", work'[q].file \notin torn', j < work'[q].part
            PROVE  files'[work'[q].file][j] # Absent
        <4>1. CASE q = r
          <5>1. k # Parts /\ j < k + 1 /\ g \notin torn /\ work'[q].file = g
            BY <2>5, <3>0, <3>4, <4>1
          <5>2. j < k \/ j = k
            BY <5>1
          <5>3. CASE j = k
            BY <2>1, <2>4, <5>1, <5>3
          <5>4. CASE j < k
            BY <3>1, <3>2, <5>1, <5>4
          <5> QED BY <5>2, <5>3, <5>4
        <4>2. CASE q # r
          <5>1. work'[q] = work[q] /\ work[q].file \notin torn
            BY <2>5, <3>0, <3>4, <4>2
          <5>2. work[q].file \in Files
            BY <1>0, <3>4, <5>1 DEF Work, Entry, FilesApart
          <5>3. files[work[q].file][j] # Absent
            BY <1>0, <3>4, <5>1 DEF HolesAreTorn
          <5> QED BY <3>2, <5>1, <5>2, <5>3
        <4> QED BY <4>1, <4>2
      <3> QED BY <3>3, <3>4 DEF HolesAreTorn
    <2> QED BY <2>15, <2>8, <2>10, <2>11, <2>12, <2>13, <2>14 DEF TransferInv
  <1> QED BY <1>5, <1>6

(* Whichever file the name leads to by now, it is of this token.           *)
LEMMA FinalizeVerifiesKeeps ==
    ASSUME TransferInv, NEW r \in Requests, FinalizeVerifies(r)
    PROVE  TransferInv'
  <1>0. /\ Tables /\ Disk /\ Work /\ Rest /\ RowsAgree /\ FilesApart /\ ContentsAgree
        /\ RightSoFar /\ ReceiverHasIt /\ HolesAreTorn
    BY Parted
  <1>1. /\ work[r].op = "verify"
        /\ UNCHANGED <<operation, received, minted, receiver, sweep>> /\ Forgets
    BY DEF FinalizeVerifies
  <1>2. work[r].token \in Tokens
    BY <1>0, <1>1 DEF RowsAgree, Finalizing
  <1>3. PICK t \in Tokens : t = work[r].token
    BY <1>2
  <1>4. staging' = [staging EXCEPT ![t].assembling = NoFile]
    BY <1>3 DEF FinalizeVerifies
  <1>5. /\ staging' \in [Tokens -> Directory]
        /\ \A u \in Tokens : Assembled(u)' = IF u = t THEN NoFile ELSE Assembled(u)
    <2>1. \A d \in Directory : /\ [d EXCEPT !.assembling = NoFile] \in Directory
                               /\ [d EXCEPT !.assembling = NoFile].assembling = NoFile
      BY DEF Directory
    <2>2. staging' = [staging EXCEPT ![t] = [staging[t] EXCEPT !.assembling = NoFile]]
      BY <1>0, <1>4 DEF Disk
    <2> QED BY <1>0, <2>1, <2>2 DEF Disk, Assembled
  <1>6. QuietDisk
    BY <1>0, <1>1, <1>5, FilesForgotten DEF QuietDisk, Disk
  <1>7. QuietRest
    BY <1>1, RestUntouched
  <1>8. QuietTables
    <2>1. UNCHANGED transfer \/ transfer' = [transfer EXCEPT !.state = "failed"]
      BY DEF FinalizeVerifies, FailSession
    <2> QED BY <1>1, <2>1, SessionMoves
  <1>9. CASE Done(r)
    <2>1. QuietWork
      BY <1>9, RequestGoesOutside DEF Operation, Finalizing
    <2> QED BY <1>6, <1>7, <1>8, <2>1, QuietKeeps
  <1>10. CASE ~Done(r)
    <2>1. PICK f \in Files : f = Assembled(t) /\ f # NoFile
      <3>1. Assembled(t) # NoFile
        BY <1>3, <1>10 DEF FinalizeVerifies, Assembled
      <3>2. Assembled(t) \in Files \cup {NoFile}
        BY <1>0 DEF Disk, Directory, Assembled
      <3> QED BY <3>1, <3>2
    <2>2. /\ work[r].right /\ UNCHANGED transfer
          /\ work' = [work EXCEPT ![r].op = "send", ![r].file = f]
      BY <1>3, <1>10, <2>1 DEF FinalizeVerifies, DigestMatches, Assembled
    <2>3. /\ Work' /\ work'[r].op = "send" /\ work'[r].file = f
          /\ work'[r].token = t /\ work'[r].rows = work[r].rows
          /\ \A q \in Requests \ {r} : work'[q] = work[q]
      <3> DEFINE e == [work[r] EXCEPT !.op = "send", !.file = f]
      <3>1. work[r] \in Entry
        BY <1>0 DEF Work
      <3>2. /\ e \in Entry /\ e.op = "send" /\ e.file = f
            /\ e.token = work[r].token /\ e.rows = work[r].rows
        BY <2>1, <3>1 DEF Entry, Operation
      <3>3. work' = [work EXCEPT ![r] = e]
        BY <1>0, <2>2 DEF Work
      <3> HIDE DEF e
      <3> QED BY <1>0, <1>3, <3>2, <3>3, OneEntry
    <2>4. TypeOK'
      BY <1>6, <1>7, <1>8, <2>3, PartsMakeTheType DEF QuietTables, QuietDisk, QuietRest
    <2>5. RowsAgree'
      <3>1. work[r].op \in Finalizing /\ work'[r].op \in Finalizing
        BY <1>1, <2>3 DEF Finalizing
      <3>2. \A q \in Requests : /\ work'[q].op \in Finalizing <=> work[q].op \in Finalizing
                               /\ work'[q].rows = work[q].rows /\ work'[q].token = work[q].token
        BY <1>3, <2>3, <3>1
      <3>3. transfer' = transfer /\ received' = received /\ minted' = minted
        BY <1>1, <2>2
      <3> QED BY <1>0, <3>2, <3>3 DEF RowsAgree
    <2>6. /\ \A u \in Tokens : Assembled(u) = f => u = t
          /\ \A q \in Requests : work[q].file = f => work[q].token = t
      BY <1>0, <2>1 DEF FilesApart
    <2>7. FilesApart'
      <3>1. /\ \A q \in Requests : work'[q].op = "create" => work'[q].file = NoFile
            /\ \A q \in Requests : work'[q].op \in {"copy", "verify", "send"} => work'[q].file # NoFile
        BY <1>0, <2>1, <2>3 DEF FilesApart
      <3>2. /\ \A u \in Tokens : Assembled(u)' # NoFile => u <= minted'
            /\ \A u, v \in Tokens : Assembled(u)' = Assembled(v)' /\ Assembled(u)' # NoFile => u = v
        BY <1>0, <1>1, <1>5 DEF FilesApart
      <3>3. \A u \in Tokens, q \in Requests :
              Assembled(u)' = work'[q].file /\ Assembled(u)' # NoFile => work'[q].token = u
        BY <1>0, <1>5, <2>3, <2>6 DEF FilesApart
      <3>4. \A p, q \in Requests :
              work'[p].file = work'[q].file /\ work'[p].file # NoFile => work'[p].token = work'[q].token
        BY <1>0, <2>3, <2>6 DEF FilesApart
      <3> QED BY <3>1, <3>2, <3>3, <3>4 DEF FilesApart
    <2>8. ContentsAgree'
      <3>0. /\ \A q \in Requests : work'[q].file # NoFile =>
                 files'[work'[q].file] = files[work'[q].file]
            /\ \A u \in Tokens : Assembled(u)' # NoFile => files'[Assembled(u)'] = files[Assembled(u)']
        <4>1. /\ \A q \in Requests : work'[q].file \in Files \cup {NoFile}
              /\ \A u \in Tokens : Assembled(u)' \in Files \cup {NoFile}
          BY <1>6, <2>3 DEF Work, Entry, QuietDisk, Disk, Directory, Assembled
        <4> QED BY <1>6, <4>1, UsedStays
      <3>1. \A k \in 1..Parts : files[f][k] # Absent => files[f][k] = work[r].rows[k]
        BY <1>0, <1>1, <1>3, <2>1 DEF ContentsAgree, Finalizing
      <3>2. \A q \in Requests, k \in 1..Parts :
              work'[q].op \in Finalizing /\ work'[q].file # NoFile /\ files'[work'[q].file][k] # Absent =>
                files'[work'[q].file][k] = work'[q].rows[k]
        BY <1>0, <2>3, <3>0, <3>1 DEF ContentsAgree
      <3>3. \A u \in Tokens, q \in Requests, k \in 1..Parts :
              (/\ work'[q].op \in Finalizing /\ work'[q].token = u
               /\ Assembled(u)' # NoFile /\ files'[Assembled(u)'][k] # Absent)
                => files'[Assembled(u)'][k] = work'[q].rows[k]
        <4>1. \A q \in Requests : /\ work'[q].op \in Finalizing => work[q].op \in Finalizing
                                 /\ work'[q].rows = work[q].rows /\ work'[q].token = work[q].token
          BY <1>1, <1>3, <2>3 DEF Finalizing
        <4>2. \A u \in Tokens : Assembled(u)' # NoFile => Assembled(u)' = Assembled(u)
          BY <1>5
        <4> QED BY <1>0, <3>0, <4>1, <4>2 DEF ContentsAgree
      <3>4. \A u \in Tokens, k \in 1..Parts :
              transfer'.token = u /\ Assembled(u)' # NoFile /\ files'[Assembled(u)'][k] # Absent =>
                files'[Assembled(u)'][k] = received'[k]
        BY <1>0, <1>1, <1>5, <2>2, <3>0 DEF ContentsAgree
      <3> QED BY <3>2, <3>3, <3>4 DEF ContentsAgree
    <2>9. RightSoFar'
      <3>1. \A k \in 1..Parts : work[r].rows[k] = "right"
        BY <1>0, <1>1, <2>2 DEF RightSoFar
      <3> QED BY <1>0, <2>3, <3>1 DEF RightSoFar
    <2>10. ReceiverHasIt' /\ HolesAreTorn'
      BY <1>0, <1>1, <1>6, <2>2, <2>3, HolesStay DEF ReceiverHasIt, StoredMeansReceived
    <2> QED BY <2>4, <2>5, <2>7, <2>8, <2>9, <2>10 DEF TransferInv
  <1> QED BY <1>9, <1>10

(* The file is closed; whoever else has it goes on with it.                *)
LEMMA FinalizeSendsKeeps ==
    ASSUME TransferInv, NEW r \in Requests, FinalizeSends(r)
    PROVE  TransferInv'
  <1>0. /\ Tables /\ Disk /\ Work /\ Rest /\ RowsAgree /\ FilesApart /\ ContentsAgree
        /\ RightSoFar /\ ReceiverHasIt /\ HolesAreTorn
    BY Parted
  <1>1. /\ work[r].op = "send"
        /\ UNCHANGED <<operation, transfer, received, minted, sweep>>
        /\ UNCHANGED staging /\ Forgets
    BY DEF FinalizeSends, tables
  <1>6. QuietRest
    BY <1>1, RestUntouched
  <1>7. /\ receiver' \in BOOLEAN
        /\ receiver => receiver'
        /\ \/ receiver' /\ Answered(r, "stored")
           \/ Done(r)
           \/ Answered(r, "end_row")
    BY <1>0 DEF FinalizeSends, Tables
  <1>8. QuietWork
    <2>1. {"stored", "end_row"} \subseteq Operation \ Finalizing
      BY DEF Operation, Finalizing
    <2> QED BY <1>7, <2>1, RequestGoesOutside
  <1>9. QuietTables
    <2>1. minted \in Nat /\ transfer.token <= minted
      BY <1>0, TokensAreNaturals DEF Tables, RowsAgree
    <2>2. Tables'
      BY <1>0, <1>1, <1>7, Zenon DEF Tables
    <2>3. SessionsGoOn
      BY <1>1, <2>1 DEF SessionsGoOn
    <2>4. transfer'.state = "finalized" => receiver'
      BY <1>0, <1>1, <1>7, Zenon DEF ReceiverHasIt, StoredMeansReceived
    <2> QED BY <1>7, <2>2, <2>3, <2>4, Zenon DEF QuietTables
  <1>10. QuietDisk
    BY <1>1, DirectoryGoes
  <1> QED BY <1>6, <1>8, <1>9, <1>10, QuietKeeps

-----------------------------------------------------------------------------
(* The theorems.                                                           *)

LEMMA InitHolds == Init => TransferInv
  <1> SUFFICES ASSUME Init PROVE TransferInv
    OBVIOUS
  <1>1. Tables /\ Disk /\ Work /\ Rest
    <2>1. Tables
      BY IdleIsAnEntry DEF Init, Tables
    <2>2. Disk
      BY IdleIsAnEntry DEF Init, Disk
    <2>3. Work
      BY IdleIsAnEntry DEF Init, Work
    <2>4. Rest
      <3>1. MaxFaults \in Nat
        BY TransferAssumption
      <3> QED BY <3>1 DEF Init, Rest
    <2> QED BY <2>1, <2>2, <2>3, <2>4
  <1>2. /\ transfer.token = 0 /\ transfer.state = "open" /\ minted = 0
        /\ \A r \in Requests : work[r].op = "idle" /\ work[r].file = NoFile
        /\ \A t \in Tokens : Assembled(t) = NoFile
    BY IdleIsAnEntry DEF Init, NoTransfer, NoDirectory, Assembled
  <1>3. RowsAgree /\ FilesApart /\ ContentsAgree /\ RightSoFar
    BY <1>2 DEF RowsAgree, FilesApart, ContentsAgree, RightSoFar, Finalizing
  <1>4. ReceiverHasIt /\ HolesAreTorn
    BY <1>2 DEF ReceiverHasIt, StoredMeansReceived, HolesAreTorn, Init, Blank
  <1> QED BY <1>1, <1>3, <1>4, TypesInParts DEF TransferInv

LEMMA StepHolds == TransferInv /\ [Next]_vars => TransferInv'
  <1> SUFFICES ASSUME TransferInv, [Next]_vars PROVE TransferInv'
    OBVIOUS
  <1>1. CASE Prepare \/ OperationEnds \/ TransferExpires \/ UNCHANGED vars
    BY <1>1, OthersKeep
  <1>2. ASSUME NEW r \in Requests,
               Open(r) \/ PutChunk(r) \/ Finalize(r) \/ EndDelivery(r) \/ Abandon(r)
        PROVE  TransferInv'
    <2>1. CASE Finalize(r)
      BY <2>1, FinalizeReadsKeeps, FinalizeCreatesKeeps, FinalizeCopiesKeeps,
         FinalizeVerifiesKeeps, FinalizeSendsKeeps, AnswersKeep DEF Finalize
    <2> QED BY <1>2, <2>1, OpenKeeps, PutKeeps, EndDeliveryKeeps, AnswersKeep
  <1>3. CASE SweepStep \/ SweepPasses \/ SweepFails
    BY <1>3, SweepKeeps
  <1> QED BY <1>1, <1>2, <1>3 DEF Next

LEMMA InvHolds == Spec => []TransferInv
  BY InitHolds, StepHolds, PTL DEF Spec

(* Every variable keeps its type, in every interleaving.                   *)
THEOREM TypeCorrect == Spec => []TypeOK
  <1>1. TransferInv => TypeOK
    BY DEF TransferInv
  <1> QED BY <1>1, InvHolds, PTL

(* A session is never finalized before the receiver has the declared bytes.*)
(* finalize_transfer.                                                      *)
THEOREM StoredAlwaysReceived == Spec => []StoredMeansReceived
  <1>1. TransferInv => StoredMeansReceived
    BY DEF TransferInv, ReceiverHasIt
  <1> QED BY <1>1, InvHolds, PTL

(* However many uploads, finalizations and sweeps meet, what is streamed   *)
(* under the digest at the declared length is the declared chunks, but for *)
(* holes in a file that a second finalization truncated while one was      *)
(* halfway through it. finalize_transfer.                                  *)
THEOREM OnlyTornFilesEverStray == Spec => []OnlyTornFilesStray
  <1>1. ASSUME TransferInv PROVE OnlyTornFilesStray
    <2>0. FilesApart /\ ContentsAgree /\ RightSoFar /\ HolesAreTorn /\ Work
      BY <1>1, Parted
    <2>1. ASSUME NEW r \in Requests, work[r].op = "send", Whole(files[work[r].file]),
                 NEW k \in 1..Parts
          PROVE  \/ files[work[r].file][k] = "right"
                 \/ files[work[r].file][k] = Absent /\ work[r].file \in torn
      <3>1. work[r].file \in Files /\ work[r].file # NoFile
        BY <2>0, <2>1 DEF FilesApart, Work, Entry
      <3>2. files[work[r].file][k] # Absent => files[work[r].file][k] = "right"
        BY <2>0, <2>1, <3>1 DEF ContentsAgree, RightSoFar, Finalizing
      <3>3. work[r].file \notin torn => files[work[r].file][k] # Absent
        <4>1. Parts \in 1..Parts /\ (k < Parts \/ k = Parts)
          BY TransferAssumption
        <4> QED BY <2>0, <2>1, <3>1, <4>1 DEF HolesAreTorn, Whole
      <3> QED BY <3>2, <3>3
    <2> QED BY <2>1 DEF OnlyTornFilesStray
  <1> QED BY <1>1, InvHolds, PTL

-----------------------------------------------------------------------------
(* The bytes of a session that can still be finalized                      *)

(* Whatever a request, a directory or the reaper names was minted.         *)
Known ==
    /\ \A r \in Requests : work[r].token <= minted
    /\ \A t \in Tokens : staging[t].there => t <= minted
    /\ \A t \in sweep.todo : t <= minted

(* A request only removes what is no longer uploaded, and places bytes.    *)
Over(r) ==
    /\ work[r].op \in {"replace", "clear", "tidy"} => ~Uploading(work[r].token)
    /\ work[r].op = "place" => work[r].body # Absent

(* What the reaper has selected stays without use, and without an owner.   *)
Selected ==
    \A t \in sweep.todo : /\ sweep.phase \in {"sessions", "row"} => ~Working(t)
                          /\ sweep.phase = "orphans" => transfer.token # t

BytesInv == Known /\ Selected /\ \A r \in Requests : Over(r)

(* What may become of the row of the session in one step.                  *)
RowSteps ==
    \/ UNCHANGED <<transfer, minted>>
    \/ transfer' = NoTransfer /\ UNCHANGED minted
    \/ /\ UNCHANGED minted /\ transfer'.token = transfer.token
       /\ transfer'.state \in {transfer.state, "finalized", "failed"}
       /\ transfer.state \in {"open", transfer'.state}
       /\ transfer'.expired \in {transfer.expired, TRUE}
    \/ /\ transfer.token = 0 /\ minted' = minted + 1
       /\ transfer' = [NoTransfer EXCEPT !.token = minted + 1]

LEMMA RowTakesAStep ==
    ASSUME TransferInv, [Next]_vars
    PROVE  RowSteps
  <1>1. transfer \in Session
    BY Parted DEF Tables
  <1>2. \A state \in {"finalized", "failed"} :
          /\ [transfer EXCEPT !.state = state].token = transfer.token
          /\ [transfer EXCEPT !.state = state].state = state
          /\ [transfer EXCEPT !.state = state].expired = transfer.expired
    BY <1>1 DEF Session
  <1>3. ASSUME NEW t, FailSession(t), UNCHANGED minted
        PROVE  RowSteps
    BY <1>2, <1>3 DEF RowSteps, FailSession
  <1>4. ASSUME NEW r \in Requests, Open(r)
        PROVE  RowSteps
    BY <1>4 DEF RowSteps, Open, OpenReads, OpenReplaces, OpenClears, OpenInserts,
                OpenMakesDirectory, tables
  <1>5. ASSUME NEW r \in Requests, PutChunk(r) \/ Abandon(r) \/ EndsOperation(r) \/ EndsFiles(r)
                                   \/ FinalizeReads(r) \/ FinalizeCreates(r) \/ FinalizeCopies(r)
                                   \/ FinalizeSends(r) \/ FinalizeTidies(r)
        PROVE  RowSteps
    BY <1>5 DEF RowSteps, PutChunk, PutReads, PutPlaces, PutRecords, Abandon, EndsOperation,
                EndsFiles, FinalizeReads, FinalizeCreates, FinalizeCopies, FinalizeSends,
                FinalizeTidies, tables
  <1>6. ASSUME NEW r \in Requests, EndsRow(r) \/ FinalizeVerifies(r)
        PROVE  RowSteps
    <2>1. UNCHANGED minted /\ (UNCHANGED transfer \/ FailSession(work[r].token))
      BY <1>6 DEF EndsRow, FinalizeVerifies
    <2> QED BY <1>3, <2>1 DEF RowSteps
  <1>7. ASSUME NEW r \in Requests, FinalizeStores(r)
        PROVE  RowSteps
    BY <1>2, <1>7 DEF RowSteps, FinalizeStores
  <1>8. CASE TransferExpires
    <2>1. transfer' = [transfer EXCEPT !.expired = TRUE] /\ UNCHANGED minted
      BY <1>8 DEF TransferExpires
    <2>2. /\ transfer'.token = transfer.token /\ transfer'.state = transfer.state
          /\ transfer'.expired = TRUE
      BY <1>1, <2>1 DEF Session
    <2> QED BY <2>1, <2>2 DEF RowSteps
  <1>9. CASE SweepStep \/ SweepPasses \/ SweepFails
    BY <1>9 DEF RowSteps, SweepStep, SweepSelects, SweepRemoves, SweepDeletesRow, SweepScans,
                Scan, SweepAsksOwners, SweepRemovesOrphan, SweepRests, SweepPasses, SweepFails,
                tables
  <1>10. CASE Prepare \/ OperationEnds \/ UNCHANGED vars
    BY <1>10 DEF RowSteps, Prepare, OperationEnds, vars
  <1> QED
    BY <1>4, <1>5, <1>6, <1>7, <1>8, <1>9, <1>10 DEF Next, Finalize, EndDelivery

(* An operation that has ended stays so.                                   *)
LEMMA TerminalStays ==
    ASSUME [Next]_vars, Terminal
    PROVE  Terminal'
  <1>1. ASSUME NEW r \in Requests, Open(r) \/ PutChunk(r) \/ Abandon(r)
        PROVE  Terminal'
    BY <1>1 DEF Terminal, Open, OpenReads, OpenReplaces, OpenClears, OpenInserts,
                OpenMakesDirectory, PutChunk, PutReads, PutPlaces, PutRecords, Abandon, tables
  <1>2. ASSUME NEW r \in Requests, Finalize(r) \/ EndDelivery(r)
        PROVE  Terminal'
    BY <1>2 DEF Terminal, Finalize, FinalizeReads, FinalizeCreates, FinalizeCopies,
                FinalizeVerifies, FinalizeSends, FinalizeStores, FinalizeTidies, EndDelivery,
                EndsRow, EndsOperation, EndsFiles, tables
  <1>3. CASE SweepStep \/ SweepPasses \/ SweepFails
    BY <1>3 DEF Terminal, SweepStep, SweepSelects, SweepRemoves, SweepDeletesRow, SweepScans,
                Scan, SweepAsksOwners, SweepRemovesOrphan, SweepRests, SweepPasses, SweepFails,
                tables
  <1>4. CASE Prepare \/ OperationEnds \/ TransferExpires \/ UNCHANGED vars
    BY <1>4 DEF Terminal, Prepare, OperationEnds, TransferExpires, vars
  <1> QED BY <1>1, <1>2, <1>3, <1>4 DEF Next

(* No token comes back, and no session is uploaded again.                  *)
NothingRevives ==
    /\ minted \in Nat /\ minted <= minted' /\ minted' \in Nat
    /\ \A t \in Tokens : t <= minted /\ transfer'.token = t => transfer.token = t
    /\ \A t \in Tokens \cup {0} : t <= minted /\ Uploading(t)' => Uploading(t)
    /\ \A t \in Tokens : t <= minted /\ Working(t)' => Working(t)

LEMMA NothingIsRevived ==
    ASSUME TransferInv, [Next]_vars
    PROVE  NothingRevives
  <1>1. /\ transfer \in Session /\ transfer' \in Session
        /\ minted \in Nat /\ transfer.token <= minted /\ Tokens \subseteq Nat /\ 0 \notin Tokens
    <2>1. TransferInv'
      BY StepHolds
    <2>2. transfer' \in Session
      BY <2>1 DEF TransferInv, TypeOK, Session
    <2>3. transfer \in Session /\ minted \in Tokens \cup {0}
      BY Parted DEF Tables
    <2>4. transfer.token <= minted
      BY DEF TransferInv, RowsAgree
    <2> QED BY <2>2, <2>3, <2>4, TokensAreNaturals
  <1>2. RowSteps
    BY RowTakesAStep
  <1>3. ASSUME NEW t \in Tokens \cup {0}, t <= minted
        PROVE  /\ transfer'.token = t /\ t # 0 => transfer.token = t
               /\ Uploading(t)' => Uploading(t)
    <2>1. Uploading(t)' => /\ transfer'.token = t /\ t # 0
                           /\ transfer'.state = "open" /\ ~transfer'.expired
      BY DEF Uploading, Bound
    <2>2. (transfer.token = t /\ t # 0 /\ transfer.state = "open" /\ ~transfer.expired)
            => Uploading(t)
      BY DEF Uploading, Bound
    <2>3. CASE UNCHANGED <<transfer, minted>>
      BY <2>1, <2>2, <2>3
    <2>4. CASE transfer' = NoTransfer /\ UNCHANGED minted
      BY <2>1, <2>4 DEF NoTransfer
    <2>5. CASE /\ UNCHANGED minted /\ transfer'.token = transfer.token
               /\ transfer'.state \in {transfer.state, "finalized", "failed"}
               /\ transfer.state \in {"open", transfer'.state}
               /\ transfer'.expired \in {transfer.expired, TRUE}
      BY <1>1, <2>1, <2>2, <2>5 DEF Session
    <2>6. CASE /\ transfer.token = 0 /\ minted' = minted + 1
               /\ transfer' = [NoTransfer EXCEPT !.token = minted + 1]
      <3>1. transfer'.token = minted + 1
        BY <2>6 DEF NoTransfer
      <3>2. t # minted + 1
        BY <1>1, <1>3
      <3> QED BY <2>1, <3>1, <3>2
    <2> QED BY <1>2, <2>3, <2>4, <2>5, <2>6 DEF RowSteps
  <1>4. minted <= minted' /\ minted' \in Nat
    <2>1. minted' = minted \/ minted' = minted + 1
      BY <1>2 DEF RowSteps
    <2> QED BY <1>1, <2>1
  <1>5. ASSUME NEW t \in Tokens, t <= minted, Working(t)'
        PROVE  Working(t)
    <2>1. Uploading(t)' /\ ~Terminal'
      BY <1>5 DEF Working
    <2> QED BY <1>3, <1>5, <2>1, TerminalStays DEF Working
  <1> QED BY <1>1, <1>3, <1>4, <1>5 DEF NothingRevives

LEMMA StillMinted ==
    ASSUME NothingRevives, NEW t \in Tokens \cup {0}, t <= minted
    PROVE  t <= minted'
  <1>1. minted \in Nat /\ minted <= minted' /\ minted' \in Nat
    BY DEF NothingRevives
  <1>2. t \in Nat
    BY TokensAreNaturals
  <1> QED BY <1>1, <1>2

(* A request goes on, and what it names was minted.                        *)
LEMMA OneGoesOn ==
    ASSUME TransferInv, BytesInv, NothingRevives, NEW r \in Requests,
           NEW e \in Entry, work' = [work EXCEPT ![r] = e],
           e.token <= minted',
           e.op \in {"replace", "clear", "tidy"} => ~Uploading(e.token)',
           e.op = "place" => e.body # Absent
    PROVE  \A q \in Requests : work'[q].token <= minted' /\ Over(q)'
  <1>1. Work /\ TransferInv
    BY Parted
  <1>2. Work' /\ work'[r] = e /\ \A q \in Requests \ {r} : work'[q] = work[q]
    BY <1>1, OneEntry
  <1>3. ASSUME NEW q \in Requests, work'[q] = work[q]
        PROVE  work'[q].token <= minted' /\ Over(q)'
    <2>1. work[q].token \in Tokens \cup {0} /\ Tokens \subseteq Nat
      BY <1>1, TokensAreNaturals DEF Work, Entry
    <2>2. work[q].token <= minted /\ Over(q)
      BY DEF BytesInv, Known
    <2>3. Uploading(work[q].token)' => Uploading(work[q].token)
      <3> PICK t \in Tokens \cup {0} : t = work[q].token
        BY <2>1
      <3> QED BY <1>3, <2>2 DEF NothingRevives, Uploading, Bound
    <2>4. work[q].token <= minted'
      <3> PICK t \in Tokens \cup {0} : t = work[q].token
        BY <2>1
      <3> QED BY <2>2, StillMinted
    <2> QED BY <1>3, <2>2, <2>3, <2>4 DEF Over
  <1>4. work'[r].token <= minted' /\ Over(r)'
    BY <1>2 DEF Over, Uploading, Bound
  <1> QED BY <1>2, <1>3, <1>4

LEMMA NobodyGoesOn ==
    ASSUME TransferInv, BytesInv, NothingRevives, UNCHANGED work
    PROVE  \A q \in Requests : work'[q].token <= minted' /\ Over(q)'
  <1>1. ASSUME NEW q \in Requests
        PROVE  work'[q].token <= minted' /\ Over(q)'
    <2>1. work[q] \in Entry
      BY Parted DEF Work
    <2>2. work[q].token <= minted /\ Over(q)
      BY DEF BytesInv, Known
    <2>3. work[q].token \in Tokens \cup {0} /\ Tokens \subseteq Nat
      BY <2>1, TokensAreNaturals DEF Entry
    <2>4. Uploading(work[q].token)' => Uploading(work[q].token)
      <3> PICK t \in Tokens \cup {0} : t = work[q].token
        BY <2>3
      <3> QED BY <2>2 DEF NothingRevives, Uploading, Bound
    <2>5. work[q].token <= minted'
      <3> PICK t \in Tokens \cup {0} : t = work[q].token
        BY <2>3
      <3> QED BY <2>2, StillMinted
    <2> QED BY <2>2, <2>4, <2>5 DEF Over
  <1> QED BY <1>1

(* A request begins with a token that was minted.                          *)
LEMMA BeginsWith ==
    ASSUME TransferInv, BytesInv, NothingRevives, NEW r \in Requests,
           NEW op \in Operation \ {"place"}, NEW t \in Tokens \cup {0}, t <= minted',
           op \in {"replace", "clear", "tidy"} => ~Uploading(t)',
           work' = [work EXCEPT ![r] = [Idle EXCEPT !.op = op, !.token = t]]
    PROVE  \A q \in Requests : work'[q].token <= minted' /\ Over(q)'
  <1>1. op \in Operation
    OBVIOUS
  <1>2. \E f \in Entry : /\ f = [Idle EXCEPT !.op = op, !.token = t]
                         /\ f.op = op /\ f.token = t /\ f.file = NoFile
    BY <1>1, EntryBegins, Zenon
  <1>3. PICK e \in Entry : /\ e = [Idle EXCEPT !.op = op, !.token = t]
                           /\ e.op = op /\ e.token = t
    BY <1>2
  <1> QED BY <1>3, OneGoesOn

(* To an operation with the same token, or to the end.                     *)
LEMMA GoesOnTo ==
    ASSUME TransferInv, BytesInv, NothingRevives, NEW r \in Requests,
           NEW op \in Operation \ {"place"}, To(r, op) \/ Answered(r, op) \/ Done(r),
           op \in {"replace", "clear", "tidy"} =>
             \A t \in Tokens \cup {0} : t = work[r].token => ~Uploading(t)'
    PROVE  \A q \in Requests : work'[q].token <= minted' /\ Over(q)'
  <1>1. work[r] \in Entry /\ work \in [Requests -> Entry]
    BY Parted DEF Work
  <1>2. CASE To(r, op)
    <2>1. PICK e \in Entry : /\ e.op = op /\ e.token = work[r].token
                             /\ work' = [work EXCEPT ![r] = e]
      <3> DEFINE e == [work[r] EXCEPT !.op = op]
      <3>1. e \in Entry /\ e.op = op /\ e.token = work[r].token
        BY <1>1 DEF Entry
      <3>2. work' = [work EXCEPT ![r] = e]
        BY <1>1, <1>2 DEF To
      <3> QED BY <3>1, <3>2, Zenon
    <2>2. e.token \in Tokens \cup {0} /\ e.token <= minted
      BY <2>1 DEF BytesInv, Known, Entry
    <2>3. e.token <= minted'
      BY <2>2, StillMinted
    <2>4. e.op \in {"replace", "clear", "tidy"} => ~Uploading(e.token)'
      BY <2>1, <2>2
    <2> QED BY <2>1, <2>3, <2>4, OneGoesOn
  <1>3. CASE Done(r)
    <2>1. Idle \in Entry /\ Idle.op = "idle" /\ Idle.token = 0
      BY IdleIsAnEntry DEF Idle
    <2>2. 0 <= minted'
      BY DEF NothingRevives
    <2>3. work' = [work EXCEPT ![r] = Idle]
      BY <1>3 DEF Done
    <2> QED BY <2>1, <2>2, <2>3, OneGoesOn
  <1>4. CASE Answered(r, op)
    <2>1. PICK t \in Tokens \cup {0} : t = work[r].token
      BY <1>1 DEF Entry
    <2>2. t <= minted' /\ (op \in {"replace", "clear", "tidy"} => ~Uploading(t)')
      <3>1. t <= minted
        BY <2>1 DEF BytesInv, Known
      <3> QED BY <2>1, <3>1, StillMinted
    <2>3. work' = [work EXCEPT ![r] = [Idle EXCEPT !.op = op, !.token = t]]
      BY <1>4, <2>1 DEF Answered
    <2> QED BY <2>2, <2>3, BeginsWith
  <1> QED BY <1>2, <1>3, <1>4

LEMMA RequestsGoOn ==
    ASSUME TransferInv, BytesInv, NothingRevives, [Next]_vars
    PROVE  \A q \in Requests : work'[q].token <= minted' /\ Over(q)'
  <1> DEFINE GoOn == \A q \in Requests : work'[q].token <= minted' /\ Over(q)'
  <1> USE DEF Operation
  <1>0. /\ \A r \in Requests : work[r] \in Entry /\ work[r].token <= minted /\ Over(r)
        /\ transfer.token <= minted /\ transfer \in Session
    BY Parted DEF Work, Tables, BytesInv, Known, TransferInv, RowsAgree
  <1>1. ASSUME NEW r \in Requests, OpenReads(r)
        PROVE  GoOn
    <2>1. PICK t \in Tokens \cup {0} : t = transfer.token
      BY <1>0 DEF Session
    <2>2. PICK op \in {"insert", "replace"} : op = IF t = 0 THEN "insert" ELSE "replace"
      OBVIOUS
    <2>3. work' = [work EXCEPT ![r] = [Idle EXCEPT !.op = op, !.token = t]]
      BY <1>1, <2>1, <2>2 DEF OpenReads
    <2>4. UNCHANGED transfer /\ ~Bound(t)
      BY <1>1, <2>1 DEF OpenReads, tables
    <2>5. t <= minted'
      BY <1>0, <2>1, StillMinted
    <2>6. ~Uploading(t)'
      BY <2>4 DEF Uploading, Bound
    <2> QED BY <2>3, <2>5, <2>6, BeginsWith
  <1>2. ASSUME NEW r \in Requests, OpenReplaces(r)
        PROVE  GoOn
    <2>1. transfer' = NoTransfer /\ To(r, "clear")
      BY <1>2 DEF OpenReplaces
    <2>2. \A t \in Tokens \cup {0} : ~Uploading(t)'
      BY <2>1 DEF Uploading, Bound, NoTransfer
    <2> QED BY <2>1, <2>2, GoesOnTo
  <1>3. ASSUME NEW r \in Requests, OpenInserts(r)
        PROVE  GoOn
    <2>1. CASE transfer.token = 0
      <3>1. /\ minted + 1 \in Tokens /\ minted' = minted + 1
            /\ work' = [work EXCEPT ![r] = [Idle EXCEPT !.op = "mkdir", !.token = minted + 1]]
        BY <1>3, <2>1 DEF OpenInserts
      <3>2. PICK t \in Tokens \cup {0} : t = minted + 1
        BY <3>1
      <3>5. PICK op \in {"mkdir"} : op = "mkdir"
        OBVIOUS
      <3>3. t <= minted'
        BY <3>1, <3>2 DEF NothingRevives
      <3>4. work' = [work EXCEPT ![r] = [Idle EXCEPT !.op = op, !.token = t]]
        BY <3>1, <3>2, <3>5
      <3> QED BY <3>3, <3>4, BeginsWith
    <2>2. CASE transfer.token # 0
      BY <1>3, <2>2, GoesOnTo DEF OpenInserts
    <2> QED BY <2>1, <2>2
  <1>4. ASSUME NEW r \in Requests, OpenClears(r) \/ OpenMakesDirectory(r)
        PROVE  GoOn
    BY <1>4, GoesOnTo DEF OpenClears, OpenMakesDirectory
  <1>5. ASSUME NEW r \in Requests, PutReads(r)
        PROVE  GoOn
    <2>1. PICK t \in Tokens, k \in 1..Parts, b \in Bodies :
             /\ Uploading(t)
             /\ work' = [work EXCEPT ![r] =
                           [Idle EXCEPT !.op = "place", !.token = t, !.part = k, !.body = b]]
      <3>1. PICK u \in Uploads :
              /\ Uploading(u.token)
              /\ work' = [work EXCEPT ![r] = [Idle EXCEPT !.op = "place", !.token = u.token,
                                                          !.part = u.part, !.body = u.body]]
        BY <1>5 DEF PutReads
      <3>2. u.token \in Tokens /\ u.part \in 1..Parts /\ u.body \in Bodies
        BY TransferAssumption
      <3> QED BY <3>1, <3>2
    <2>2. PICK e \in Entry : /\ work' = [work EXCEPT ![r] = e]
                             /\ e.op = "place" /\ e.token = t /\ e.body = b
      <3> DEFINE e == [Idle EXCEPT !.op = "place", !.token = t, !.part = k, !.body = b]
      <3>1. e \in Entry /\ e.op = "place" /\ e.token = t /\ e.body = b
        <4>1. Parts \in Nat /\ Idle \in Entry /\ k \in 0..Parts
          BY TransferAssumption, IdleIsAnEntry
        <4> QED BY <4>1 DEF Entry
      <3>2. work' = [work EXCEPT ![r] = e]
        BY <2>1
      <3> QED BY <3>1, <3>2, Zenon
    <2>3. t = transfer.token
      BY <2>1 DEF Uploading, Bound
    <2>4. e.token \in Tokens \cup {0} /\ e.token <= minted
      BY <1>0, <2>2, <2>3 DEF Entry
    <2>5. e.token <= minted' /\ e.body # Absent
      BY <2>2, <2>4, StillMinted DEF Bodies, Absent
    <2> QED BY <2>2, <2>5, OneGoesOn
  <1>6. ASSUME NEW r \in Requests, PutPlaces(r) \/ PutRecords(r) \/ Abandon(r)
        PROVE  GoOn
    BY <1>6, GoesOnTo DEF PutPlaces, PutRecords, Abandon
  <1>7. ASSUME NEW r \in Requests, FinalizeReads(r)
        PROVE  GoOn
    <2>1. PICK t \in Tokens :
             /\ Uploading(t)
             /\ work' = [work EXCEPT ![r] =
                           [Idle EXCEPT !.op = "create", !.token = t, !.rows = received]]
      BY <1>7 DEF FinalizeReads
    <2>2. PICK e \in Entry : work' = [work EXCEPT ![r] = e] /\ e.op = "create" /\ e.token = t
      <3> DEFINE e == [Idle EXCEPT !.op = "create", !.token = t, !.rows = received]
      <3>1. e \in Entry /\ e.op = "create" /\ e.token = t
        BY IdleIsAnEntry, Parted DEF Entry, Idle, Tables
      <3>2. work' = [work EXCEPT ![r] = e]
        BY <2>1
      <3> QED BY <3>1, <3>2, Zenon
    <2>3. t = transfer.token
      BY <2>1 DEF Uploading, Bound
    <2>4. e.token <= minted'
      BY <1>0, <2>2, <2>3, StillMinted
    <2> QED BY <2>2, <2>4, OneGoesOn
  <1>8. ASSUME NEW r \in Requests, FinalizeCreates(r) \/ FinalizeCopies(r) \/ FinalizeVerifies(r)
        PROVE  GoOn
    <2>1. \/ Done(r)
          \/ \E e \in Entry : /\ work' = [work EXCEPT ![r] = e]
                              /\ e.token = work[r].token
                              /\ e.op \in {"copy", "verify", "send"}
      <3> SUFFICES ASSUME ~Done(r)
                   PROVE  \E e \in Entry : /\ work' = [work EXCEPT ![r] = e]
                                           /\ e.token = work[r].token
                                           /\ e.op \in {"copy", "verify", "send"}
        OBVIOUS
      <3>1. PICK e \in Entry : e = work'[r]
        <4>1. work' \in [Requests -> Entry]
          BY StepHolds DEF TransferInv, TypeOK, Entry
        <4> QED BY <4>1
      <3>2. PICK old \in Entry : old = work[r] /\ work \in [Requests -> Entry]
        BY <1>0, Parted DEF Work
      <3>3. CASE FinalizeCreates(r)
        <4>1. PICK f : work' = [work EXCEPT ![r].op = "copy", ![r].part = 1, ![r].file = f]
          BY <3>3 DEF FinalizeCreates
        <4>2. e = [old EXCEPT !.op = "copy", !.part = 1, !.file = f]
          BY <3>1, <3>2, <4>1
        <4>3. e.op = "copy" /\ e.token = old.token
          BY <4>2 DEF Entry
        <4> QED BY <3>1, <3>2, <4>1, <4>2, <4>3
      <3>4. CASE FinalizeCopies(r)
        <4>1. PICK k : k = work[r].part
          OBVIOUS
        <4>2. PICK b : b = (work[r].right /\ staging[work[r].token].chunks[k] = "right")
          OBVIOUS
        <4>3. work' = [work EXCEPT ![r].right = b,
                                   ![r].part = IF k = Parts THEN 0 ELSE k + 1,
                                   ![r].op = IF k = Parts THEN "verify" ELSE "copy"]
          BY <3>2, <3>4, <4>1, <4>2 DEF FinalizeCopies
        <4>4. e = [old EXCEPT !.right = b, !.part = IF k = Parts THEN 0 ELSE k + 1,
                              !.op = IF k = Parts THEN "verify" ELSE "copy"]
          BY <3>1, <3>2, <4>3
        <4>5. e.op \in {"copy", "verify"} /\ e.token = old.token
          BY <4>4 DEF Entry
        <4> QED BY <3>1, <3>2, <4>3, <4>4, <4>5
      <3>5. CASE FinalizeVerifies(r)
        <4>1. PICK f : work' = [work EXCEPT ![r].op = "send", ![r].file = f]
          BY <3>5 DEF FinalizeVerifies
        <4>2. e = [old EXCEPT !.op = "send", !.file = f]
          BY <3>1, <3>2, <4>1
        <4>3. e.op = "send" /\ e.token = old.token
          BY <4>2 DEF Entry
        <4> QED BY <3>1, <3>2, <4>1, <4>2, <4>3
      <3> QED BY <1>8, <3>3, <3>4, <3>5
    <2>2. CASE Done(r)
      BY <2>2, GoesOnTo
    <2>3. CASE ~Done(r)
      <3>1. PICK e \in Entry : /\ work' = [work EXCEPT ![r] = e]
                              /\ e.token = work[r].token
                              /\ e.op \in {"copy", "verify", "send"}
        BY <2>1, <2>3
      <3>2. e.token <= minted'
        BY <1>0, <3>1, StillMinted DEF Entry
      <3> QED BY <3>1, <3>2, OneGoesOn
    <2> QED BY <2>2, <2>3
  <1>9. ASSUME NEW r \in Requests, FinalizeSends(r) \/ FinalizeTidies(r) \/ EndDelivery(r)
        PROVE  GoOn
    <2>1. \E op \in {"stored", "end_row", "end_operation", "end_files"} :
            To(r, op) \/ Answered(r, op) \/ Done(r)
      BY <1>9 DEF FinalizeSends, FinalizeTidies, EndDelivery, EndsRow, EndsOperation, EndsFiles
    <2> QED BY <2>1, GoesOnTo
  <1>10. ASSUME NEW r \in Requests, FinalizeStores(r)
         PROVE  GoOn
    <2>1. ASSUME NEW t \in Tokens \cup {0}, t = work[r].token
          PROVE  ~Uploading(t)'
      <3>1. transfer' = IF transfer.token = t /\ transfer.state = "open"
                          THEN [transfer EXCEPT !.state = "finalized"] ELSE transfer
        BY <1>10, <2>1 DEF FinalizeStores
      <3>2. ~(transfer'.token = t /\ transfer'.state = "open")
        BY <1>0, <3>1 DEF Session
      <3> QED BY <3>2 DEF Uploading, Bound
    <2> QED BY <1>10, <2>1, GoesOnTo DEF FinalizeStores
  <1>11. CASE \/ Prepare \/ OperationEnds \/ TransferExpires \/ UNCHANGED vars
              \/ SweepStep \/ SweepPasses \/ SweepFails
    <2>1. UNCHANGED work
      BY <1>11 DEF Prepare, OperationEnds, TransferExpires, vars, SweepStep, SweepSelects,
                   SweepRemoves, SweepDeletesRow, SweepScans, Scan, SweepAsksOwners,
                   SweepRemovesOrphan, SweepRests, SweepPasses, SweepFails
    <2> QED BY <2>1, NobodyGoesOn
  <1> QED
    BY <1>1, <1>2, <1>3, <1>4, <1>5, <1>6, <1>7, <1>8, <1>9, <1>10, <1>11
       DEF Next, Open, PutChunk, Finalize

-----------------------------------------------------------------------------
(* The directories and the reaper                                          *)

(* What LiveBytesStay says of one step.                                    *)
BytesStay ==
    \A t \in Tokens, k \in 1..Parts :
      (/\ Working(t) /\ Working(t)'
       /\ staging[t].chunks[k] # Absent
       /\ \A r \in Requests : ~(work[r].op = "end_files" /\ work[r].token = t))
        => staging'[t].chunks[k] # Absent

DirectoriesGoOn == BytesStay /\ \A t \in Tokens : staging'[t].there => t <= minted'

LEMMA OneDirectory ==
    ASSUME TransferInv, BytesInv, NothingRevives, NEW u \in Tokens \cup {0}, u <= minted,
           NEW d, staging' = [staging EXCEPT ![u] = d],
           \/ ~Working(u)
           \/ \E r \in Requests : work[r].op = "end_files" /\ work[r].token = u
           \/ \A k \in 1..Parts : staging[u].chunks[k] # Absent => d.chunks[k] # Absent
    PROVE  DirectoriesGoOn
  <1>1. staging \in [Tokens -> Directory]
    BY Parted DEF Disk
  <1>2. ASSUME NEW t \in Tokens
        PROVE  /\ staging'[t].there => t <= minted'
               /\ t # u => staging'[t] = staging[t]
               /\ t = u => staging'[t] = d
    <2>1. (t # u => staging'[t] = staging[t]) /\ (t = u => staging'[t] = d)
      BY <1>1
    <2>2. staging[t].there => t <= minted
      BY DEF BytesInv, Known
    <2> QED BY <2>1, <2>2, StillMinted
  <1>3. BytesStay
    BY <1>2 DEF BytesStay
  <1> QED BY <1>2, <1>3 DEF DirectoriesGoOn

LEMMA DirectoriesStay ==
    ASSUME TransferInv, BytesInv, NothingRevives, UNCHANGED staging
    PROVE  DirectoriesGoOn
  BY StillMinted DEF DirectoriesGoOn, BytesStay, BytesInv, Known

LEMMA DirectoriesAreKept ==
    ASSUME TransferInv, BytesInv, NothingRevives, [Next]_vars
    PROVE  DirectoriesGoOn
  <1>0. /\ staging \in [Tokens -> Directory]
        /\ \A r \in Requests : /\ work[r].token \in Tokens \cup {0}
                               /\ work[r].token <= minted /\ Over(r)
        /\ \A t \in sweep.todo : t \in Tokens /\ t <= minted
    BY Parted DEF Disk, Work, Entry, Rest, BytesInv, Known
  <1>1. ASSUME NEW u \in Tokens \cup {0}, u <= minted, Remove(u) \/ UNCHANGED staging,
               \/ ~Working(u)
               \/ \E r \in Requests : work[r].op = "end_files" /\ work[r].token = u
        PROVE  DirectoriesGoOn
    BY <1>1, OneDirectory, DirectoriesStay DEF Remove
  <1>2. ASSUME NEW r \in Requests, OpenClears(r) \/ FinalizeTidies(r) \/ EndsFiles(r)
        PROVE  DirectoriesGoOn
    <2>1. PICK u \in Tokens \cup {0} : u = work[r].token
      BY <1>0
    <2>2. Remove(u) \/ UNCHANGED staging
      BY <1>2, <2>1 DEF OpenClears, FinalizeTidies, EndsFiles
    <2>3. ~Working(u) \/ (work[r].op = "end_files" /\ work[r].token = u)
      BY <1>0, <1>2, <2>1 DEF OpenClears, FinalizeTidies, EndsFiles, Over, Working
    <2> QED BY <1>0, <1>1, <2>1, <2>2, <2>3
  <1>3. ASSUME NEW r \in Requests, OpenMakesDirectory(r)
        PROVE  DirectoriesGoOn
    <2>1. PICK u \in Tokens \cup {0} : u = work[r].token
      BY <1>0
    <2>2. CASE u = 0
      BY <1>0, <1>3, <2>1, <2>2, TokensAreNaturals, DirectoriesStay DEF OpenMakesDirectory
    <2>3. CASE u \in Tokens
      <3>1. PICK d : d = Made(staging[u])
        OBVIOUS
      <3>2. d.chunks = staging[u].chunks
        BY <1>0, <2>3, <3>1 DEF Made, Directory
      <3>3. staging' = [staging EXCEPT ![u] = d]
        BY <1>0, <1>3, <2>1, <2>3, <3>1 DEF OpenMakesDirectory
      <3> QED BY <1>0, <2>1, <3>2, <3>3, OneDirectory
    <2> QED BY <2>2, <2>3
  <1>4. ASSUME NEW r \in Requests, PutPlaces(r)
        PROVE  DirectoriesGoOn
    <2>1. PICK u \in Tokens \cup {0} : u = work[r].token
      BY <1>0
    <2>2. CASE u = 0
      BY <1>0, <1>4, <2>1, <2>2, TokensAreNaturals, DirectoriesStay DEF PutPlaces
    <2>3. CASE u \in Tokens
      <3>1. PICK old \in Directory : old = Made(staging[u]) /\ old.chunks = staging[u].chunks
        <4>1. Made(staging[u]) \in Directory /\ Made(staging[u]).chunks = staging[u].chunks
          BY <1>0, <2>3 DEF Made, Directory
        <4> QED BY <4>1
      <3>2. PICK d : d = [old EXCEPT !.chunks[work[r].part] = work[r].body]
        OBVIOUS
      <3>3. staging' = [staging EXCEPT ![u] = d]
        BY <1>0, <1>4, <2>1, <2>3, <3>1, <3>2 DEF PutPlaces
      <3>4. work[r].body # Absent
        BY <1>0, <1>4 DEF PutPlaces, Over
      <3>5. d.chunks = [old.chunks EXCEPT ![work[r].part] = work[r].body]
        BY <3>2 DEF Directory
      <3>6. old.chunks \in [1..Parts -> Bodies \cup {Absent}]
        BY DEF Directory, Content
      <3>7. \A k \in 1..Parts : staging[u].chunks[k] # Absent => d.chunks[k] # Absent
        BY <3>1, <3>4, <3>5, <3>6
      <3> QED BY <1>0, <2>1, <3>3, <3>7, OneDirectory
    <2> QED BY <2>2, <2>3
  <1>5. ASSUME NEW r \in Requests, FinalizeCreates(r) \/ FinalizeVerifies(r)
        PROVE  DirectoriesGoOn
    <2>1. PICK u \in Tokens \cup {0} : u = work[r].token
      BY <1>0
    <2>2. u \in Tokens
      BY <1>5, <2>1 DEF FinalizeCreates, FinalizeVerifies, TransferInv, RowsAgree, Finalizing
    <2>3. PICK old \in Directory : old = staging[u]
      BY <1>0, <2>2
    <2>4. Made(old).chunks = old.chunks /\ Made(old) \in Directory
      BY DEF Made, Directory
    <2>5. \A f : /\ [old EXCEPT !.assembling = f].chunks = old.chunks
                 /\ [Made(old) EXCEPT !.assembling = f].chunks = old.chunks
      BY <2>4 DEF Directory
    <2>6. \/ UNCHANGED staging
          \/ \E f, d : /\ d \in {[old EXCEPT !.assembling = f], [Made(old) EXCEPT !.assembling = f]}
                       /\ staging' = [staging EXCEPT ![u] = d]
      <3>1. CASE FinalizeCreates(r)
        BY <1>0, <2>1, <2>2, <2>3, <3>1 DEF FinalizeCreates, disk
      <3>2. CASE FinalizeVerifies(r)
        BY <1>0, <2>1, <2>2, <2>3, <3>2 DEF FinalizeVerifies
      <3> QED BY <1>5, <3>1, <3>2
    <2>7. CASE UNCHANGED staging
      BY <2>7, DirectoriesStay
    <2>8. CASE ~UNCHANGED staging
      <3>1. PICK f, d : /\ d \in {[old EXCEPT !.assembling = f], [Made(old) EXCEPT !.assembling = f]}
                        /\ staging' = [staging EXCEPT ![u] = d]
        BY <2>6, <2>8
      <3>2. d.chunks = staging[u].chunks
        BY <2>3, <2>5, <3>1
      <3> QED BY <1>0, <2>1, <3>1, <3>2, OneDirectory
    <2> QED BY <2>7, <2>8
  <1>6. CASE SweepRemoves \/ SweepRemovesOrphan
    <2>1. PICK u \in sweep.todo : Remove(u) /\ sweep.phase \in {"sessions", "orphans"}
      BY <1>6 DEF SweepRemoves, SweepRemovesOrphan
    <2>2. ~Working(u)
      BY <2>1 DEF BytesInv, Selected, Working, Uploading, Bound
    <2> QED BY <1>0, <1>1, <2>1, <2>2
  <1>7. ASSUME NEW r \in Requests, \/ OpenReads(r) \/ OpenReplaces(r) \/ OpenInserts(r)
                                   \/ PutReads(r) \/ PutRecords(r) \/ FinalizeReads(r)
                                   \/ FinalizeCopies(r) \/ FinalizeSends(r) \/ FinalizeStores(r)
                                   \/ EndsRow(r) \/ EndsOperation(r) \/ Abandon(r)
        PROVE  DirectoriesGoOn
    <2>1. UNCHANGED staging
      BY <1>7 DEF OpenReads, OpenReplaces, OpenInserts, PutReads, PutRecords, FinalizeReads,
                  FinalizeCopies, FinalizeSends, FinalizeStores, EndsRow, EndsOperation,
                  Abandon, disk
    <2> QED BY <2>1, DirectoriesStay
  <1>8. CASE \/ Prepare \/ OperationEnds \/ TransferExpires \/ UNCHANGED vars
             \/ SweepSelects \/ SweepDeletesRow \/ SweepScans \/ SweepAsksOwners \/ SweepRests
             \/ SweepPasses \/ SweepFails
    <2>1. UNCHANGED staging
      BY <1>8 DEF Prepare, OperationEnds, TransferExpires, vars, SweepSelects, SweepDeletesRow,
                  SweepScans, Scan, SweepAsksOwners, SweepRests, SweepPasses, SweepFails, disk
    <2> QED BY <2>1, DirectoriesStay
  <1> QED
    BY <1>2, <1>3, <1>4, <1>5, <1>6, <1>7, <1>8
       DEF Next, Open, PutChunk, Finalize, EndDelivery, SweepStep

(* The reaper's selection stays dead; a scan takes what is minted, and     *)
(* keeps what has no row.                                                  *)
LEMMA SelectionStaysDead ==
    ASSUME TransferInv, BytesInv, NothingRevives, [Next]_vars
    PROVE  Selected' /\ \A t \in sweep'.todo : t <= minted'
  <1> DEFINE Dead == Selected' /\ \A t \in sweep'.todo : t <= minted'
  <1>0. /\ \A t \in sweep.todo : t \in Tokens /\ t <= minted
        /\ sweep \in [phase: {"rest", "sessions", "row", "scanned", "orphans"},
                      todo: SUBSET Tokens, faults: 0..MaxFaults]
        /\ Selected /\ Tokens \subseteq Nat /\ 0 \notin Tokens
    BY Parted, TokensAreNaturals DEF Rest, BytesInv, Known
  <1>1. \A phase, todo : Sweeps(phase, todo) => sweep'.phase = phase /\ sweep'.todo = todo
    BY <1>0 DEF Sweeps
  <1>2. ASSUME NEW t \in sweep.todo
        PROVE  /\ t \in Tokens /\ t <= minted'
               /\ sweep.phase \in {"sessions", "row"} => ~Working(t)'
               /\ sweep.phase = "orphans" => transfer'.token # t
    BY <1>0, StillMinted DEF Selected, NothingRevives
  <1>3. ASSUME sweep'.todo \subseteq sweep.todo,
               \/ sweep'.phase = sweep.phase \/ sweep'.phase = "rest"
               \/ /\ sweep.phase \in {"sessions", "row"}
                  /\ sweep'.phase \in {"sessions", "row"}
        PROVE  Dead
    BY <1>2, <1>3 DEF Selected
  <1>4. CASE SweepSelects
    <2>1. PICK settled \in BOOLEAN :
             Sweeps("sessions", {t \in Tokens : Reapable(t, settled)})
      BY <1>4 DEF SweepSelects
    <2>2. UNCHANGED <<transfer, operation, minted>>
      BY <1>4 DEF SweepSelects, tables
    <2>3. ASSUME NEW t \in Tokens, Reapable(t, settled)
          PROVE  ~Working(t)' /\ t <= minted'
      <3>1. t = transfer.token /\ t <= minted
        BY <2>3 DEF Reapable, TransferInv, RowsAgree
      <3>2. ~Working(t)
        BY <2>3 DEF Reapable, Working, Uploading, Bound
      <3> QED BY <2>2, <3>1, <3>2 DEF Working, Uploading, Bound, Terminal
    <2>4. sweep'.phase = "sessions" /\ sweep'.todo = {t \in Tokens : Reapable(t, settled)}
      BY <1>1, <2>1
    <2> QED BY <2>3, <2>4 DEF Selected
  <1>5. CASE SweepScans
    <2>1. PICK names \in SUBSET There : Scan(names)
      BY <1>5 DEF SweepScans
    <2>2. sweep'.phase = "scanned" /\ sweep'.todo = names
      BY <1>1, <2>1 DEF Scan
    <2>3. \A t \in names : t \in Tokens /\ t <= minted
      BY DEF There, BytesInv, Known
    <2> QED BY <2>2, <2>3, StillMinted DEF Selected
  <1>6. CASE SweepAsksOwners
    <2>1. sweep'.phase = "orphans" /\ sweep'.todo = {t \in sweep.todo : ~Owned(t)}
      BY <1>1, <1>6 DEF SweepAsksOwners
    <2>2. UNCHANGED transfer
      BY <1>6 DEF SweepAsksOwners, tables
    <2> QED BY <1>2, <2>1, <2>2 DEF Selected, Owned
  <1>7. CASE SweepRemoves \/ SweepDeletesRow \/ SweepRemovesOrphan \/ SweepRests
             \/ SweepPasses \/ SweepFails
    <2>1. CASE SweepRemoves
      BY <1>0, <1>3, <2>1 DEF SweepRemoves
    <2>2. CASE SweepDeletesRow
      BY <1>1, <1>3, <2>2 DEF SweepDeletesRow
    <2>3. CASE SweepRemovesOrphan \/ SweepPasses
      BY <1>0, <1>3, <2>3 DEF SweepRemovesOrphan, SweepPasses
    <2>4. CASE SweepRests
      BY <1>1, <1>3, <2>4 DEF SweepRests
    <2>5. CASE SweepFails
      BY <1>3, <2>5 DEF SweepFails
    <2> QED BY <1>7, <2>1, <2>2, <2>3, <2>4, <2>5
  <1>8. ASSUME NEW r \in Requests, Open(r) \/ PutChunk(r) \/ Abandon(r)
        PROVE  Dead
    <2>1. UNCHANGED sweep
      BY <1>8 DEF Open, OpenReads, OpenReplaces, OpenClears, OpenInserts, OpenMakesDirectory,
                  PutChunk, PutReads, PutPlaces, PutRecords, Abandon
    <2> QED BY <1>3, <2>1
  <1>9. ASSUME NEW r \in Requests, Finalize(r) \/ EndDelivery(r)
        PROVE  Dead
    <2>1. UNCHANGED sweep
      BY <1>9 DEF Finalize, FinalizeReads, FinalizeCreates, FinalizeCopies, FinalizeVerifies,
                  FinalizeSends, FinalizeStores, FinalizeTidies, EndDelivery, EndsRow,
                  EndsOperation, EndsFiles
    <2> QED BY <1>3, <2>1
  <1>10. CASE Prepare \/ OperationEnds \/ TransferExpires \/ UNCHANGED vars
    <2>1. UNCHANGED sweep
      BY <1>10 DEF Prepare, OperationEnds, TransferExpires, vars
    <2> QED BY <1>3, <2>1
  <1> HIDE DEF Dead
  <1> QED BY <1>4, <1>5, <1>6, <1>7, <1>8, <1>9, <1>10 DEF Next, SweepStep, Dead

LEMMA BytesAtFirst == Init => BytesInv
  BY DEF Init, BytesInv, Known, Selected, Over, Idle, NoDirectory

LEMMA BytesNext ==
    TransferInv /\ BytesInv /\ [Next]_vars => BytesInv' /\ BytesStay
  BY NothingIsRevived, RequestsGoOn, DirectoriesAreKept, SelectionStaysDead
     DEF BytesInv, Known, DirectoriesGoOn

(* What was staged for a session that can be finalized is not taken by the *)
(* reaper, by an open that replaces an older session, or by the end of     *)
(* another request (sweep_once, open_transfer, finalize_transfer).         *)
THEOREM LiveBytesAlwaysStay == Spec => LiveBytesStay
  <1>1. Spec => [](TransferInv /\ BytesInv)
    BY InitHolds, StepHolds, BytesAtFirst, BytesNext, PTL DEF Spec
  <1>2. TransferInv /\ BytesInv /\ [Next]_vars => [BytesStay]_vars
    BY BytesNext
  <1> QED BY <1>1, <1>2, PTL DEF Spec, LiveBytesStay, BytesStay

(* A session leaves "open" once, and a token that lost its row never has   *)
(* one again (finalize_transfer, end_delivery, open_transfer).             *)
THEOREM SessionsEndOnce == Spec => SessionEndsOnce
  <1> DEFINE EndsOnce ==
        \A t \in Tokens :
          transfer'.token = t =>
            \/ transfer.token = t /\ transfer.state \in {"open", transfer'.state}
            \/ transfer.token # t /\ t > minted
  <1>1. ASSUME TransferInv, [Next]_vars
        PROVE  [EndsOnce]_vars
    <2>1. RowSteps
      BY <1>1, RowTakesAStep
    <2>3. minted \in Nat /\ 0 \notin Tokens
      <3>1. minted \in Tokens \cup {0}
        BY <1>1, Parted DEF Tables
      <3> QED BY <3>1, TokensAreNaturals
    <2>4. NoTransfer.token = 0 /\ [NoTransfer EXCEPT !.token = minted + 1].token = minted + 1
      BY DEF NoTransfer
    <2>5. ASSUME NEW t \in Tokens, transfer'.token = t
          PROVE  \/ transfer.token = t /\ transfer.state \in {"open", transfer'.state}
                 \/ transfer.token # t /\ t > minted
      <3>1. CASE UNCHANGED <<transfer, minted>>
        BY <2>5, <3>1
      <3>2. CASE transfer' = NoTransfer
        BY <2>3, <2>4, <2>5, <3>2
      <3>3. CASE transfer'.token = transfer.token /\ transfer.state \in {"open", transfer'.state}
        BY <2>5, <3>3
      <3>4. CASE transfer.token = 0 /\ transfer' = [NoTransfer EXCEPT !.token = minted + 1]
        BY <2>3, <2>4, <2>5, <3>4
      <3> QED BY <2>1, <3>1, <3>2, <3>3, <3>4 DEF RowSteps
    <2> QED BY <2>5
  <1> QED BY <1>1, InvHolds, PTL DEF Spec, SessionEndsOnce

=============================================================================
