---------------------------- MODULE OperationsProofs ----------------------------
(***************************************************************************)
(* What the client reports of its file requests and backups is true, for   *)
(* any number of requests, any chunk size and file length, any number of   *)
(* servers and of archives kept.                                           *)
(***************************************************************************)
EXTENDS Operations, FiniteSetTheorems, TLAPS

-------------------------------------------------------------------------------
(* Backups *)

\* The archive under way is there and not reported; what is about to be deleted is of its
\* server and has Keep newer ones beside it.
BackupInv ==
  /\ step # "cleaning" => doomed = {}
  /\ step # "none" => Len(asked) > 0 /\ Current \notin reported /\ Current \in archives
  /\ step = "archiving" => Current \notin whole
  /\ \A i \in doomed : asked[i].server = asked[Current].server /\ TooOld(i)

\* The archives newer than one are finitely many, and at least as many as some of them.
LEMMA NewerIsFinite ==
  ASSUME BackupTypeOK, NEW S \in SUBSET archives
  PROVE  /\ IsFiniteSet(S) /\ Cardinality(S) \in Nat
         /\ \A R \in SUBSET S : Cardinality(R) \in Nat /\ Cardinality(R) <= Cardinality(S)
<1>1. IsFiniteSet(Numbers)  BY FS_Interval DEF BackupTypeOK, Numbers
<1>2. IsFiniteSet(S)  BY <1>1, FS_Subset DEF BackupTypeOK
<1>3. ASSUME NEW R \in SUBSET S
      PROVE  Cardinality(R) \in Nat /\ Cardinality(R) <= Cardinality(S)
  <2>1. IsFiniteSet(R) /\ Cardinality(R) <= Cardinality(S)  BY <1>2, FS_Subset
  <2>2. QED  BY <2>1, FS_CardinalityType
<1>4. QED  BY <1>2, <1>3, FS_CardinalityType

\* What a step may do to the archives whose success was reported.
KeepsBackups ==
  /\ reported' \ reported \subseteq archives'
  /\ \A i \in reported \cap archives : i \in archives' \/ Replaced(i)
  /\ \A i \in reported \cap whole : i \in whole' \/ Replaced(i)

\* Every step of a backup keeps what was reported (executeBackup, cleanOldBackups).
LEMMA BackupSteps ==
  ASSUME BackupTypeOK, BackupInv, BackupStep \/ BackupsEnd
  PROVE  BackupTypeOK' /\ BackupInv' /\ KeepsBackups
<1> USE BackupsAssumption
<1>1. ASSUME NEW s \in Servers, NEW second \in 0..MaxSecond, BeginBackup(s, second)
      PROVE  BackupTypeOK' /\ BackupInv' /\ KeepsBackups
  <2> DEFINE name == [server |-> s, second |-> second]
             others == {i \in archives : asked[i] # name}
  <2>1. /\ step = "none" /\ Len(asked) < MaxBackups
        /\ asked' = Append(asked, name)
        /\ archives' = others \cup {Len(asked) + 1}
        /\ whole' = whole \cap others
        /\ step' = "archiving" /\ UNCHANGED <<doomed, reported>>
    BY <1>1 DEF BeginBackup
  <2>2. Len(asked') = Len(asked) + 1 /\ asked' \in Seq([server : Servers, second : 0..MaxSecond])
    BY <2>1 DEF BackupTypeOK
  <2>3. doomed' = {}  BY <2>1 DEF BackupInv
  <2>4. BackupTypeOK'
    <3>1. others \subseteq archives  OBVIOUS
    <3>2. Numbers' = Numbers \cup {Len(asked) + 1}  BY <2>2 DEF Numbers, BackupTypeOK
    <3> HIDE DEF name, others
    <3>3. archives' \subseteq Numbers' /\ whole' \subseteq archives' /\ reported' \subseteq Numbers'
      BY <2>1, <3>1, <3>2 DEF BackupTypeOK
    <3>4. Len(asked') <= MaxBackups  BY <2>1, <2>2 DEF BackupTypeOK
    <3>5. QED  BY <2>1, <2>2, <2>3, <3>3, <3>4 DEF BackupTypeOK
  <2>5. BackupInv'
    BY <2>1, <2>2, <2>3 DEF BackupInv, BackupTypeOK, Current, Numbers
  <2>6. ASSUME NEW i \in archives, i \notin others  PROVE Namesakes(i)' # Namesakes(i)
    <3>1. i \in Numbers /\ asked[i] = name  BY <2>6 DEF BackupTypeOK
    <3>2. asked'[i] = name /\ asked'[Len(asked) + 1] = name /\ Len(asked) + 1 > i
      BY <2>1, <3>1 DEF BackupTypeOK, Numbers
    <3>3. Len(asked) + 1 \in Namesakes(i)'  BY <2>2, <3>2 DEF Namesakes, Numbers, BackupTypeOK
    <3>4. Len(asked) + 1 \notin Namesakes(i)  BY DEF Namesakes, Numbers, BackupTypeOK
    <3>5. QED  BY <3>3, <3>4
  <2> HIDE DEF name, others
  <2>7. KeepsBackups
    BY <2>1, <2>6 DEF KeepsBackups, Replaced, BackupTypeOK
  <2>8. QED  BY <2>4, <2>5, <2>7
<1>2. CASE ArchiveFails
  BY <1>2 DEF ArchiveFails, BackupTypeOK, BackupInv, KeepsBackups, Current, Numbers
<1>3. CASE ArchiveDone
  <2> DEFINE D == {i \in archives : asked[i].server = asked[Current].server /\ TooOld(i)}
  <2>1. /\ step = "archiving" /\ step' = "cleaning"
        /\ whole' \in {whole, whole \cup {Current}} /\ doomed' = D
        /\ UNCHANGED <<asked, archives, reported>>
    BY <1>3 DEF ArchiveDone
  <2>2. Current \in archives  BY <2>1 DEF BackupInv
  <2>3. \A i \in D : asked[i].server = asked[Current].server /\ TooOld(i)  OBVIOUS
  <2>4. D \subseteq archives  OBVIOUS
  <2> HIDE DEF D
  <2>5. BackupTypeOK'
    BY <2>1, <2>2, <2>4 DEF BackupTypeOK, Numbers
  <2>6. BackupInv'
    BY <2>1, <2>2, <2>3 DEF BackupInv, Current, Numbers, TooOld, Newer
  <2>7. KeepsBackups
    BY <2>1 DEF KeepsBackups, BackupTypeOK
  <2>8. QED  BY <2>5, <2>6, <2>7
<1>4. CASE DeleteOld
  <2>1. PICK i \in doomed :
          /\ \A j \in doomed : j <= i
          /\ doomed' = doomed \ {i}
          /\ \/ archives' = archives \ {i} /\ whole' = whole \ {i}
             \/ UNCHANGED <<archives, whole>>
    BY <1>4 DEF DeleteOld
  <2>2. step = "cleaning" /\ UNCHANGED <<asked, step, reported>>  BY <1>4 DEF DeleteOld
  <2>3. TooOld(i) /\ asked[i].server = asked[Current].server  BY DEF BackupInv
  <2>4. i # Current
    <3>1. Newer(Current) = {}
      <4>1. \A j \in archives : j \in Nat /\ Len(asked) \in Nat /\ ~(j > Len(asked))
        BY DEF Numbers, BackupTypeOK
      <4>2. QED  BY <4>1, Zenon DEF Newer, Current
    <3>2. Cardinality(Newer(Current)) = 0  BY <3>1, FS_EmptySet
    <3>3. QED  BY <2>3, <3>2 DEF TooOld
  <2>5. BackupTypeOK'
    <3>1. whole' \subseteq archives' /\ doomed' \subseteq archives' /\ archives' \subseteq archives
      BY <2>1 DEF BackupTypeOK
    <3>2. QED  BY <2>2, <3>1 DEF BackupTypeOK, Numbers
  <2>6. ASSUME NEW j \in doomed \ {i}  PROVE TooOld(j)'
    <3>1. asked[j].server = asked[i].server  BY <2>3 DEF BackupInv
    <3>2. i \in Nat /\ j \in Nat /\ j <= i  BY <2>1 DEF BackupTypeOK, Numbers
    <3>3. Newer(i) \subseteq Newer(j)' /\ Newer(j)' \subseteq archives'
      <4>1. asked' = asked  BY <2>2
      <4>2. Newer(j)' = {k \in archives' : asked[k].server = asked[j].server /\ k > j}
        BY <4>1 DEF Newer
      <4>3. \A k \in archives : k \in Nat /\ (k > i => k > j /\ k \in archives')
        BY <2>1, <3>2 DEF BackupTypeOK, Numbers
      <4>4. QED  BY <3>1, <4>2, <4>3 DEF Newer
    <3>4. Newer(j)' \in SUBSET archives  BY <2>1, <3>3
    <3>5. /\ Cardinality(Newer(i)) \in Nat /\ Cardinality(Newer(j)') \in Nat
          /\ Cardinality(Newer(i)) <= Cardinality(Newer(j)')
      BY <3>3, <3>4, NewerIsFinite
    <3>6. QED  BY <2>3, <3>5 DEF TooOld
  <2>7. BackupInv'
    BY <2>1, <2>2, <2>4, <2>6 DEF BackupInv, Current
  <2>8. KeepsBackups
    BY <2>1, <2>2, <2>3 DEF KeepsBackups, Replaced, TooOld
  <2>9. QED  BY <2>5, <2>7, <2>8
<1>5. CASE ReportBackup
  <2>1. Current \in archives  BY <1>5 DEF ReportBackup, BackupInv
  <2>2. QED
    BY <1>5, <2>1 DEF ReportBackup, BackupTypeOK, BackupInv, KeepsBackups, Current, Numbers
<1>6. CASE BackupsEnd
  BY <1>6 DEF BackupsEnd, BackupTypeOK, BackupInv, KeepsBackups, Current, Numbers
<1>7. QED  BY <1>1, <1>2, <1>3, <1>4, <1>5, <1>6 DEF BackupStep

-------------------------------------------------------------------------------
(* Chunks *)

\* More chunks are longer.
LEMMA Monotone ==
  ASSUME NEW c \in Nat, NEW a \in Nat, NEW b \in Nat, a <= b
  PROVE  a * c <= b * c
OBVIOUS

\* The chunk with number k of a file of L units: it begins within the file, it is the
\* last exactly when it reaches the end, and its number is found from its position
\* (sendStringChunks and sendFileChunks).
LEMMA ChunkArithmetic ==
  ASSUME NEW L \in Nat, NEW k \in Nat, k < ChunkCount(L)
  PROVE  /\ (k * ChunkSize) \div ChunkSize = k /\ k * ChunkSize \in Nat
         /\ k * ChunkSize <= L
         /\ k = ChunkCount(L) - 1 => L <= k * ChunkSize + ChunkSize
         /\ k # ChunkCount(L) - 1 =>
              /\ k + 1 < ChunkCount(L)
              /\ (k + 1) * ChunkSize = k * ChunkSize + ChunkSize
              /\ k * ChunkSize + ChunkSize <= L
<1>1. ChunkSize \in Nat /\ ChunkSize > 0  BY TransfersAssumption
<1>2. (k * ChunkSize) \div ChunkSize = k /\ k * ChunkSize \in Nat  BY <1>1
<1>3. CASE L = 0
  <2>1. k = 0 /\ ChunkCount(L) = 1  BY <1>3 DEF ChunkCount
  <2>2. QED  BY <1>1, <1>2, <1>3, <2>1
<1>4. CASE L # 0
  <2> DEFINE m == (L + ChunkSize - 1) \div ChunkSize
  <2>1. ChunkCount(L) = m  BY <1>4 DEF ChunkCount
  <2>2. m \in Nat /\ m * ChunkSize <= L + ChunkSize - 1 /\ L + ChunkSize - 1 < m * ChunkSize + ChunkSize
    <3>1. \A n \in Nat : n \div ChunkSize \in Nat /\ (n \div ChunkSize) * ChunkSize <= n
                         /\ n < (n \div ChunkSize) * ChunkSize + ChunkSize
      BY <1>1
    <3>2. L + ChunkSize - 1 \in Nat  BY <1>1
    <3>3. QED  BY <3>1, <3>2
  <2> HIDE DEF m
  <2>3. k * ChunkSize + ChunkSize = (k + 1) * ChunkSize /\ k + 1 <= m
    BY <1>1, <2>1, <2>2
  <2>4. (k + 1) * ChunkSize <= m * ChunkSize /\ m * ChunkSize \in Nat  BY <1>1, <2>2, <2>3, Monotone
  <2>5. k * ChunkSize <= L  BY <1>1, <1>2, <2>2, <2>3, <2>4
  <2>6. k = m - 1 => L <= k * ChunkSize + ChunkSize
    <3>1. k = m - 1 => (k + 1) * ChunkSize = m * ChunkSize  BY <2>2
    <3>2. QED  BY <1>1, <1>2, <2>2, <2>3, <3>1
  <2>7. ASSUME k # m - 1  PROVE k + 1 < m /\ k * ChunkSize + ChunkSize <= L
    <3>1. k + 2 <= m  BY <2>2, <2>3, <2>7
    <3>2. (k + 2) * ChunkSize <= m * ChunkSize  BY <1>1, <2>2, <3>1, Monotone
    <3>3. (k + 2) * ChunkSize = k * ChunkSize + ChunkSize + ChunkSize  BY <1>1
    <3>4. QED  BY <1>1, <1>2, <2>2, <3>1, <3>2, <3>3, <2>4
  <2>8. QED  BY <1>2, <2>1, <2>3, <2>5, <2>6, <2>7
<1>5. QED  BY <1>3, <1>4

-------------------------------------------------------------------------------
(* File requests *)

Places == Opened \cup {"none", "begun", "opening", "judging", "ended"}
Outcomes == {"none", "busy", "error", "nothing", "ok", "done"}
Dealings == {"no", "written", "emptied"}

\* The types without the bound on the requests that run.
TransferTypes ==
  /\ exists \in BOOLEAN
  /\ units \in Seq(Requests \cup {"game", "gap"}) /\ Len(units) <= MaxLength
  /\ changes \in 0..MaxChanges
  /\ kind \in [Requests -> Kinds \cup {"none"}]
  /\ place \in [Requests -> Places]
  /\ answer \in [Requests -> Outcomes]
  /\ position \in [Requests -> 0..MaxLength] /\ size \in [Requests -> 0..MaxLength]
  /\ attempts \in [Requests -> 0..2]
  /\ touched \in [Requests -> Dealings]

\* A request stands where its kind leads it, and is answered when it has ended.
InPlace(r) ==
  /\ place[r] = "none" => kind[r] = "none"
  /\ place[r] \in {"opening", "reading"} => kind[r] = "read"
  /\ place[r] \in {"streaming", "judging"} => kind[r] = "upload"
  /\ place[r] = "writing" => kind[r] = "write" /\ position[r] <= size[r]
  /\ place[r] # "ended" => answer[r] = "none"
  /\ place[r] \in {"none", "begun"} /\ kind[r] # "upload" => position[r] = 0

\* A read stands at the beginning of a chunk it has counted.
AtChunk(r) ==
  \E k \in Nat : position[r] = k * ChunkSize /\ k < ChunkCount(size[r])

\* What a writer has written is there, its own or another request's.
Filled(r) ==
  /\ exists /\ position[r] <= Len(units)
  /\ \A i \in 1..position[r] : units[i] \in Requests

\* How far a request has come with a file that was not emptied under it, or that nobody
\* else has changed.
OnCourse(r) ==
  /\ touched[r] # "emptied" =>
       /\ place[r] = "opening" => size[r] <= Len(units) /\ position[r] = 0
       /\ place[r] = "reading" => size[r] <= Len(units) /\ AtChunk(r)
       /\ place[r] = "writing" => Filled(r)
  /\ touched[r] = "no" =>
       /\ place[r] \in {"opening", "reading"} => size[r] = Len(units)
       /\ place[r] = "streaming" => position[r] <= Len(units)
       /\ place[r] = "judging" => position[r] = Len(units)
       /\ place[r] = "writing" => units = [i \in 1..position[r] |-> r]

\* The reports on one request.
Reported(r) ==
  /\ answer[r] = "nothing" => touched[r] = "emptied"
  /\ kind[r] = "read" /\ answer[r] = "done" =>
       /\ touched[r] # "emptied" => position[r] >= size[r]
       /\ touched[r] = "no" => position[r] = Len(units)
  /\ kind[r] = "upload" /\ answer[r] = "ok" /\ touched[r] = "no" => position[r] = Len(units)
  /\ kind[r] = "write" /\ answer[r] = "ok" =>
       /\ touched[r] = "no" => exists /\ units = [i \in 1..size[r] |-> r]
       /\ touched[r] = "written" =>
            exists /\ Len(units) >= size[r] /\ \A i \in 1..size[r] : units[i] \in Requests

Sound(r) == InPlace(r) /\ OnCourse(r) /\ Reported(r)

TransferInv == TransferTypes /\ \A r \in Requests : Sound(r)

\* What a step of somebody else is to q: it leaves the file alone, empties it, or writes
\* without shortening it, and q has to do with that.
Empties(q) == touched'[q] = IF place[q] = "none" THEN touched[q] ELSE "emptied"
Extends(q) ==
  /\ touched'[q] = IF place[q] = "none" \/ touched[q] = "emptied" THEN touched[q] ELSE "written"
  /\ exists' = exists /\ Len(units') >= Len(units)
  /\ \A i \in 1..Len(units) : units'[i] = units[i] \/ units'[i] \in Requests
Meets(q) ==
  /\ kind'[q] = kind[q] /\ place'[q] = place[q] /\ answer'[q] = answer[q]
  /\ position'[q] = position[q] /\ size'[q] = size[q]
  /\ (UNCHANGED file /\ touched'[q] = touched[q]) \/ Empties(q) \/ Extends(q)
Spares(r) == \A q \in Requests \ {r} : Meets(q)

\* A request stays sound whatever the others do.
LEMMA StaysSound ==
  ASSUME TransferTypes, TransferTypes', NEW q \in Requests, Sound(q), Meets(q)
  PROVE  Sound(q)'
<1> USE DEF Sound, file
<1>1. /\ kind'[q] = kind[q] /\ place'[q] = place[q] /\ answer'[q] = answer[q]
      /\ position'[q] = position[q] /\ size'[q] = size[q]
      /\ (UNCHANGED file /\ touched'[q] = touched[q]) \/ Empties(q) \/ Extends(q)
  BY DEF Meets
<1>2. InPlace(q)'  BY <1>1 DEF InPlace
<1>3. CASE UNCHANGED file /\ touched'[q] = touched[q]
  BY <1>1, <1>2, <1>3 DEF OnCourse, Reported, AtChunk, Filled
<1>4. CASE place[q] = "none"
  <2>1. answer[q] = "none"  BY <1>4 DEF InPlace
  <2>2. QED  BY <1>1, <1>2, <1>4, <2>1 DEF OnCourse, Reported
<1>5. CASE Empties(q) /\ place[q] # "none"
  <2>1. touched'[q] = "emptied"  BY <1>5 DEF Empties
  <2>2. QED  BY <1>2, <2>1 DEF OnCourse, Reported
<1>6. CASE Extends(q) /\ place[q] # "none"
  <2>1. CASE touched[q] = "emptied"
    <3>1. touched'[q] = "emptied"  BY <1>6, <2>1 DEF Extends
    <3>2. QED  BY <1>2, <3>1 DEF OnCourse, Reported
  <2>2. CASE touched[q] # "emptied"
    <3>1. /\ touched'[q] = "written" /\ exists' = exists /\ Len(units') >= Len(units)
          /\ \A i \in 1..Len(units) : units'[i] = units[i] \/ units'[i] \in Requests
      BY <1>6, <2>2 DEF Extends
    <3>2. Len(units) \in Nat /\ Len(units') \in Nat /\ size[q] \in Nat /\ position[q] \in Nat
          /\ touched[q] \in {"no", "written"}
      BY <2>2, TransfersAssumption DEF TransferTypes, Dealings
    <3>3. AtChunk(q)' = AtChunk(q)  BY <1>1 DEF AtChunk, ChunkCount
    <3>4. Filled(q) => Filled(q)'
      <4>1. \A i \in 1..position[q] : position[q] <= Len(units) => i \in 1..Len(units)  BY <3>2
      <4>2. QED  BY <1>1, <3>1, <3>2, <4>1 DEF Filled
    <3>5. OnCourse(q)'
      BY <1>1, <2>2, <3>1, <3>2, <3>3, <3>4 DEF OnCourse
    <3>6. ASSUME kind[q] = "write", answer[q] = "ok"
          PROVE  exists' /\ Len(units') >= size[q] /\ \A i \in 1..size[q] : units'[i] \in Requests
      <4>1. exists /\ Len(units) >= size[q] /\ \A i \in 1..size[q] : units[i] \in Requests
        <5>1. CASE touched[q] = "no"
          <6>1. exists /\ units = [i \in 1..size[q] |-> q]  BY <3>6, <5>1 DEF Reported
          <6>2. DOMAIN units = 1..size[q] /\ DOMAIN units = 1..Len(units)
            BY <6>1 DEF TransferTypes
          <6>3. QED  BY <3>2, <6>1, <6>2
        <5>2. CASE touched[q] = "written"  BY <3>6, <5>2 DEF Reported
        <5>3. QED  BY <3>2, <5>1, <5>2
      <4>2. \A i \in 1..size[q] : i \in 1..Len(units)  BY <3>2, <4>1
      <4>3. QED  BY <3>1, <3>2, <4>1, <4>2
    <3>7. Reported(q)'  BY <1>1, <2>2, <3>1, <3>2, <3>6 DEF Reported
    <3>8. QED  BY <1>2, <3>5, <3>7
  <2>3. QED  BY <2>1, <2>2
<1>7. QED  BY <1>1, <1>3, <1>4, <1>5, <1>6

\* The others stay sound.
LEMMA OthersStaySound ==
  ASSUME TransferInv, NEW r \in Requests, Spares(r), TransferTypes', Sound(r)'
  PROVE  TransferInv'
<1>1. ASSUME NEW q \in Requests, q # r  PROVE Sound(q)'
  BY <1>1, StaysSound DEF TransferInv, Spares
<1>2. QED  BY <1>1 DEF TransferInv

\* A step that leaves the file and the progress alone and ends in an answer that claims
\* nothing.
LEMMA EndsQuietly ==
  ASSUME TransferInv, NEW r \in Requests, NEW what \in {"busy", "error"},
         place' = [place EXCEPT ![r] = "ended"], answer' = [answer EXCEPT ![r] = what],
         \/ UNCHANGED kind
         \/ place[r] = "none" /\ \E k \in Kinds : kind' = [kind EXCEPT ![r] = k],
         UNCHANGED <<file, progress, touched>>
  PROVE  TransferInv'
<1> USE DEF TransferInv, file, progress
<1>1. TransferTypes'  BY DEF TransferTypes, Places, Outcomes
<1>2. Sound(r)'  BY DEF TransferTypes, Sound, InPlace, OnCourse, Reported
<1>3. Spares(r)  BY DEF Spares, Meets, TransferTypes
<1>4. QED  BY <1>1, <1>2, <1>3, OthersStaySound

\* Admission, refusals and listings claim nothing (runLimited).
LEMMA AdmissionSteps ==
  ASSUME TransferInv, NEW r \in Requests,
         \/ \E k \in Kinds : RunLimited(r, k)
         \/ Refuse(r) \/ Browse(r) \/ ReadFails(r) \/ WriteFails(r)
  PROVE  TransferInv'
<1> USE DEF Goes, Answers, TransferInv
<1>1. ASSUME NEW k \in Kinds, RunLimited(r, k)  PROVE TransferInv'
  <2>1. CASE Cardinality(Running) < MaxTransfers
    <3> USE <1>1, <2>1 DEF RunLimited, file, progress
    <3>1. TransferTypes'  BY DEF TransferTypes, Places
    <3>2. Sound(r)'  BY DEF TransferTypes, Sound, InPlace, OnCourse, Reported
    <3>3. Spares(r)  BY DEF Spares, Meets, TransferTypes
    <3>4. QED  BY <3>1, <3>2, <3>3, OthersStaySound
  <2>2. CASE ~(Cardinality(Running) < MaxTransfers)
    BY <1>1, <2>2, EndsQuietly DEF RunLimited
  <2>3. QED  BY <2>1, <2>2
<1>2. CASE Refuse(r)  BY <1>2, EndsQuietly DEF Refuse
<1>3. CASE Browse(r)
  <2> USE <1>3 DEF Browse, Begins, file, progress
  <2>1. TransferTypes'  BY DEF TransferTypes, Places, Outcomes
  <2>2. Sound(r)'
    <3>1. kind'[r] = "browse" /\ place'[r] = "ended" /\ answer'[r] = "ok"  BY DEF TransferTypes
    <3>2. QED  BY <3>1 DEF Sound, InPlace, OnCourse, Reported
  <2>3. Spares(r)  BY DEF Spares, Meets, TransferTypes
  <2>4. QED  BY <2>1, <2>2, <2>3, OthersStaySound
<1>4. CASE ReadFails(r)  BY <1>4, EndsQuietly DEF ReadFails
<1>5. CASE WriteFails(r)  BY <1>5, EndsQuietly DEF WriteFails
<1>6. QED  BY <1>1, <1>2, <1>3, <1>4, <1>5

\* A file that is sent goes out chunk by chunk to its end (sendFileChunks).
LEMMA ReadSteps ==
  ASSUME TransferInv, NEW r \in Requests, StatFile(r) \/ OpenFile(r) \/ SendChunk(r)
  PROVE  TransferInv'
<1> USE DEF Goes, Answers, TransferInv, file, progress
<1>0. ChunkSize \in Nat /\ ChunkSize > 0 /\ MaxLength \in Nat  BY TransfersAssumption
<1>1. CASE StatFile(r)
  <2> USE <1>1 DEF StatFile, Begins
  <2>1. TransferTypes'  BY DEF TransferTypes, Places, Dealings
  <2>2. Sound(r)'  BY DEF TransferTypes, Sound, InPlace, OnCourse, Reported
  <2>3. Spares(r)  BY DEF Spares, Meets, TransferTypes
  <2>4. QED  BY <2>1, <2>2, <2>3, OthersStaySound
<1>2. CASE OpenFile(r)
  <2>1. CASE ~exists  BY <1>2, <2>1, EndsQuietly DEF OpenFile
  <2>2. CASE exists
    <3> USE <1>2, <2>2 DEF OpenFile
    <3>1. TransferTypes'  BY DEF TransferTypes, Places, Opened
    <3>2. Sound(r)'
      <4>1. InPlace(r)' /\ Reported(r)'
        BY DEF TransferTypes, Sound, InPlace, OnCourse, Reported
      <4>2. touched[r] # "emptied" => size[r] <= Len(units) /\ AtChunk(r)
        <5>1. 0 = 0 * ChunkSize /\ 0 \in Nat  BY <1>0
        <5>2. 0 < ChunkCount(size[r])
          <6>1. size[r] \in Nat  BY <1>0 DEF TransferTypes
          <6>2. CASE size[r] = 0  BY <6>2 DEF ChunkCount
          <6>3. CASE size[r] # 0
            <7>1. size[r] + ChunkSize - 1 >= ChunkSize /\ size[r] + ChunkSize - 1 \in Nat
              BY <1>0, <6>1, <6>3
            <7>2. \A n \in Nat : n >= ChunkSize => n \div ChunkSize > 0  BY <1>0
            <7>3. QED  BY <6>3, <7>1, <7>2 DEF ChunkCount
          <6>4. QED  BY <6>2, <6>3
        <5>3. QED  BY <5>1, <5>2 DEF Sound, OnCourse, AtChunk
      <4>3. QED
        BY <4>1, <4>2 DEF TransferTypes, Sound, OnCourse, AtChunk
    <3>3. Spares(r)  BY DEF Spares, Meets, TransferTypes
    <3>4. QED  BY <3>1, <3>2, <3>3, OthersStaySound
  <2>3. QED  BY <2>1, <2>2
<1>3. CASE SendChunk(r)
  <2> DEFINE next == NextPiece(r)
             last == position[r] \div ChunkSize = ChunkCount(size[r]) - 1
             short == next < ChunkSize
  <2>1. /\ place[r] = "reading"
        /\ position' = [position EXCEPT ![r] = @ + next]
        /\ IF last THEN Answers(r, "done")
           ELSE IF short THEN Answers(r, "nothing")
           ELSE UNCHANGED <<kind, place, answer>>
        /\ UNCHANGED <<file, size, attempts, touched>>
    BY <1>3 DEF SendChunk
  <2>2. Len(units) \in Nat /\ position[r] \in Nat /\ size[r] \in Nat /\ Len(units) <= MaxLength
    BY <1>0 DEF TransferTypes
  <2>3. /\ next \in Nat
        /\ Len(units) >= position[r] + ChunkSize => next = ChunkSize
        /\ Len(units) < position[r] + ChunkSize /\ Len(units) >= position[r] =>
             position[r] + next = Len(units)
        /\ next > 0 => position[r] + next <= Len(units)
    BY <1>0, <2>2 DEF NextPiece
  <2> HIDE DEF next
  <2>4. position'[r] = position[r] + next /\ position'[r] \in 0..MaxLength
    BY <1>0, <2>1, <2>2, <2>3 DEF TransferTypes
  <2>5. TransferTypes'
    BY <2>1, <2>4 DEF TransferTypes, Places, Outcomes
  <2>6. ASSUME touched[r] # "emptied"
        PROVE  /\ last => position'[r] >= size[r]
               /\ last /\ touched[r] = "no" => position'[r] = Len(units)
               /\ ~last => ~short /\ AtChunk(r)'
    <3>1. size[r] <= Len(units) /\ (touched[r] = "no" => size[r] = Len(units))
      BY <2>1, <2>6 DEF Sound, OnCourse
    <3>2. PICK k \in Nat : position[r] = k * ChunkSize /\ k < ChunkCount(size[r])
      BY <2>1, <2>6 DEF Sound, OnCourse, AtChunk
    <3>3. /\ position[r] \div ChunkSize = k /\ position[r] <= size[r]
          /\ k = ChunkCount(size[r]) - 1 => size[r] <= position[r] + ChunkSize
          /\ k # ChunkCount(size[r]) - 1 =>
               /\ k + 1 < ChunkCount(size[r])
               /\ (k + 1) * ChunkSize = position[r] + ChunkSize
               /\ position[r] + ChunkSize <= size[r]
      BY <2>2, <3>2, ChunkArithmetic
    <3>4. CASE last
      <4>1. size[r] <= position[r] + ChunkSize  BY <3>3, <3>4
      <4>2. QED  BY <1>0, <2>2, <2>3, <2>4, <3>1, <3>3, <3>4, <4>1
    <3>5. CASE ~last
      <4>1. k + 1 < ChunkCount(size[r]) /\ (k + 1) * ChunkSize = position[r] + ChunkSize /\ next = ChunkSize
        BY <1>0, <2>2, <2>3, <3>1, <3>3, <3>5
      <4>2. position'[r] = (k + 1) * ChunkSize  BY <2>4, <4>1
      <4>3. size'[r] = size[r] /\ ChunkCount(size'[r]) = ChunkCount(size[r])  BY <2>1
      <4>4. AtChunk(r)'
        <5>1. position'[r] = (k + 1) * ChunkSize /\ k + 1 < ChunkCount(size'[r]) /\ k + 1 \in Nat
          BY <4>1, <4>2, <4>3
        <5>2. \E j \in Nat : position'[r] = j * ChunkSize /\ j < ChunkCount(size'[r])  BY <5>1
        <5>3. QED  BY <5>2 DEF AtChunk, ChunkCount
      <4>5. QED  BY <1>0, <3>5, <4>1, <4>4
    <3>6. QED  BY <3>4, <3>5
  <2>7. Spares(r)  BY <2>1 DEF Spares, Meets, TransferTypes
  <2> HIDE DEF last, short
  <2>8. kind[r] = "read" /\ answer[r] = "none"  BY <2>1 DEF Sound, InPlace
  <2>9. Sound(r)'
    <3>1. CASE last
      BY <2>1, <2>6, <2>8, <3>1 DEF TransferTypes, Sound, InPlace, OnCourse, Reported
    <3>2. CASE ~last /\ short
      BY <2>1, <2>6, <2>8, <3>2 DEF TransferTypes, Sound, InPlace, OnCourse, Reported
    <3>3. CASE ~last /\ ~short
      BY <2>1, <2>6, <2>8, <3>3 DEF TransferTypes, Sound, InPlace, OnCourse, Reported
    <3>4. QED  BY <3>1, <3>2, <3>3
  <2>10. QED  BY <2>5, <2>7, <2>9, OthersStaySound
<1>4. QED  BY <1>1, <1>2, <1>3

\* What is accepted was streamed to its end (newStreamingMultipartBody).
LEMMA UploadSteps ==
  ASSUME TransferInv, NEW r \in Requests,
         BeginUpload(r) \/ StreamPiece(r) \/ JudgeUpload(r) \/ RetryUpload(r)
  PROVE  TransferInv'
<1> USE DEF Goes, Answers, TransferInv, file, progress
<1>0. ChunkSize \in Nat /\ ChunkSize > 0 /\ MaxLength \in Nat  BY TransfersAssumption
<1>1. CASE BeginUpload(r)
  <2> USE <1>0, <1>1 DEF BeginUpload, Begins
  <2>1. TransferTypes'
    <3>1. attempts[r] \in 0..1  BY DEF TransferTypes
    <3>2. attempts' \in [Requests -> 0..2]  BY <3>1 DEF TransferTypes
    <3>3. position' \in [Requests -> 0..MaxLength]  BY DEF TransferTypes
    <3>4. QED  BY <3>2, <3>3 DEF TransferTypes, Places, Opened, Dealings
  <2>2. Sound(r)'  BY DEF TransferTypes, Sound, InPlace, OnCourse, Reported
  <2>3. Spares(r)  BY DEF Spares, Meets, TransferTypes
  <2>4. QED  BY <2>1, <2>2, <2>3, OthersStaySound
<1>2. CASE StreamPiece(r)
  <2> DEFINE next == NextPiece(r)
  <2>1. /\ place[r] = "streaming"
        /\ position' = [position EXCEPT ![r] = @ + next]
        /\ IF next = 0 THEN Goes(r, "judging") ELSE UNCHANGED <<kind, place>>
        /\ UNCHANGED <<file, answer, size, attempts, touched>>
    BY <1>2 DEF StreamPiece
  <2>2. Len(units) \in Nat /\ position[r] \in Nat /\ Len(units) <= MaxLength
    BY <1>0 DEF TransferTypes
  <2>3. /\ next \in Nat
        /\ next > 0 => position[r] + next <= Len(units)
        /\ next = 0 => position[r] >= Len(units)
    BY <1>0, <2>2 DEF NextPiece
  <2> HIDE DEF next
  <2>4. position'[r] = position[r] + next /\ position'[r] \in 0..MaxLength
    BY <1>0, <2>1, <2>2, <2>3 DEF TransferTypes
  <2>5. TransferTypes'
    BY <2>1, <2>4 DEF TransferTypes, Places, Outcomes
  <2>6. Spares(r)  BY <2>1 DEF Spares, Meets, TransferTypes
  <2>7. kind[r] = "upload" /\ answer[r] = "none"  BY <2>1 DEF Sound, InPlace
  <2>8. touched[r] = "no" => position[r] <= Len(units)  BY <2>1 DEF Sound, OnCourse
  <2>9. Sound(r)'
    <3>1. CASE next = 0
      BY <2>1, <2>2, <2>3, <2>4, <2>7, <2>8, <3>1
         DEF TransferTypes, Sound, InPlace, OnCourse, Reported
    <3>2. CASE next # 0
      BY <2>1, <2>2, <2>3, <2>4, <2>7, <2>8, <3>2
         DEF TransferTypes, Sound, InPlace, OnCourse, Reported
    <3>3. QED  BY <3>1, <3>2
  <2>10. QED  BY <2>5, <2>6, <2>9, OthersStaySound
<1>3. CASE JudgeUpload(r)
  <2>1. place[r] = "judging" /\ UNCHANGED <<file, progress, touched>>  BY <1>3 DEF JudgeUpload
  <2>2. CASE Answers(r, "error")  BY <2>1, <2>2, EndsQuietly
  <2>3. CASE Answers(r, "ok")
    <3> USE <2>1, <2>3
    <3>1. TransferTypes'  BY DEF TransferTypes, Places, Outcomes
    <3>2. Sound(r)'  BY DEF TransferTypes, Sound, InPlace, OnCourse, Reported
    <3>3. Spares(r)  BY DEF Spares, Meets, TransferTypes
    <3>4. QED  BY <3>1, <3>2, <3>3, OthersStaySound
  <2>4. QED  BY <1>3, <2>2, <2>3 DEF JudgeUpload
<1>4. CASE RetryUpload(r)
  <2> USE <1>4 DEF RetryUpload
  <2>1. TransferTypes'  BY DEF TransferTypes, Places
  <2>2. Sound(r)'  BY DEF TransferTypes, Sound, InPlace, OnCourse, Reported
  <2>3. Spares(r)  BY DEF Spares, Meets, TransferTypes
  <2>4. QED  BY <2>1, <2>2, <2>3, OthersStaySound
<1>5. QED  BY <1>1, <1>2, <1>3, <1>4

\* What is answered as written is there, unit by unit (handleFileWrite, downloadFileFromURL).
LEMMA WriteSteps ==
  ASSUME TransferInv, NEW r \in Requests,
         BeginWrite(r) \/ WritePiece(r) \/ EndWrite(r) \/ Delete(r)
  PROVE  TransferInv'
<1> USE DEF Goes, Answers, TransferInv, file, progress
<1>0. MaxLength \in Nat  BY TransfersAssumption
<1>1. CASE BeginWrite(r)
  <2>1. PICK n \in 0..MaxLength : size' = [size EXCEPT ![r] = n]  BY <1>1 DEF BeginWrite
  <2> USE <1>0, <1>1, <2>1 DEF BeginWrite, Begins
  <2>2. units' = <<>> /\ Len(units') = 0 /\ units' \in Seq(Requests \cup {"game", "gap"})
    OBVIOUS
  <2>3. TransferTypes'  BY <2>2 DEF TransferTypes, Places, Opened, Dealings
  <2>4. units' = [i \in 1..0 |-> r]  BY <2>2
  <2>5. position'[r] = 0 /\ place'[r] = "writing" /\ kind'[r] = "write" /\ answer'[r] = "none"
        /\ size'[r] \in Nat /\ exists'
    BY DEF TransferTypes, Sound, InPlace
  <2>6. Sound(r)'  BY <2>2, <2>4, <2>5 DEF Sound, InPlace, OnCourse, Reported, Filled
  <2>7. Spares(r)  BY DEF Spares, Meets, Empties, TransferTypes
  <2>8. QED  BY <2>3, <2>6, <2>7, OthersStaySound
<1>2. CASE WritePiece(r)
  <2> DEFINE end == position[r] + 1
             length == IF Len(units) < end THEN end ELSE Len(units)
  <2>1. /\ place[r] = "writing" /\ position[r] < size[r]
        /\ units' = [i \in 1..length |->
                       IF i = end THEN r ELSE IF i <= Len(units) THEN units[i] ELSE "gap"]
        /\ position' = [position EXCEPT ![r] = end]
        /\ touched' = [q \in Requests |->
                         IF q = r \/ place[q] = "none" \/ touched[q] = "emptied"
                         THEN touched[q] ELSE "written"]
        /\ UNCHANGED <<exists, changes, kind, place, answer, size, attempts>>
    BY <1>2 DEF WritePiece, Touch
  <2>2. /\ position[r] \in Nat /\ size[r] \in Nat /\ size[r] <= MaxLength
        /\ end \in 1..MaxLength /\ length \in 1..MaxLength
    BY <1>0, <2>1 DEF TransferTypes
  <2>3. units' \in Seq(Requests \cup {"game", "gap"}) /\ Len(units') = length
    <3>1. \A i \in 1..Len(units) : units[i] \in Requests \cup {"game", "gap"}
      BY DEF TransferTypes
    <3> DEFINE F == [i \in 1..length |->
                       IF i = end THEN r ELSE IF i <= Len(units) THEN units[i] ELSE "gap"]
    <3>2. \A i \in 1..length : F[i] \in Requests \cup {"game", "gap"}
      BY <2>2, <3>1 DEF TransferTypes
    <3>3. F \in [1..length -> Requests \cup {"game", "gap"}]  BY <3>2
    <3>4. units' = F  BY <2>1
    <3> HIDE DEF F
    <3>5. QED  BY <2>2, <3>3, <3>4
  <2>4. TransferTypes'
    BY <2>1, <2>2, <2>3 DEF TransferTypes, Dealings
  <2>5. kind[r] = "write" /\ answer[r] = "none"  BY <2>1 DEF Sound, InPlace
  <2>11. ASSUME touched[r] # "emptied"  PROVE Filled(r)'
    <3>1. Filled(r)  BY <2>1, <2>11 DEF Sound, OnCourse
    <3>2. position'[r] = end /\ exists' = exists  BY <2>1 DEF TransferTypes
    <3>3. \A i \in 1..end : i \in 1..length /\ (i # end => i \in 1..position[r] /\ i <= Len(units))
      BY <2>2, <3>1 DEF Filled, TransferTypes
    <3>4. \A i \in 1..end : units'[i] \in Requests  BY <2>1, <3>1, <3>3 DEF Filled
    <3>5. end <= length  BY <2>2
    <3>6. QED  BY <2>3, <3>1, <3>2, <3>4, <3>5 DEF Filled
  <2>12. /\ exists' = exists /\ Len(units') >= Len(units)
         /\ \A i \in 1..Len(units) : units'[i] = units[i] \/ units'[i] \in Requests
    <3>1. Len(units) \in Nat /\ length >= Len(units)  BY <2>2 DEF TransferTypes
    <3>2. \A i \in 1..Len(units) : i \in 1..length /\ i <= Len(units)  BY <2>2, <3>1
    <3>3. QED  BY <2>1, <2>3, <3>1, <3>2
  <2>6. ASSUME touched[r] = "no"  PROVE units' = [i \in 1..end |-> r]
    <3>1. exists /\ units = [i \in 1..position[r] |-> r]  BY <2>1, <2>6 DEF Sound, OnCourse, Filled
    <3>2. Len(units) = position[r]
      <4>1. DOMAIN units = 1..position[r]  BY <3>1
      <4>2. DOMAIN units = 1..Len(units) /\ Len(units) \in Nat  BY DEF TransferTypes
      <4>3. QED  BY <2>2, <4>1, <4>2
    <3>3. length = end  BY <2>2, <3>2
    <3>4. \A i \in 1..end : i # end => i \in 1..position[r] /\ i <= Len(units)  BY <2>2, <3>2
    <3>5. \A i \in 1..end : units'[i] = r  BY <2>1, <2>2, <3>1, <3>3, <3>4
    <3>6. QED  BY <2>1, <3>1, <3>3, <3>5
  <2>7. position'[r] = end /\ end <= size[r] /\ place'[r] = "writing" /\ touched'[r] = touched[r]
    BY <2>1, <2>2 DEF TransferTypes
  <2> HIDE DEF end, length
  <2>8. Sound(r)'
    BY <2>1, <2>5, <2>6, <2>7, <2>11 DEF Sound, InPlace, OnCourse, Reported
  <2>9. Spares(r)  BY <2>1, <2>12 DEF Spares, Meets, Extends, TransferTypes
  <2>10. QED  BY <2>4, <2>8, <2>9, OthersStaySound
<1>3. CASE EndWrite(r)
  <2> USE <1>3 DEF EndWrite
  <2>1. TransferTypes'  BY DEF TransferTypes, Places, Outcomes
  <2>2. Sound(r)'
    <3>1. kind[r] = "write" /\ place'[r] = "ended" /\ answer'[r] = "ok" /\ position[r] = size[r]
      BY DEF TransferTypes, Sound, InPlace
    <3>2. /\ touched[r] = "no" => exists /\ units = [i \in 1..size[r] |-> r]
          /\ touched[r] = "written" =>
               exists /\ Len(units) >= size[r] /\ \A i \in 1..size[r] : units[i] \in Requests
      BY <3>1 DEF Sound, OnCourse, Filled
    <3>3. QED  BY <3>1, <3>2 DEF Sound, InPlace, OnCourse, Reported
  <2>3. Spares(r)  BY DEF Spares, Meets, TransferTypes
  <2>4. QED  BY <2>1, <2>2, <2>3, OthersStaySound
<1>4. CASE Delete(r)
  <2> USE <1>0, <1>4 DEF Delete, Begins, Touch
  <2>1. units' = <<>> /\ Len(units') = 0 /\ units' \in Seq(Requests \cup {"game", "gap"})
    OBVIOUS
  <2>2. TransferTypes'
    <3>0. exists' \in BOOLEAN  OBVIOUS
    <3>1. Len(units') <= MaxLength
      <4> HIDE <1>4 DEF Delete
      <4>1. QED  BY <1>0, <2>1
    <3>2. place' \in [Requests -> Places] /\ answer' \in [Requests -> Outcomes]
          /\ touched' \in [Requests -> Dealings]
      BY DEF TransferTypes, Places, Outcomes, Dealings
    <3>3. QED  BY <2>1, <3>0, <3>1, <3>2 DEF TransferTypes
  <2>3. Sound(r)'
    <3>1. kind'[r] = "delete" /\ place'[r] = "ended" /\ answer'[r] = "ok"  BY DEF TransferTypes
    <3>2. QED  BY <3>1 DEF Sound, InPlace, OnCourse, Reported
  <2>4. Spares(r)  BY DEF Spares, Meets, Empties, TransferTypes
  <2>5. QED  BY <2>2, <2>3, <2>4, OthersStaySound
<1>5. QED  BY <1>1, <1>2, <1>3, <1>4

\* Requests stay sound when the game server writes or empties the file.
LEMMA GameSteps ==
  ASSUME TransferInv, GameWrites
  PROVE  TransferInv'
<1> USE DEF TransferInv
<1>1. MaxLength \in Nat /\ MaxChanges \in Nat  BY TransfersAssumption
<1>2. changes' \in 0..MaxChanges
  BY <1>1 DEF GameWrites, TransferTypes
<1>3. UNCHANGED <<exists, kind, place, answer, position, size, attempts>>
  BY DEF GameWrites, progress
<1>4. CASE Len(units) < MaxLength /\ units' = Append(units, "game") /\ Touch(Requests, "written")
  <2>1. /\ units' \in Seq(Requests \cup {"game", "gap"}) /\ Len(units') = Len(units) + 1
        /\ Len(units) \in Nat
        /\ \A i \in 1..Len(units) : units'[i] = units[i]
    BY <1>4 DEF TransferTypes
  <2>2. TransferTypes'
    BY <1>1, <1>2, <1>3, <1>4, <2>1 DEF TransferTypes, Touch, Dealings
  <2>3. ASSUME NEW q \in Requests  PROVE Extends(q)
    BY <1>3, <1>4, <2>1 DEF Extends, Touch
  <2>4. \A q \in Requests : Meets(q)  BY <1>3, <2>3 DEF Meets
  <2>5. QED  BY <2>2, <2>4, StaysSound
<1>5. CASE units' = <<>> /\ Touch(Requests, "emptied")
  <2>1. units' \in Seq(Requests \cup {"game", "gap"}) /\ Len(units') = 0
    BY <1>5
  <2>2. TransferTypes'
    BY <1>1, <1>2, <1>3, <1>5, <2>1 DEF TransferTypes, Touch, Dealings
  <2>3. \A q \in Requests : Meets(q)  BY <1>3, <1>5 DEF Meets, Empties, Touch, TransferTypes
  <2>4. QED  BY <2>2, <2>3, StaysSound
<1>6. QED  BY <1>4, <1>5 DEF GameWrites

\* Requests stay sound in every step of the program, and when it ends.
LEMMA TransferKeeps ==
  ASSUME TransferInv,
         \/ \E r \in Requests, k \in Kinds : RunLimited(r, k)
         \/ \E r \in Requests : TransferStep(r)
         \/ GameWrites \/ TransfersEnd
  PROVE  TransferInv'
<1>1. ASSUME NEW r \in Requests, NEW k \in Kinds, RunLimited(r, k)  PROVE TransferInv'
  BY <1>1, AdmissionSteps
<1>2. ASSUME NEW r \in Requests, TransferStep(r)  PROVE TransferInv'
  BY <1>2, AdmissionSteps, ReadSteps, UploadSteps, WriteSteps DEF TransferStep
<1>3. CASE TransfersEnd
  <2> USE <1>3 DEF TransferInv, TransfersEnd, file, progress
  <2>1. TransferTypes'  BY DEF TransferTypes, Places
  <2>2. ASSUME NEW r \in Requests  PROVE Sound(r)'
    <3>1. place'[r] \in {place[r], "ended"}  BY DEF TransferTypes
    <3>2. Sound(r)  OBVIOUS
    <3>3. InPlace(r)'
      <4>1. CASE place'[r] = place[r]  BY <3>2, <4>1 DEF Sound, InPlace
      <4>2. CASE place'[r] = "ended"  BY <4>2 DEF InPlace
      <4>3. QED  BY <3>1, <4>1, <4>2
    <3>4. OnCourse(r)'
      <4>1. CASE place'[r] = place[r]  BY <3>2, <4>1 DEF Sound, OnCourse, AtChunk, Filled
      <4>2. CASE place'[r] = "ended"  BY <4>2 DEF OnCourse
      <4>3. QED  BY <3>1, <4>1, <4>2
    <3>5. Reported(r)'  BY <3>2 DEF Sound, Reported
    <3>6. QED  BY <3>3, <3>4, <3>5 DEF Sound
  <2>3. QED  BY <2>1, <2>2
<1>4. CASE GameWrites  BY <1>4, GameSteps
<1>5. QED  BY <1>1, <1>2, <1>3, <1>4

\* There is room for every request that runs.
HasSlot == Cardinality(Running) <= MaxTransfers

\* Only admission adds a running request, and only when there is a slot (runLimited).
LEMMA SlotsSuffice ==
  ASSUME TransferTypes, HasSlot,
         \/ \E r \in Requests, k \in Kinds : RunLimited(r, k)
         \/ \E r \in Requests : TransferStep(r)
         \/ GameWrites \/ TransfersEnd
  PROVE  HasSlot'
<1> USE TransfersAssumption
<1>1. IsFiniteSet(Running) /\ Cardinality(Running) \in Nat
  BY FS_Subset, FS_CardinalityType DEF Running
<1>2. ASSUME Running' \subseteq Running  PROVE HasSlot'
  <2>1. IsFiniteSet(Running') /\ Cardinality(Running') <= Cardinality(Running)
    BY <1>1, <1>2, FS_Subset
  <2>2. Cardinality(Running') \in Nat  BY <2>1, FS_CardinalityType
  <2>3. QED  BY <1>1, <2>1, <2>2 DEF HasSlot
<1>3. ASSUME NEW r \in Requests, NEW k \in Kinds, RunLimited(r, k)  PROVE HasSlot'
  <2>1. CASE Cardinality(Running) < MaxTransfers
    <3>1. Running' = Running \cup {r}  BY <1>3, <2>1 DEF RunLimited, Running, TransferTypes
    <3>2. r \notin Running  BY <1>3 DEF RunLimited, Running, Opened
    <3>3. Cardinality(Running \cup {r}) = Cardinality(Running) + 1  BY <1>1, <3>2, FS_AddElement
    <3>4. QED  BY <1>1, <2>1, <3>1, <3>3, SMT DEF HasSlot
  <2>2. CASE ~(Cardinality(Running) < MaxTransfers)
    <3>1. Running' \subseteq Running  BY <1>3, <2>2 DEF RunLimited, Running, TransferTypes, Opened
    <3>2. QED  BY <1>2, <3>1
  <2>3. QED  BY <2>1, <2>2
<1>4. ASSUME NEW r \in Requests, TransferStep(r)  PROVE HasSlot'
  <2>1. place' = place \/ (r \in Running /\ \E p \in Places : place' = [place EXCEPT ![r] = p])
    <3> USE DEF Running, Opened, Places, Goes, Answers, Begins, Refuse, Browse, StatFile,
                OpenFile, SendChunk, ReadFails, BeginUpload, StreamPiece, JudgeUpload, RetryUpload, BeginWrite,
                WritePiece, EndWrite, WriteFails, Delete
    <3>1. CASE Refuse(r) \/ Browse(r) \/ StatFile(r) \/ OpenFile(r)  BY <3>1
    <3>2. CASE SendChunk(r) \/ ReadFails(r) \/ BeginUpload(r)  BY <3>2
    <3>3. CASE StreamPiece(r) \/ JudgeUpload(r) \/ RetryUpload(r)  BY <3>3
    <3>4. CASE BeginWrite(r) \/ WritePiece(r) \/ EndWrite(r) \/ WriteFails(r) \/ Delete(r)
      BY <3>4
    <3>5. QED  BY <1>4, <3>1, <3>2, <3>3, <3>4 DEF TransferStep
  <2>2. Running' \subseteq Running  BY <2>1 DEF Running, TransferTypes
  <2>3. QED  BY <1>2, <2>2
<1>5. CASE TransfersEnd
  <2>1. Running' \subseteq Running  BY <1>5 DEF TransfersEnd, Running, Opened
  <2>2. QED  BY <1>2, <2>1
<1>6. CASE GameWrites
  <2>1. Running' = Running  BY <1>6 DEF GameWrites, Running
  <2>2. QED  BY <1>2, <2>1
<1>7. QED  BY <1>3, <1>4, <1>5, <1>6

-------------------------------------------------------------------------------
(* The program *)

Inv ==
  /\ TransferInv /\ HasSlot
  /\ BackupTypeOK /\ BackupInv

\* Every step keeps the requests and the backups in order.
LEMMA Invariant == Spec => []Inv
<1>1. Init => Inv
  <2> SUFFICES ASSUME Init  PROVE Inv
    OBVIOUS
  <2> USE TransfersAssumption, BackupsAssumption DEF Init, TransferInit, BackupInit
  <2>1. PICK n \in 0..MaxLength : units = [i \in 1..n |-> "game"]  OBVIOUS
  <2>2. units \in Seq(Requests \cup {"game", "gap"}) /\ Len(units) <= MaxLength
    <3>1. units \in [1..n -> Requests \cup {"game", "gap"}] /\ n \in Nat  BY <2>1
    <3>2. units \in Seq(Requests \cup {"game", "gap"}) /\ Len(units) = n  BY <3>1
    <3>3. QED  BY <3>2
  <2>3. TransferTypes  BY <2>2 DEF TransferTypes, Places, Outcomes, Dealings
  <2>4. ASSUME NEW r \in Requests  PROVE Sound(r)
    BY DEF Sound, InPlace, OnCourse, Reported
  <2>5. HasSlot
    <3>1. Running = {}  BY DEF Running, Opened
    <3>2. QED  BY <3>1, FS_EmptySet DEF HasSlot
  <2>6. BackupTypeOK  BY DEF BackupTypeOK
  <2>7. BackupInv  BY DEF BackupInv
  <2>8. QED  BY <2>3, <2>4, <2>5, <2>6, <2>7 DEF Inv, TransferInv
<1>2. Inv /\ [Next]_vars => Inv'
  <2> SUFFICES ASSUME Inv, [Next]_vars  PROVE Inv'
    OBVIOUS
  <2> USE DEF Inv
  <2>1. ASSUME UNCHANGED backupVars
        PROVE  BackupTypeOK' /\ BackupInv'
    BY <2>1 DEF backupVars, BackupTypeOK, BackupInv, Numbers, Current, TooOld, Newer
  <2>2. ASSUME UNCHANGED transferVars  PROVE TransferInv' /\ HasSlot'
    BY <2>2 DEF transferVars, file, progress, TransferInv, TransferTypes, Sound, InPlace, OnCourse,
                AtChunk, Filled, Reported, HasSlot, Running
  <2>3. CASE HandleFileMessage
    BY <2>1, <2>3, TransferKeeps, SlotsSuffice DEF HandleFileMessage, TransferInv
  <2>4. CASE Transfer
    BY <2>1, <2>4, TransferKeeps, SlotsSuffice DEF Transfer, TransferInv
  <2>5. CASE Backup  BY <2>2, <2>5, BackupSteps DEF Backup
  <2>6. CASE EndProgram
    BY <2>6, TransferKeeps, SlotsSuffice, BackupSteps DEF EndProgram, TransferInv
  <2>7. CASE Game
    BY <2>1, <2>7, TransferKeeps, SlotsSuffice DEF Game, TransferInv
  <2>8. CASE UNCHANGED vars  BY <2>1, <2>2, <2>8 DEF vars
  <2>9. QED  BY <2>3, <2>4, <2>5, <2>6, <2>7, <2>8 DEF Next
<1>3. QED  BY <1>1, <1>2, PTL DEF Spec

\* The variables have their types, no more requests run than the semaphore has places,
\* and a deletion concerns archives that are there (runLimited, cleanOldBackups).
THEOREM TypeCorrect == Spec => []TypeOK
<1>1. Inv => TypeOK
  BY DEF Inv, TransferInv, TransferTypes, Places, Outcomes, HasSlot, Dealings, TypeOK,
         TransferTypeOK
<1>2. QED  BY <1>1, Invariant, PTL

\* A stream reported as sent or stored and a file reported as written are there in full
\* where nobody else has touched the file; otherwise as much as was announced is sent
\* unless the file was emptied, and what was written has no gap
\* (sendFileChunks, newStreamingMultipartBody, downloadFileFromURL).
THEOREM ReportsHold == Spec => []ReportsAreTrue
<1>1. Inv => ReportsAreTrue
  BY DEF Inv, TransferInv, Sound, Reported, ReportsAreTrue, StreamsAreWhole, WritesAreWhole
<1>2. QED  BY <1>1, Invariant, PTL

\* A reported archive is there when it is reported, and neither a failed backup, nor a
\* deletion that is broken off, nor the end of the program takes it or spoils it: only
\* Keep newer archives of its server or a backup of its name do
\* (executeBackup, cleanOldBackups).
THEOREM BackupsStay == Spec => BackupsAreKept
<1>1. Inv /\ [Next]_vars => [KeepsBackups]_backupVars
  <2> SUFFICES ASSUME Inv, [Next]_vars, ~(UNCHANGED backupVars)  PROVE KeepsBackups
    OBVIOUS
  <2>1. BackupStep \/ BackupsEnd
    BY DEF Next, vars, HandleFileMessage, Transfer, Backup, Game, EndProgram
  <2>2. QED  BY <2>1, BackupSteps DEF Inv
<1>2. Spec => [][KeepsBackups]_backupVars  BY <1>1, Invariant, PTL DEF Spec
<1>3. QED  BY <1>2 DEF BackupsAreKept, KeepsBackups

===============================================================================
