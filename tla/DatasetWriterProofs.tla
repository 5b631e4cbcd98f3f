------------------------- MODULE DatasetWriterProofs -------------------------
(***************************************************************************)
(* Proofs about DatasetWriter, for any number of sessions, episodes and    *)
(* faults: types, that metadata are never ahead of the data and the video  *)
(* they describe, that what has been closed is never overwritten, and that *)
(* the episodes info.json counts are read back as they were recorded.      *)
(*                                                                         *)
(* The argument: every record names a metadata file, a data file and a     *)
(* video, and none names files beyond those of the last record that was    *)
(* written (MetaInv). A session that resumes loads that record (what       *)
(* FlattenSeq returns ends with the last row of the last file) and begins  *)
(* files after the ones it names; the file and the video a session has     *)
(* open only grow (DataInv, SaveDataFiles, SaveVideoFiles). So nothing a   *)
(* record points to is opened again.                                       *)
(*                                                                         *)
(* Episodes: as long as no session was cut short, the records in order     *)
(* (Told) are those of the counted episodes, each names the place of its   *)
(* rows and of its pictures (AllKept), and what is on the disk goes no     *)
(* further than the last of them and the episode being saved (InStep), so  *)
(* that the next rows, pictures and record go where they should. The       *)
(* pictures are the take's because the image directory or the encoder's    *)
(* queue hold its frames in order (Pictured, Encoding).                    *)
(***************************************************************************)
EXTENDS DatasetWriter, SequenceTheorems, WellFoundedInduction, TLAPS

\* A set of naturals that is not empty has a least element.
LEMMA Least ==
  ASSUME NEW T, T \subseteq Nat, T # {}
  PROVE  \E x \in T : \A y \in T : x <= y
<1>1. IsWellFoundedOn(OpToRel(<,Nat), Nat)
  BY NatLessThanWellFounded
<1> DEFINE R == OpToRel(<,Nat)
<1>2. IsWellFoundedOn(R, Nat)
  BY <1>1
<1>3. \A x, y \in Nat : y < x => <<y, x>> \in R
  BY DEF OpToRel
<1> HIDE DEF R
<1>4. PICK x \in T : \A y \in T : ~(<<y, x>> \in R)
  BY <1>2, WFMin
<1>5. ASSUME NEW y \in T PROVE x <= y
  <2>1. x \in Nat /\ y \in Nat /\ ~(y < x)
    BY <1>3, <1>4
  <2> QED
    BY <2>1
<1> QED
  BY <1>5

\* What the recursive function in FlattenSeq computes for a sequence of sequences.
Flattens(f, s, n) == f = [i \in 1..n |-> IF i = 1 THEN s[i] ELSE f[i-1] \o s[i]]

\* That function exists for every length.
LEMMA FlattenExists ==
  ASSUME NEW s, NEW n \in Nat
  PROVE  \E f : Flattens(f, s, n)
<1> DEFINE T == {m \in Nat : ~ \E f : Flattens(f, s, m)}
<1> SUFFICES ASSUME T # {} PROVE FALSE
  OBVIOUS
<1>1. PICK m \in T : \A y \in T : m <= y
  <2>1. T \subseteq Nat
    OBVIOUS
  <2> HIDE DEF T
  <2> QED
    BY <2>1, Least
<1>2. m # 0
  <2>1. Flattens([i \in 1..0 |-> 0], s, 0)
    BY DEF Flattens
  <2> QED
    BY <2>1
<1>3. m - 1 \in Nat /\ m - 1 \notin T
  BY <1>1, <1>2
<1>4. PICK f : Flattens(f, s, m - 1)
  BY <1>3
<1> DEFINE g == [i \in 1..m |-> IF i < m THEN f[i] ELSE IF i = 1 THEN s[i] ELSE f[i-1] \o s[i]]
<1>5. \A i \in 1..m-1 : f[i] = IF i = 1 THEN s[i] ELSE f[i-1] \o s[i]
  BY <1>4 DEF Flattens
<1>6. \A i \in 1..m : g[i] = IF i = 1 THEN s[i] ELSE g[i-1] \o s[i]
  BY <1>5
<1>7. Flattens(g, s, m)
  <2>1. g = [i \in 1..m |-> g[i]]
    OBVIOUS
  <2> HIDE DEF g
  <2> QED
   BY <1>6, <2>1 DEF Flattens
<1> QED
  BY <1>7

\* Its values are sequences.
LEMMA FlattenValues ==
  ASSUME NEW S, NEW s \in Seq(Seq(S)), NEW f, Flattens(f, s, Len(s))
  PROVE  \A i \in 1..Len(s) : f[i] \in Seq(S)
<1>1. \A i \in 1..Len(s) : f[i] = IF i = 1 THEN s[i] ELSE f[i-1] \o s[i]
  BY DEF Flattens
<1> DEFINE T == {i \in 1..Len(s) : f[i] \notin Seq(S)}
<1> SUFFICES ASSUME T # {} PROVE FALSE
  OBVIOUS
<1>2. PICK i \in T : \A y \in T : i <= y
  <2>1. T \subseteq Nat
    OBVIOUS
  <2> HIDE DEF T
  <2> QED
    BY <2>1, Least
<1>3. i # 1 => f[i-1] \in Seq(S)
  BY <1>2
<1>4. i \in 1..Len(s) /\ s[i] \in Seq(S)
  OBVIOUS
<1>5. f[i] \in Seq(S)
  <2>1. CASE i = 1
    BY <2>1, <1>1, <1>4
  <2>2. CASE i # 1
    <3>1. f[i] = f[i-1] \o s[i]
      BY <2>2, <1>1, <1>4
    <3> QED
      BY <3>1, <2>2, <1>3, <1>4
  <2> QED
    BY <2>1, <2>2
<1> QED
  BY <1>5

\* The last element of a concatenation.
LEMMA ConcatLast ==
  ASSUME NEW S, NEW a \in Seq(S), NEW b \in Seq(S), b # <<>>
  PROVE  a \o b \in Seq(S) /\ a \o b # <<>> /\ Last(a \o b) = Last(b)
<1>1. Len(a) \in Nat /\ Len(b) \in Nat /\ Len(b) # 0
  OBVIOUS
<1>2. a \o b \in Seq(S) /\ Len(a \o b) = Len(a) + Len(b)
  OBVIOUS
<1>3. (a \o b)[Len(a) + Len(b)] = b[Len(b)]
  BY <1>1
<1> QED
  BY <1>1, <1>2, <1>3 DEF Last

\* FlattenSeq is the last value of that function.
LEMMA FlattenIs ==
  ASSUME NEW s, Len(s) \in Nat, Len(s) # 0
  PROVE  \E f : Flattens(f, s, Len(s)) /\ FlattenSeq(s) = f[Len(s)]
<1> DEFINE F == CHOOSE f : Flattens(f, s, Len(s))
<1>1. FlattenSeq(s) = F[Len(s)]
  BY DEF FlattenSeq, Flattens
<1>2. \E f : Flattens(f, s, Len(s))
  BY FlattenExists
<1>3. Flattens(F, s, Len(s))
  BY <1>2
<1> QED
  BY <1>1, <1>3

\* The last element of a flattened sequence is that of the last sequence in it.
LEMMA FlattenLast ==
  ASSUME NEW S, NEW s \in Seq(Seq(S)), s # <<>>, s[Len(s)] # <<>>
  PROVE  /\ FlattenSeq(s) \in Seq(S)
         /\ FlattenSeq(s) # <<>>
         /\ Last(FlattenSeq(s)) = Last(s[Len(s)])
<1>1. PICK n \in Nat : n = Len(s)
  OBVIOUS
<1>2. n # 0 /\ s[n] \in Seq(S) /\ s[n] # <<>>
  BY <1>1
<1>3. PICK f : Flattens(f, s, n) /\ FlattenSeq(s) = f[n]
  BY <1>1, <1>2, FlattenIs
<1>4. \A i \in 1..n : f[i] \in Seq(S)
  BY <1>1, <1>3, FlattenValues
<1>5. \A i \in 1..n : f[i] = IF i = 1 THEN s[i] ELSE f[i-1] \o s[i]
  BY <1>3 DEF Flattens
<1>6. CASE n = 1
  BY <1>1, <1>2, <1>3, <1>5, <1>6
<1>7. CASE n # 1
  <2>1. n \in 1..n /\ n - 1 \in 1..n
    BY <1>2, <1>7
  <2>2. f[n] = f[n-1] \o s[n] /\ f[n-1] \in Seq(S)
    BY <2>1, <1>4, <1>5, <1>7
  <2>3. /\ f[n-1] \o s[n] \in Seq(S) /\ f[n-1] \o s[n] # <<>>
        /\ Last(f[n-1] \o s[n]) = Last(s[n])
    BY <2>2, <1>2, ConcatLast
  <2> QED
    BY <2>2, <2>3, <1>1, <1>3
<1> QED
  BY <1>6, <1>7
----------------------------------------------------------------------------
(* Files. *)

\* What writing rows to file k does: the others stay, file k has the rows at its end.
LEMMA WriteToFiles ==
  ASSUME NEW T, NEW files \in Seq(FileT(T)), NEW open \in 0..Len(files),
         NEW k \in 1 .. Len(files) + 1, NEW rows \in Seq(T),
         NEW F, F = WriteTo(files, open, k, rows)
  PROVE  /\ F \in Seq(FileT(T))
         /\ Len(F) = IF k = Len(files) + 1 THEN k ELSE Len(files)
         /\ \A j \in 1..Len(files) : j # k => F[j] = files[j]
         /\ k = open => F[k].rows = files[k].rows \o rows
         /\ k # open => F[k].rows = rows
         /\ F[k].footer => k = open /\ files[k].footer
<1>0. Len(files) \in Nat /\ DOMAIN files = 1..Len(files)
  OBVIOUS
<1>1. CASE k = open
  <2>1. k \in 1..Len(files) /\ files[k] \in FileT(T)
    BY <1>0, <1>1
  <2>2. PICK grown : grown = [files[k] EXCEPT !.rows = @ \o rows]
    OBVIOUS
  <2>3. /\ grown \in FileT(T) /\ grown.rows = files[k].rows \o rows
        /\ grown.footer => files[k].footer
    <3>1. files[k].rows \in Seq(T) /\ files[k].rows \o rows \in Seq(T)
      BY <2>1 DEF FileT
    <3> HIDE DEF FileT
    <3>2. PICK more : more = files[k].rows \o rows
      OBVIOUS
    <3>3. grown = [files[k] EXCEPT !.rows = more]
      BY <2>2, <3>2
    <3> QED
      BY <2>1, <3>1, <3>2, <3>3 DEF FileT
  <2>4. F = [files EXCEPT ![k] = grown]
    BY <1>1, <2>2 DEF WriteTo
  <2>5. /\ F \in Seq(FileT(T)) /\ Len(F) = Len(files)
        /\ \A j \in 1..Len(files) : F[j] = IF j = k THEN grown ELSE files[j]
    BY <2>1, <2>3, <2>4
  <2>6. F[k] = grown
    BY <2>1, <2>5
  <2>7. F[k].rows = files[k].rows \o rows /\ (F[k].footer => files[k].footer)
    BY <2>3, <2>6
  <2> QED
    BY <1>1, <2>1, <2>5, <2>7
<1>2. CASE k # open
  <2>1. PICK file : file = [rows |-> rows, footer |-> FALSE]
    OBVIOUS
  <2>2. file \in FileT(T) /\ file.rows = rows /\ ~file.footer
    BY <2>1 DEF FileT
  <2>3. F = IF k \in DOMAIN files THEN [files EXCEPT ![k] = file] ELSE Append(files, file)
    BY <1>2, <2>1 DEF WriteTo
  <2>4. CASE k \in 1..Len(files)
    <3>1. F = [files EXCEPT ![k] = file]
      BY <1>0, <2>3, <2>4
    <3>2. /\ F \in Seq(FileT(T)) /\ Len(F) = Len(files)
          /\ \A j \in 1..Len(files) : F[j] = IF j = k THEN file ELSE files[j]
      BY <2>2, <2>4, <3>1
    <3> QED
      BY <3>2, <1>2, <2>2, <2>4
  <2>5. CASE k = Len(files) + 1
    <3>1. F = Append(files, file)
      <4>1. k \notin DOMAIN files
        BY <1>0, <2>5
      <4> QED
        BY <2>3, <4>1
    <3>2. F \in Seq(FileT(T)) /\ Len(F) = k
      BY <2>2, <2>5, <3>1
    <3>3. F[k] = file
      BY <2>5, <3>1
    <3>4. \A j \in 1..Len(files) : F[j] = files[j]
      BY <3>1
    <3> QED
      BY <3>2, <3>3, <3>4, <1>2, <2>2, <2>5
  <2>6. k \in 1..Len(files) \/ k = Len(files) + 1
    BY <1>0
  <2> QED
    BY <2>4, <2>5, <2>6
<1> QED
  BY <1>1, <1>2

\* Closing a file writes its footer and nothing else.
LEMMA CloseFiles ==
  ASSUME NEW T, NEW files \in Seq(FileT(T)), NEW open \in 0..Len(files),
         NEW F, F = CloseFile(files, open)
  PROVE  /\ F \in Seq(FileT(T)) /\ Len(F) = Len(files)
         /\ \A j \in 1..Len(files) :
              F[j].rows = files[j].rows /\ (files[j].footer => F[j] = files[j])
         /\ open # 0 => F[open].footer
<1>1. CASE open = 0
  BY <1>1 DEF CloseFile
<1>2. CASE open # 0
  <2>1. open \in 1..Len(files) /\ files[open] \in FileT(T)
    BY <1>2
  <2>2. PICK closed : closed = [files[open] EXCEPT !.footer = TRUE]
    OBVIOUS
  <2>3. closed \in FileT(T) /\ closed.rows = files[open].rows /\ closed.footer
    BY <2>1, <2>2 DEF FileT
  <2>4. files[open].footer => closed = files[open]
    BY <2>1, <2>2 DEF FileT
  <2>5. F = [files EXCEPT ![open] = closed]
    BY <1>2, <2>2 DEF CloseFile
  <2>6. /\ F \in Seq(FileT(T)) /\ Len(F) = Len(files)
        /\ \A j \in 1..Len(files) : F[j] = IF j = open THEN closed ELSE files[j]
    BY <2>1, <2>3, <2>5
  <2>7. F[open] = closed
    BY <2>1, <2>6
  <2> QED
    BY <2>3, <2>4, <2>6, <2>7
<1> QED
  BY <1>1, <1>2

----------------------------------------------------------------------------
(* Metadata. *)

MetaT == [files : Seq(FileT(RecordT)), open : Nat, buffer : Seq(RecordT)]

RecordsOf(m) == Written(m.files) \cup ToSet(m.buffer)

LastOf(files) == Last(files[Len(files)].rows)

\* r points to no file after those of s.
Within(r, s) == r.data <= s.data /\ r.video <= s.video

\* No metadata file is empty, records carry their file's number, none points further than the last.
FilesInOrder(files) ==
  \A k \in DOMAIN files :
    /\ files[k].rows # <<>>
    /\ \A i \in DOMAIN files[k].rows :
         files[k].rows[i].file = k /\ Within(files[k].rows[i], LastOf(files))

\* The metadata of a session that has saved an episode, the last one with record last.
InOrder(m, last) ==
  /\ FilesInOrder(m.files)
  /\ \A r \in RecordsOf(m) : Within(r, last)
  /\ \A i \in DOMAIN m.buffer : m.buffer[i].file = last.file
  /\ m.buffer # <<>> => Last(m.buffer) = last
  /\ m.buffer = <<>> => m.files # <<>> /\ LastOf(m.files) = last
  /\ \/ m.open = Len(m.files) /\ m.open # 0 /\ last.file = m.open
     \/ m.open = 0 /\ m.buffer # <<>> /\ last.file = Len(m.files) + 1

\* A record is a row of a file or in the buffer.
LEMMA RecordPlace ==
  ASSUME NEW m \in MetaT, NEW r
  PROVE  r \in RecordsOf(m) <=>
           \/ \E k \in 1..Len(m.files) : \E i \in 1..Len(m.files[k].rows) : r = m.files[k].rows[i]
           \/ \E i \in 1..Len(m.buffer) : r = m.buffer[i]
<1>1. /\ DOMAIN m.files = 1..Len(m.files) /\ DOMAIN m.buffer = 1..Len(m.buffer)
      /\ \A k \in 1..Len(m.files) : DOMAIN m.files[k].rows = 1..Len(m.files[k].rows)
  BY DEF MetaT, FileT
<1>2. r \in ToSet(m.buffer) <=> \E i \in 1..Len(m.buffer) : r = m.buffer[i]
  BY <1>1 DEF ToSet
<1>3. r \in Written(m.files) <=>
        \E k \in 1..Len(m.files) : \E i \in 1..Len(m.files[k].rows) : r = m.files[k].rows[i]
  <2>1. r \in Written(m.files) <=> \E k \in 1..Len(m.files) : r \in ToSet(m.files[k].rows)
    BY <1>1 DEF Written
  <2> QED
    BY <1>1, <2>1 DEF ToSet
<1> QED
  BY <1>2, <1>3 DEF RecordsOf

\* Records are records.
LEMMA RecordsTyped == ASSUME NEW m \in MetaT PROVE RecordsOf(m) \subseteq RecordT
<1> SUFFICES ASSUME NEW r \in RecordsOf(m) PROVE r \in RecordT
  OBVIOUS
<1>1. \/ \E k \in 1..Len(m.files) : \E i \in 1..Len(m.files[k].rows) : r = m.files[k].rows[i]
      \/ \E i \in 1..Len(m.buffer) : r = m.buffer[i]
  BY RecordPlace
<1>2. \A k \in 1..Len(m.files) : m.files[k].rows \in Seq(RecordT)
  <2>1. m.files \in Seq(FileT(RecordT))
    BY DEF MetaT
  <2>2. \A k \in 1..Len(m.files) : m.files[k] \in FileT(RecordT)
    BY <2>1
  <2> QED
    BY <2>2 DEF FileT
<1>3. m.buffer \in Seq(RecordT)
  BY DEF MetaT
<1> HIDE DEF RecordT, MetaT
<1>4. ASSUME NEW k \in 1..Len(m.files), NEW i \in 1..Len(m.files[k].rows)
      PROVE  m.files[k].rows[i] \in RecordT
  BY <1>2
<1> QED
  BY <1>1, <1>3, <1>4

\* Writing the buffer to a file: its rows come after those in the open file, or make a new file.
LEMMA FlushOf ==
  ASSUME NEW m \in MetaT, m.buffer # <<>>,
         \/ m.open = Len(m.files) /\ m.open # 0
         \/ m.open = 0 /\ Head(m.buffer).file = Len(m.files) + 1,
         NEW F, F = FlushMeta(m)
  PROVE  /\ F \in MetaT /\ F.buffer = <<>>
         /\ F.open = Len(F.files)
         /\ F.open = IF m.open = 0 THEN Len(m.files) + 1 ELSE Len(m.files)
         /\ F.open # 0
         /\ \A j \in 1..Len(m.files) : j # F.open => F.files[j] = m.files[j]
         /\ F.files[F.open].rows =
              IF m.open = 0 THEN m.buffer ELSE m.files[m.open].rows \o m.buffer
<1>1. PICK k : k = IF m.open # 0 THEN m.open ELSE Head(m.buffer).file
  OBVIOUS
<1>2. PICK files : files = WriteTo(m.files, m.open, k, m.buffer)
  OBVIOUS
<1>3. F = [files |-> files, open |-> k, buffer |-> <<>>]
  BY <1>1, <1>2 DEF FlushMeta
<1>4. m.files \in Seq(FileT(RecordT)) /\ m.open \in Nat /\ m.buffer \in Seq(RecordT) /\ Len(m.files) \in Nat
  BY DEF MetaT
<1> HIDE DEF RecordT
<1>5. /\ k \in 1..Len(m.files) + 1 /\ m.open \in 0..Len(m.files)
      /\ (k = m.open) <=> (m.open # 0)
      /\ k = IF m.open = 0 THEN Len(m.files) + 1 ELSE Len(m.files)
  BY <1>1, <1>4
<1>6. /\ files \in Seq(FileT(RecordT))
      /\ Len(files) = IF k = Len(m.files) + 1 THEN k ELSE Len(m.files)
      /\ \A j \in 1..Len(m.files) : j # k => files[j] = m.files[j]
      /\ k = m.open => files[k].rows = m.files[k].rows \o m.buffer
      /\ k # m.open => files[k].rows = m.buffer
  <2>1. /\ m.files \in Seq(FileT(RecordT)) /\ m.open \in 0..Len(m.files)
        /\ k \in 1 .. Len(m.files) + 1 /\ m.buffer \in Seq(RecordT)
    BY <1>4, <1>5
  <2>0. PICK old, open, rows : old = m.files /\ open = m.open /\ rows = m.buffer
    OBVIOUS
  <2>a. /\ old \in Seq(FileT(RecordT)) /\ open \in 0..Len(old)
        /\ k \in 1 .. Len(old) + 1 /\ rows \in Seq(RecordT) /\ files = WriteTo(old, open, k, rows)
    BY <2>0, <2>1, <1>2
  <2>2. files \in Seq(FileT(RecordT))
    BY <2>a, WriteToFiles
  <2>3. Len(files) = IF k = Len(m.files) + 1 THEN k ELSE Len(m.files)
    <3>1. Len(files) = IF k = Len(old) + 1 THEN k ELSE Len(old)
      BY <2>a, WriteToFiles
    <3> QED
      BY <3>1, <2>0
  <2>4. \A j \in 1..Len(m.files) : j # k => files[j] = m.files[j]
    <3>1. \A j \in 1..Len(old) : j # k => files[j] = old[j]
      BY <2>a, WriteToFiles
    <3> QED
      BY <3>1, <2>0
  <2>5. ASSUME k = m.open PROVE files[k].rows = m.files[k].rows \o m.buffer
    <3>1. k \in 1..Len(m.files)
      BY <2>5, <1>5
    <3>2. files = [m.files EXCEPT ![k].rows = @ \o m.buffer]
      BY <1>2, <2>5 DEF WriteTo
    <3>3. m.files[k] \in FileT(RecordT)
      BY <3>1, <2>1
    <3>4. PICK grown : grown = m.files[k].rows \o m.buffer
      OBVIOUS
    <3>5. files[k] = [m.files[k] EXCEPT !.rows = grown]
      BY <2>1, <3>1, <3>2, <3>3, <3>4
    <3> QED
      BY <3>3, <3>4, <3>5 DEF FileT
  <2>6. k # m.open => files[k].rows = m.buffer
    <3>1. k # open => files[k].rows = rows
      BY <2>a, WriteToFiles
    <3> QED
      BY <3>1, <2>0
  <2> QED
    BY <2>2, <2>3, <2>4, <2>5, <2>6
<1>7. F \in MetaT /\ F.files = files /\ F.open = k /\ F.buffer = <<>>
  <2>1. k \in Nat /\ <<>> \in Seq(RecordT)
    BY <1>4, <1>5
  <2>2. files \in Seq(FileT(RecordT)) /\ k \in 0..Len(files)
    BY <1>4, <1>5, <1>6
  <2> QED
    BY <1>3, <2>1, <2>2 DEF MetaT
<1>8. Len(F.files) = k /\ F.files[k].rows = IF m.open = 0 THEN m.buffer ELSE m.files[m.open].rows \o m.buffer
  BY <1>4, <1>5, <1>6, <1>7
<1> QED
  BY <1>4, <1>5, <1>6, <1>7, <1>8

\* Writing the buffer to its file keeps the order, and the records.
LEMMA FlushInOrder ==
  ASSUME NEW m \in MetaT, NEW last \in RecordT, InOrder(m, last), NEW F, F = FlushMeta(m)
  PROVE  /\ F \in MetaT /\ InOrder(F, last) /\ F.buffer = <<>>
         /\ RecordsOf(F) \subseteq RecordsOf(m)
<1>0. CASE m.buffer = <<>>
  BY <1>0 DEF FlushMeta
<1>1. CASE m.buffer # <<>>
  <2>1. m.files \in Seq(FileT(RecordT)) /\ m.buffer \in Seq(RecordT) /\ m.open \in Nat
    BY DEF MetaT
  <2>2. /\ DOMAIN m.buffer = 1..Len(m.buffer) /\ Len(m.buffer) \in Nat /\ Len(m.buffer) # 0
        /\ DOMAIN m.files = 1..Len(m.files) /\ Len(m.files) \in Nat
    BY <1>1, <2>1
  <2>3. \A i \in 1..Len(m.buffer) : m.buffer[i].file = last.file
    BY <2>2 DEF InOrder
  <2>4. Head(m.buffer).file = last.file
    BY <1>1, <2>1, <2>2, <2>3
  <2>5. \/ m.open = Len(m.files) /\ m.open # 0 /\ last.file = m.open
        \/ m.open = 0 /\ last.file = Len(m.files) + 1
    BY DEF InOrder
  <2>6. /\ F \in MetaT /\ F.buffer = <<>> /\ F.open = Len(F.files) /\ F.open # 0
        /\ F.open = IF m.open = 0 THEN Len(m.files) + 1 ELSE Len(m.files)
        /\ \A j \in 1..Len(m.files) : j # F.open => F.files[j] = m.files[j]
        /\ F.files[F.open].rows =
             IF m.open = 0 THEN m.buffer ELSE m.files[m.open].rows \o m.buffer
    BY <1>1, <2>4, <2>5, FlushOf
  <2>7. F.open = last.file
    BY <2>5, <2>6
  <2>8. PICK rows : rows = F.files[F.open].rows
    OBVIOUS
  <2>9. m.open # 0 => m.files[m.open].rows \in Seq(RecordT) /\ m.open \in 1..Len(m.files)
    <3> SUFFICES ASSUME m.open # 0 PROVE m.files[m.open].rows \in Seq(RecordT) /\ m.open \in 1..Len(m.files)
      OBVIOUS
    <3>1. m.open \in 1..Len(m.files)
      BY <2>2, <2>5
    <3>2. m.files[m.open] \in FileT(RecordT)
      BY <2>1, <3>1
    <3> QED
      BY <3>1, <3>2 DEF FileT
  \* The open file's rows are old rows of that file and those of the buffer.
  <2>10. /\ rows \in Seq(RecordT) /\ rows # <<>> /\ Last(rows) = last
         /\ \A i \in 1..Len(rows) : rows[i].file = F.open /\ rows[i] \in RecordsOf(m)
    <3>1. Last(m.buffer) = last
      BY <1>1 DEF InOrder
    <3>2. CASE m.open = 0
      <4>1. rows = m.buffer
        BY <2>6, <2>8, <3>2
      <4>2. \A i \in 1..Len(rows) : rows[i] \in RecordsOf(m)
        BY <4>1, RecordPlace
      <4> QED
        BY <4>1, <4>2, <1>1, <2>1, <2>3, <2>7, <3>1
    <3>3. CASE m.open # 0
      <4>1. PICK old : old = m.files[m.open].rows
        OBVIOUS
      <4>2. rows = old \o m.buffer /\ old \in Seq(RecordT) /\ m.open \in 1..Len(m.files)
        BY <2>6, <2>8, <2>9, <3>3, <4>1
      <4>3. rows \in Seq(RecordT) /\ rows # <<>> /\ Last(rows) = last
        BY <4>2, <2>1, <1>1, <3>1, ConcatLast
      <4>4. ASSUME NEW i \in 1..Len(rows) PROVE rows[i].file = F.open /\ rows[i] \in RecordsOf(m)
        <5>1. CASE i \in 1..Len(old)
          <6>1. rows[i] = old[i]
            BY <4>2, <2>1, <5>1
          <6>2. old[i].file = m.open
            <7>1. DOMAIN old = 1..Len(old)
              BY <4>2
            <7> QED
              BY <7>1, <5>1, <4>1, <4>2, <2>2 DEF InOrder, FilesInOrder
          <6>3. old[i] \in RecordsOf(m)
            BY <4>1, <4>2, <5>1, RecordPlace
          <6> QED
            BY <6>1, <6>2, <6>3, <2>5, <2>7, <3>3
        <5>2. CASE i \notin 1..Len(old)
          <6>1. PICK j \in 1..Len(m.buffer) : rows[i] = m.buffer[j]
            <7>1. Len(rows) = Len(old) + Len(m.buffer) /\ Len(old) \in Nat
              BY <4>2, <2>1
            <7>2. i - Len(old) \in 1..Len(m.buffer)
              BY <7>1, <5>2, <2>2
            <7>3. rows[i] = m.buffer[i - Len(old)]
              BY <4>2, <2>1, <7>1, <7>2
            <7> QED
              BY <7>2, <7>3
          <6> QED
            BY <6>1, <2>3, <2>7, RecordPlace
        <5> QED
          BY <5>1, <5>2
      <4> QED
        BY <4>3, <4>4
    <3> QED
      BY <3>2, <3>3
  <2>11. LastOf(F.files) = last
    BY <2>6, <2>8, <2>10 DEF LastOf
  \* So are those of the other files.
  <2>12. ASSUME NEW k \in 1..Len(F.files)
         PROVE  /\ F.files[k].rows # <<>> /\ F.files[k].rows \in Seq(RecordT)
                /\ \A i \in 1..Len(F.files[k].rows) :
                     F.files[k].rows[i].file = k /\ F.files[k].rows[i] \in RecordsOf(m)
    <3>1. CASE k = F.open
      BY <3>1, <2>8, <2>10
    <3>2. CASE k # F.open
      <4>1. k \in 1..Len(m.files) /\ F.files[k] = m.files[k]
        BY <3>2, <2>2, <2>5, <2>6
      <4>2. m.files[k].rows \in Seq(RecordT)
        <5>1. m.files[k] \in FileT(RecordT)
          BY <2>1, <4>1
        <5> QED
          BY <5>1 DEF FileT
      <4>3. DOMAIN m.files[k].rows = 1..Len(m.files[k].rows)
        BY <4>2
      <4>4. m.files[k].rows # <<>> /\ \A i \in 1..Len(m.files[k].rows) : m.files[k].rows[i].file = k
        BY <4>1, <4>3, <2>2 DEF InOrder, FilesInOrder
      <4>5. \A i \in 1..Len(m.files[k].rows) : m.files[k].rows[i] \in RecordsOf(m)
        BY <4>1, RecordPlace
      <4> QED
        BY <4>1, <4>2, <4>4, <4>5
    <3> QED
      BY <3>1, <3>2
  <2>13. RecordsOf(F) \subseteq RecordsOf(m)
    <3> SUFFICES ASSUME NEW r \in RecordsOf(F) PROVE r \in RecordsOf(m)
      OBVIOUS
    <3>0. F \in MetaT
      BY <2>6
    <3>1. \/ \E k \in 1..Len(F.files) : \E i \in 1..Len(F.files[k].rows) : r = F.files[k].rows[i]
          \/ \E i \in 1..Len(F.buffer) : r = F.buffer[i]
      BY <3>0, RecordPlace
    <3>2. Len(F.buffer) = 0
      BY <2>6
    <3> QED
      BY <3>1, <3>2, <2>12
  <2>14. \A r \in RecordsOf(m) : Within(r, last)
    BY DEF InOrder
  <2>15. FilesInOrder(F.files)
    <3>0. F \in MetaT
      BY <2>6
    <3>1. DOMAIN F.files = 1..Len(F.files)
      BY <3>0 DEF MetaT
    <3>2. \A k \in 1..Len(F.files) : DOMAIN F.files[k].rows = 1..Len(F.files[k].rows)
      BY <2>12
    <3> QED
      BY <3>1, <3>2, <2>11, <2>12, <2>14 DEF FilesInOrder
  <2>16. F.files # <<>>
    BY <2>6
  <2>17. DOMAIN F.buffer = {}
    BY <2>6
  <2> QED
    BY <2>6, <2>7, <2>11, <2>13, <2>14, <2>15, <2>16, <2>17 DEF InOrder
<1> QED
  BY <1>0, <1>1

\* Closing the writer: everything is in its file, the last record the last row of the last file.
LEMMA CloseInOrder ==
  ASSUME NEW m \in MetaT, NEW last \in RecordT, InOrder(m, last), NEW C, C = CloseMeta(m)
  PROVE  /\ C \in MetaT /\ C.open = 0 /\ C.buffer = <<>>
         /\ FilesInOrder(C.files) /\ Len(C.files) = last.file /\ LastOf(C.files) = last
         /\ RecordsOf(C) \subseteq RecordsOf(m)
<1>1. PICK F : F = FlushMeta(m)
  OBVIOUS
<1>2. F \in MetaT /\ InOrder(F, last) /\ F.buffer = <<>> /\ RecordsOf(F) \subseteq RecordsOf(m)
  BY <1>1, FlushInOrder
<1>3. /\ FilesInOrder(F.files) /\ F.files # <<>> /\ LastOf(F.files) = last
      /\ F.open = Len(F.files) /\ last.file = F.open
  BY <1>2 DEF InOrder
<1>4. F.files \in Seq(FileT(RecordT)) /\ Len(F.files) \in Nat /\ F.open \in Nat
  BY <1>2 DEF MetaT
<1>5. PICK files : files = CloseFile(F.files, F.open)
  OBVIOUS
<1>6. C = [files |-> files, open |-> 0, buffer |-> <<>>]
  BY <1>1, <1>5 DEF CloseMeta
<1>7. /\ files \in Seq(FileT(RecordT)) /\ Len(files) = Len(F.files)
      /\ \A j \in 1..Len(F.files) : files[j].rows = F.files[j].rows
  <2>1. F.open \in 0..Len(F.files)
    BY <1>3, <1>4
  <2> QED
    BY <2>1, <1>4, <1>5, CloseFiles
<1>8. C \in MetaT /\ C.files = files /\ C.open = 0 /\ C.buffer = <<>>
  BY <1>6, <1>7 DEF MetaT
<1>9. Len(F.files) # 0
  BY <1>3, <1>4
<1>10. LastOf(files) = last
  BY <1>3, <1>4, <1>7, <1>9 DEF LastOf
<1>11. FilesInOrder(files)
  <2>1. DOMAIN files = 1..Len(F.files) /\ DOMAIN F.files = 1..Len(F.files)
    BY <1>4, <1>7
  <2> QED
    BY <2>1, <1>3, <1>7, <1>10 DEF FilesInOrder
<1>12. RecordsOf(C) \subseteq RecordsOf(F)
  <2> SUFFICES ASSUME NEW r \in RecordsOf(C) PROVE r \in RecordsOf(F)
    OBVIOUS
  <2>1. Len(C.buffer) = 0
    BY <1>8
  <2>2. \E k \in 1..Len(C.files) : \E i \in 1..Len(C.files[k].rows) : r = C.files[k].rows[i]
    <3>1. \/ \E k \in 1..Len(C.files) : \E i \in 1..Len(C.files[k].rows) : r = C.files[k].rows[i]
          \/ \E i \in 1..Len(C.buffer) : r = C.buffer[i]
      BY <1>8, RecordPlace
    <3> QED
      BY <2>1, <3>1
  <2>3. \E k \in 1..Len(F.files) : \E i \in 1..Len(F.files[k].rows) : r = F.files[k].rows[i]
    BY <2>2, <1>7, <1>8
  <2> QED
    BY <2>3, <1>2, RecordPlace
<1> QED
  BY <1>2, <1>3, <1>7, <1>8, <1>10, <1>11, <1>12

\* A session that has saved nothing has nothing to write.
LEMMA CloseIdle ==
  ASSUME NEW m \in MetaT, m.open = 0, m.buffer = <<>>, NEW C, C = CloseMeta(m)
  PROVE  C \in MetaT /\ C.files = m.files /\ C.open = 0 /\ C.buffer = <<>>
BY DEF CloseMeta, FlushMeta, CloseFile, MetaT

\* A record that points furthest, and to the last metadata file or a new one, becomes the last.
LEMMA AddInOrder ==
  ASSUME NEW m \in MetaT, NEW r \in RecordT, FilesInOrder(m.files),
         \A q \in RecordsOf(m) : Within(q, r), Len(m.buffer) < MetaBufferSize,
         \/ \E last \in RecordT : InOrder(m, last) /\ r.file = last.file
         \/ m.open = 0 /\ m.buffer = <<>> /\ r.file = Len(m.files) + 1,
         NEW A, A = AddRecord(m, r)
  PROVE  /\ A \in MetaT /\ InOrder(A, r) /\ Len(A.buffer) < MetaBufferSize
         /\ RecordsOf(A) \subseteq RecordsOf(m) \cup {r}
<1>1. PICK buf : buf = Append(m.buffer, r)
  OBVIOUS
<1>2. PICK G : G = [m EXCEPT !.buffer = buf]
  OBVIOUS
<1>3. m.buffer \in Seq(RecordT) /\ m.files \in Seq(FileT(RecordT)) /\ m.open \in Nat
  BY DEF MetaT
<1>4. /\ buf \in Seq(RecordT) /\ buf # <<>> /\ Last(buf) = r /\ Len(buf) = Len(m.buffer) + 1
      /\ \A i \in 1..Len(buf) : buf[i] = IF i \in 1..Len(m.buffer) THEN m.buffer[i] ELSE r
  BY <1>1, <1>3 DEF Last
<1>5. G \in MetaT /\ G.files = m.files /\ G.open = m.open /\ G.buffer = buf
  BY <1>2, <1>4 DEF MetaT
<1>6. RecordsOf(G) \subseteq RecordsOf(m) \cup {r}
  <2> SUFFICES ASSUME NEW q \in RecordsOf(G), q # r PROVE q \in RecordsOf(m)
    OBVIOUS
  <2>1. \/ \E k \in 1..Len(G.files) : \E i \in 1..Len(G.files[k].rows) : q = G.files[k].rows[i]
        \/ \E i \in 1..Len(G.buffer) : q = G.buffer[i]
    BY <1>5, RecordPlace
  <2>2. \/ \E k \in 1..Len(m.files) : \E i \in 1..Len(m.files[k].rows) : q = m.files[k].rows[i]
        \/ \E i \in 1..Len(m.buffer) : q = m.buffer[i]
    BY <2>1, <1>4, <1>5
  <2> QED
    BY <2>2, RecordPlace
<1>7. Within(r, r)
  BY DEF Within, RecordT
<1>8. \A i \in 1..Len(m.buffer) : m.buffer[i].file = r.file
  <2>1. CASE m.buffer = <<>>
    BY <2>1
  <2>2. CASE m.buffer # <<>>
    <3>1. PICK last \in RecordT : InOrder(m, last) /\ r.file = last.file
      BY <2>2
    <3>2. DOMAIN m.buffer = 1..Len(m.buffer)
      BY <1>3
    <3> QED
      BY <3>1, <3>2 DEF InOrder
  <2> QED
    BY <2>1, <2>2
<1>9. \/ m.open = Len(m.files) /\ m.open # 0 /\ r.file = m.open
      \/ m.open = 0 /\ r.file = Len(m.files) + 1
  BY DEF InOrder
<1>10. InOrder(G, r)
  <2>1. DOMAIN buf = 1..Len(buf)
    BY <1>4
  <2>2. \A i \in DOMAIN buf : buf[i].file = r.file
    BY <2>1, <1>4, <1>8
  <2>3. \A q \in RecordsOf(G) : Within(q, r)
    BY <1>6, <1>7
  <2> QED
    BY <2>2, <2>3, <1>4, <1>5, <1>9 DEF InOrder
<1>11. A = IF Len(G.buffer) >= MetaBufferSize THEN FlushMeta(G) ELSE G
  BY <1>1, <1>2 DEF AddRecord
<1>12. MetaBufferSize \in Nat /\ MetaBufferSize # 0
  BY WriterAssumption
<1>13. CASE Len(G.buffer) >= MetaBufferSize
  <2>1. A = FlushMeta(G)
    BY <1>11, <1>13
  <2>2. A \in MetaT /\ InOrder(A, r) /\ A.buffer = <<>> /\ RecordsOf(A) \subseteq RecordsOf(G)
    BY <2>1, <1>5, <1>10, FlushInOrder
  <2> QED
    BY <2>2, <1>6, <1>12
<1>14. CASE ~(Len(G.buffer) >= MetaBufferSize)
  <2>1. A = G
    BY <1>11, <1>14
  <2>2. Len(G.buffer) \in Nat
    BY <1>4, <1>5
  <2> QED
    BY <2>1, <2>2, <1>5, <1>6, <1>10, <1>12, <1>14
<1> QED
  BY <1>13, <1>14

----------------------------------------------------------------------------
(* Types. *)

Alive == pc \notin {"ended", "killed"}

\* The types of what a session keeps besides the files and what it knows of them.
RecorderT ==
  /\ mode \in Modes
  /\ pc \in InSave \cup {"frames", "close data", "close meta", "ended", "killed"}
  /\ buffer \in [episode : Nat, size : 0..MaxFrames, take : Nat \ {0}]
  /\ pictures \in Seq(Frame)
  /\ info \in [episodes : Nat, frames : Nat]
  /\ Stream!TypeOK
  /\ session \in 1..MaxSessions /\ faults \in 0..MaxFaults /\ raised \in BOOLEAN
  /\ saved \in Seq([take : Take, size : 1..MaxFrames])
  /\ dropped \subseteq Take /\ hurt \in 0..MaxSessions

\* The types of the files and of what a session knows of them.
FilesT ==
  /\ data \in [files : Seq(FileT(RowT)), open : Nat] /\ data.open <= Len(data.files)
  /\ meta \in MetaT /\ meta.open <= Len(meta.files) /\ Len(meta.buffer) < MetaBufferSize
  /\ latest \in {None} \cup [file : 1..Len(data.files)]
  /\ latestMeta \in {None} \cup RecordT /\ episodes \in Seq(RecordT)
  /\ videos \in Seq(Seq(Frame))

LEMMA TypeParts == TypeOK <=> RecorderT /\ FilesT /\ torn \subseteq Nat /\ infoWhole \in BOOLEAN
BY DEF TypeOK, RecorderT, FilesT, MetaT

\* An episode is saved only when it has frames, and has them only if it may be recorded.
TakeInv ==
  /\ pc \in InSave => buffer.size > 0
  /\ buffer.size > 0 => buffer.take <= MaxTakes

\* Each operation of the streaming encoder keeps its types.
LEMMA StreamStep ==
  ASSUME Stream!TypeOK,
         \/ UNCHANGED streamVars
         \/ \E f \in Frame : Stream!StartEpisode(f) \/ Stream!FeedFrame(f)
         \/ Stream!DropFrame \/ Stream!PutSentinel \/ Stream!Cleanup
         \/ Stream!TakeFrame \/ Stream!EncodeFrame \/ Stream!CloseVideo \/ Stream!EncoderFails
  PROVE  Stream!TypeOK'
<1>0. QueueMax \in Nat /\ QueueMax # 0
  BY WriterAssumption
<1>1. CASE UNCHANGED streamVars
  BY <1>1 DEF streamVars, Stream!TypeOK
<1>2. ASSUME NEW f \in Frame, Stream!StartEpisode(f) PROVE Stream!TypeOK'
  <2>1. /\ frameQueue' = <<f>> /\ thread' = "running" /\ inHand' = None /\ encoded' = <<>>
    BY <1>2 DEF Stream!StartEpisode
  <2> QED
    BY <2>1, <1>0 DEF Stream!TypeOK
<1>3. ASSUME NEW f \in Frame, Stream!FeedFrame(f) PROVE Stream!TypeOK'
  <2>1. /\ Len(frameQueue) < QueueMax /\ frameQueue' = Append(frameQueue, f)
        /\ UNCHANGED <<thread, inHand, encoded>>
    BY <1>3 DEF Stream!FeedFrame, Stream!Room
  <2> QED
    BY <2>1, <1>0 DEF Stream!TypeOK
<1>4. CASE Stream!DropFrame
  BY <1>4 DEF Stream!DropFrame, Stream!TypeOK
<1>5. CASE Stream!PutSentinel
  <2>1. /\ Len(frameQueue) < QueueMax /\ frameQueue' = Append(frameQueue, Sentinel)
        /\ UNCHANGED <<thread, inHand, encoded>>
    BY <1>5 DEF Stream!PutSentinel, Stream!Room
  <2> QED
    BY <2>1, <1>0 DEF Stream!TypeOK
<1>6. CASE Stream!Cleanup
  BY <1>0, <1>6 DEF Stream!Cleanup, Stream!TypeOK
<1>7. CASE Stream!TakeFrame
  <2>1. /\ frameQueue # <<>> /\ inHand' = Head(frameQueue) /\ frameQueue' = Tail(frameQueue)
        /\ UNCHANGED <<thread, encoded>>
    BY <1>7 DEF Stream!TakeFrame
  <2>2. Head(frameQueue) \in Frame \cup {Sentinel} /\ Len(Tail(frameQueue)) <= QueueMax
        /\ Tail(frameQueue) \in Seq(Frame \cup {Sentinel})
    BY <2>1, <1>0 DEF Stream!TypeOK
  <2> QED
    BY <2>1, <2>2 DEF Stream!TypeOK
<1>8. CASE Stream!EncodeFrame
  BY <1>8 DEF Stream!EncodeFrame, Stream!TypeOK
<1>9. CASE Stream!CloseVideo
  BY <1>9 DEF Stream!CloseVideo, Stream!TypeOK
<1>10. CASE Stream!EncoderFails
  BY <1>10 DEF Stream!EncoderFails, Stream!TypeOK
<1> QED
  BY <1>1, <1>2, <1>3, <1>4, <1>5, <1>6, <1>7, <1>8, <1>9, <1>10

\* The numbers among them.
LEMMA RecorderFacts ==
  ASSUME RecorderT
  PROVE  /\ buffer \in [episode : Nat, size : 0..MaxFrames, take : Nat \ {0}]
         /\ buffer.episode \in Nat /\ buffer.size \in Nat /\ buffer.size <= MaxFrames
         /\ buffer.take \in Nat /\ buffer.take # 0
         /\ info.episodes \in Nat /\ info.frames \in Nat
         /\ session \in Nat /\ session # 0 /\ session <= MaxSessions
         /\ faults \in Nat /\ faults <= MaxFaults
         /\ hurt \in 0..MaxSessions
<1>1. /\ buffer \in [episode : Nat, size : 0..MaxFrames, take : Nat \ {0}]
      /\ info \in [episodes : Nat, frames : Nat]
      /\ session \in 1..MaxSessions /\ faults \in 0..MaxFaults /\ hurt \in 0..MaxSessions
  BY DEF RecorderT
<1>2. MaxFrames \in Nat /\ MaxSessions \in Nat /\ MaxFaults \in Nat
  BY WriterAssumption
<1> QED
  BY <1>1, <1>2

\* The next frame is one the camera may deliver.
LEMMA NextFrameIsFrame ==
  ASSUME RecorderT, buffer.size < MaxFrames, buffer.take <= MaxTakes
  PROVE  NextFrame \in Frame /\ buffer.size + 1 \in 1..MaxFrames /\ buffer.take \in Take
<1>1. /\ buffer.size \in Nat /\ buffer.take \in Nat /\ buffer.take # 0
      /\ MaxFrames \in Nat /\ MaxTakes \in Nat
  BY WriterAssumption, RecorderFacts
<1>2. buffer.size + 1 \in 1..MaxFrames /\ buffer.take \in 1..MaxTakes
  BY <1>1
<1> QED
  BY <1>2 DEF NextFrame, Frame, Take

\* A step of the session keeps these types, and that only takes with frames are saved.
LEMMA RecorderStep ==
  ASSUME RecorderT, FilesT, TakeInv, [Next]_vars,
         pc \in InSave /\ latestMeta # None => latestMeta.video \in DOMAIN videos
  PROVE  RecorderT' /\ TakeInv'
<1> USE DEF InSave
<1>0. /\ MaxFrames \in Nat \ {0} /\ MaxSessions \in Nat \ {0} /\ MaxFaults \in Nat
      /\ MaxTakes \in Nat \ {0}
  BY WriterAssumption
<1>f. /\ buffer \in [episode : Nat, size : 0..MaxFrames, take : Nat \ {0}]
      /\ buffer.episode \in Nat /\ buffer.size \in Nat /\ buffer.size <= MaxFrames
      /\ buffer.take \in Nat /\ buffer.take # 0
      /\ info.episodes \in Nat /\ info.frames \in Nat
      /\ session \in Nat /\ session # 0 /\ session <= MaxSessions
      /\ faults \in Nat /\ faults <= MaxFaults
      /\ hurt \in 0..MaxSessions
  BY RecorderFacts
<1>1. CASE AddFrame
  <2>1. /\ pc = "frames" /\ buffer.size < MaxFrames /\ buffer.take <= MaxTakes
        /\ buffer' = [buffer EXCEPT !.size = @ + 1]
        /\ UNCHANGED <<mode, pc, info, session, faults, raised, saved, hurt>>
    BY <1>1 DEF AddFrame, diskVars
  <2>2. NextFrame \in Frame /\ buffer.size + 1 \in 1..MaxFrames /\ buffer.take \in Take
    BY <2>1, NextFrameIsFrame
  <2>3. buffer' \in [episode : Nat, size : 0..MaxFrames, take : Nat \ {0}] /\ buffer'.take = buffer.take
    BY <2>1, <2>2, <1>0, <1>f
  <2>4. pictures' \in Seq(Frame)
    <3>1. \/ UNCHANGED pictures
          \/ pictures' = IF buffer.size < Len(pictures)
                         THEN [pictures EXCEPT ![buffer.size + 1] = NextFrame]
                         ELSE Append(pictures, NextFrame)
      BY <1>1 DEF AddFrame
    <3>2. pictures \in Seq(Frame) /\ buffer.size \in Nat
      BY <1>f DEF RecorderT
    <3>3. CASE UNCHANGED pictures
      BY <3>2, <3>3
    <3>4. CASE buffer.size < Len(pictures) /\ pictures' = [pictures EXCEPT ![buffer.size + 1] = NextFrame]
      BY <3>2, <3>4, <2>2
    <3>5. CASE pictures' = Append(pictures, NextFrame)
      BY <3>2, <3>5, <2>2
    <3> QED
      BY <3>1, <3>3, <3>4, <3>5
  <2>5. Stream!TypeOK'
    <3>1. \/ UNCHANGED streamVars
          \/ Stream!StartEpisode(NextFrame) \/ Stream!FeedFrame(NextFrame) \/ Stream!DropFrame
      BY <1>1 DEF AddFrame
    <3>2. Stream!TypeOK
      BY DEF RecorderT
    <3> QED
      BY <3>1, <3>2, <2>2, StreamStep
  <2>6. dropped' \subseteq Take
    BY <1>1, <2>2 DEF AddFrame, RecorderT
  <2> QED
    BY <2>1, <2>3, <2>4, <2>5, <2>6 DEF RecorderT, TakeInv
<1>2. CASE ClearEpisodeBuffer
  <2>1. /\ pc = "frames" /\ buffer' = NewBuffer(info.episodes, buffer.take + 1) /\ Stream!Cleanup
        /\ UNCHANGED <<mode, pc, pictures, info, session, faults, raised, saved, dropped, hurt>>
    BY <1>2 DEF ClearEpisodeBuffer, diskVars, historyVars, Stream!CancelEpisode
  <2>2. buffer' \in [episode : Nat, size : 0..MaxFrames, take : Nat \ {0}] /\ buffer'.size = 0
    BY <2>1, <1>0, <1>f DEF NewBuffer
  <2>3. Stream!TypeOK'
    BY <2>1, StreamStep DEF RecorderT
  <2> QED
    BY <2>1, <2>2, <2>3 DEF RecorderT, TakeInv
<1>3. CASE SaveData
  <2>1. /\ pc = "frames" /\ buffer.size > 0 /\ pc' \in {"finish", "video"}
        /\ UNCHANGED <<mode, buffer, pictures, info, streamVars, session, faults, raised, saved, dropped, hurt>>
    BY <1>3 DEF SaveData, historyVars
  <2>2. Stream!TypeOK'
    BY <2>1, StreamStep DEF RecorderT
  <2> QED
    BY <2>1, <2>2 DEF RecorderT, TakeInv
<1>4. CASE PutSentinel
  <2>1. /\ pc = "finish" /\ Stream!PutSentinel /\ pc' = "join"
        /\ UNCHANGED <<mode, buffer, pictures, info, session, faults, raised, saved, dropped, hurt>>
    BY <1>4 DEF PutSentinel, diskVars, historyVars
  <2>2. Stream!TypeOK'
    BY <2>1, StreamStep DEF RecorderT
  <2> QED
    BY <2>1, <2>2 DEF RecorderT, TakeInv
<1>5. CASE EncodePictures \/ JoinEncoder \/ JoinTimesOut
  <2>1. /\ pc \in {"video", "join"} /\ pc' = "meta"
        /\ UNCHANGED <<mode, buffer, info, session, raised, saved, hurt>>
        /\ pictures' = <<>> \/ UNCHANGED pictures
        /\ UNCHANGED faults \/ (faults < MaxFaults /\ faults' = faults + 1)
        /\ UNCHANGED dropped \/ dropped' = dropped \cup {buffer.take}
        /\ UNCHANGED streamVars \/ Stream!Cleanup
    BY <1>5 DEF EncodePictures, JoinEncoder, JoinTimesOut, SaveVideo, Fault, Stream!JoinOk, Stream!JoinTimesOut
  <2>2. Stream!TypeOK'
    BY <2>1, StreamStep DEF RecorderT
  <2>3. buffer.take \in Take
    BY <2>1, <1>0, <1>f DEF TakeInv, Take
  <2>4. faults' \in 0..MaxFaults
    BY <2>1, <1>0, <1>f
  <2>5. dropped' \subseteq Take /\ pictures' \in Seq(Frame)
    <3>1. dropped \subseteq Take /\ pictures \in Seq(Frame)
      BY DEF RecorderT
    <3>2. dropped' \subseteq Take
      BY <2>1, <2>3, <3>1
    <3>3. pictures' = <<>> \/ pictures' = pictures
      BY <2>1
    <3>4. pictures' \in Seq(Frame)
      <4>1. CASE pictures' = <<>>
        BY <4>1
      <4>2. CASE pictures' = pictures
        BY <3>1, <4>2
      <4> QED
        BY <3>3, <4>1, <4>2
    <3> QED
      BY <3>2, <3>4
  <2> QED
    BY <2>1, <2>2, <2>4, <2>5 DEF RecorderT, TakeInv
<1>6. CASE SaveMetadata
  <2>1. /\ pc = "meta" /\ pc' = "info"
        /\ UNCHANGED <<mode, buffer, pictures, info, streamVars, session, faults, raised, saved, dropped, hurt>>
    BY <1>6 DEF SaveMetadata, historyVars
  <2>2. Stream!TypeOK'
    BY <2>1, StreamStep DEF RecorderT
  <2> QED
    BY <2>1, <2>2 DEF RecorderT, TakeInv
<1>7. CASE WriteInfo
  <2>1. /\ pc = "info" /\ pc' = "frames" /\ buffer' = NewBuffer(info.episodes + 1, buffer.take + 1)
        /\ info' = [episodes |-> info.episodes + 1, frames |-> info.frames + buffer.size]
        /\ saved' = Append(saved, [take |-> buffer.take, size |-> buffer.size])
        /\ UNCHANGED <<mode, pictures, streamVars, session, faults, raised, dropped, hurt>>
    BY <1>7 DEF WriteInfo
  <2>2. Stream!TypeOK'
    BY <2>1, StreamStep DEF RecorderT
  <2>3. /\ buffer' \in [episode : Nat, size : 0..MaxFrames, take : Nat \ {0}] /\ buffer'.size = 0
        /\ info' \in [episodes : Nat, frames : Nat]
    <3>1. info.episodes \in Nat /\ info.frames \in Nat /\ buffer.take \in Nat /\ buffer.size \in Nat
      BY <1>0, <1>f DEF RecorderT
    <3>2. buffer' = [episode |-> info.episodes + 1, size |-> 0, take |-> buffer.take + 1]
      BY <2>1 DEF NewBuffer
    <3>3. 0 \in 0..MaxFrames /\ buffer.take + 1 \in Nat \ {0} /\ info.episodes + 1 \in Nat
      BY <3>1, WriterAssumption
    <3>4. info' \in [episodes : Nat, frames : Nat]
      BY <2>1, <3>1
    <3> QED
      BY <3>2, <3>3, <3>4
  <2>4. saved' \in Seq([take : Take, size : 1..MaxFrames])
    <3>1. [take |-> buffer.take, size |-> buffer.size] \in [take : Take, size : 1..MaxFrames]
      BY <2>1, <1>0, <1>f DEF TakeInv, Take
    <3> QED
      BY <2>1, <3>1 DEF RecorderT
  <2>5. /\ mode' \in Modes /\ pictures' \in Seq(Frame) /\ session' \in 1..MaxSessions
        /\ faults' \in 0..MaxFaults /\ raised' \in BOOLEAN
        /\ dropped' \subseteq Take /\ hurt' \in 0..MaxSessions
    BY <2>1 DEF RecorderT
  <2>6. RecorderT'
    BY <2>1, <2>2, <2>3, <2>4, <2>5 DEF RecorderT
  <2> QED
    BY <2>1, <2>3, <2>6 DEF TakeInv
<1>8. CASE EndSession \/ Raise \/ CopyRaises \/ EncoderRaises
  <2>1. /\ pc' = "close data" /\ raised' \in BOOLEAN /\ Stream!Cleanup
        /\ hurt' \in {hurt, session}
        /\ UNCHANGED faults \/ (faults < MaxFaults /\ faults' = faults + 1)
        /\ UNCHANGED <<mode, buffer, pictures, info, session, saved, dropped>>
    BY <1>8 DEF EndSession, Raise, CopyRaises, EncoderRaises, Leave, Fault, diskVars, Stream!CancelEpisode
  <2>2. Stream!TypeOK'
    BY <2>1, StreamStep DEF RecorderT
  <2>3. faults' \in 0..MaxFaults
    <3>1. faults' = faults \/ (faults < MaxFaults /\ faults' = faults + 1)
      BY <2>1
    <3> QED
      BY <3>1, <1>0, <1>f
  <2>4. hurt' \in 0..MaxSessions
    <3>1. hurt' = hurt \/ hurt' = session
      BY <2>1
    <3> QED
      BY <3>1, <1>0, <1>f
  <2> QED
    BY <2>1, <2>2, <2>3, <2>4 DEF RecorderT, TakeInv
<1>9. CASE FinalizeData \/ FinalizeMeta
  <2>1. /\ pc' \in {"close meta", "ended"}
        /\ pictures' = <<>> \/ UNCHANGED pictures
        /\ UNCHANGED <<mode, buffer, info, streamVars, session, faults, raised, saved, dropped, hurt>>
    BY <1>9 DEF FinalizeData, FinalizeMeta, historyVars
  <2>2. Stream!TypeOK'
    BY <2>1, StreamStep DEF RecorderT
  <2>3. pictures' \in Seq(Frame)
    <3>1. pictures \in Seq(Frame)
      BY DEF RecorderT
    <3>2. pictures' = <<>> \/ pictures' = pictures
      BY <2>1
    <3>3. CASE pictures' = <<>>
      BY <3>3
    <3>4. CASE pictures' = pictures
      BY <3>1, <3>4
    <3> QED
      BY <3>2, <3>3, <3>4
  <2> QED
    BY <2>1, <2>2, <2>3 DEF RecorderT, TakeInv
<1>10. CASE Kill
  <2>1. /\ pc' = "killed" /\ Stream!Cleanup /\ hurt' \in {hurt, session}
        /\ faults < MaxFaults /\ faults' = faults + 1
        /\ UNCHANGED <<mode, buffer, pictures, info, session, raised, saved, dropped>>
    BY <1>10 DEF Kill, Fault
  <2>2. Stream!TypeOK'
    BY <2>1, StreamStep DEF RecorderT
  <2>3. faults' \in 0..MaxFaults
    BY <2>1, <1>0, <1>f
  <2>4. hurt' \in 0..MaxSessions
    BY <2>1, <1>0, <1>f
  <2> QED
    BY <2>1, <2>2, <2>3, <2>4 DEF RecorderT, TakeInv
<1>11. CASE Resume
  <2>1. /\ session < MaxSessions /\ pc' = "frames" /\ session' = session + 1 /\ raised' = FALSE
        /\ buffer' = NewBuffer(info.episodes, buffer.take + 1)
        /\ UNCHANGED <<mode, pictures, info, streamVars, faults, saved, dropped, hurt>>
    BY <1>11 DEF Resume, diskVars, historyVars
  <2>2. Stream!TypeOK'
    BY <2>1, StreamStep DEF RecorderT
  <2>3. /\ buffer' \in [episode : Nat, size : 0..MaxFrames, take : Nat \ {0}] /\ buffer'.size = 0
        /\ session' \in 1..MaxSessions
    BY <2>1, <1>0, <1>f DEF NewBuffer
  <2>4. raised' \in BOOLEAN
    BY <2>1
  <2>5. RecorderT'
    BY <2>1, <2>2, <2>3, <2>4 DEF RecorderT
  <2> QED
    BY <2>1, <2>3, <2>5 DEF TakeInv
<1>12. CASE EncoderStep \/ EncoderFails
  <2>1. /\ Stream!TakeFrame \/ Stream!EncodeFrame \/ Stream!CloseVideo \/ Stream!EncoderFails
        /\ UNCHANGED faults \/ (faults < MaxFaults /\ faults' = faults + 1)
        /\ UNCHANGED <<mode, pc, buffer, pictures, info, session, raised, saved, dropped, hurt>>
    BY <1>12 DEF EncoderStep, EncoderFails, Fault, diskVars, historyVars
  <2>2. Stream!TypeOK'
    BY <2>1, StreamStep DEF RecorderT
  <2>3. faults' \in 0..MaxFaults
    BY <2>1, <1>0, <1>f
  <2> QED
    BY <2>1, <2>2, <2>3 DEF RecorderT, TakeInv
<1>13. CASE UNCHANGED vars
  <2>1. UNCHANGED <<mode, pc, buffer, pictures, info, streamVars, session, faults, raised, saved, dropped, hurt>>
    BY <1>13 DEF vars, diskVars, historyVars
  <2>2. Stream!TypeOK'
    BY <2>1, StreamStep DEF RecorderT
  <2> QED
    BY <2>1, <2>2 DEF RecorderT, TakeInv
<1>14. CASE CopyFails
  <2>1. /\ pc \in {"video", "join"} /\ pc' = "broken" /\ latestMeta # None
        /\ pictures' = <<>> \/ UNCHANGED pictures
        /\ UNCHANGED streamVars \/ Stream!Cleanup
        /\ faults < MaxFaults /\ faults' = faults + 1
        /\ dropped' = dropped \cup {buffer.take}
                         \cup {videos[latestMeta.video][i][1] : i \in 1..Len(videos[latestMeta.video])}
        /\ UNCHANGED <<mode, buffer, info, session, raised, saved, hurt>>
    BY <1>14 DEF CopyFails, Fault, Stream!JoinOk, Stream!JoinTimesOut
  <2>2. Stream!TypeOK'
    BY <2>1, StreamStep DEF RecorderT
  <2>3. faults' \in 0..MaxFaults
    BY <2>1, <1>0, <1>f
  <2>4. pictures' \in Seq(Frame)
    <3>1. pictures \in Seq(Frame)
      BY DEF RecorderT
    <3>2. CASE pictures' = <<>>
      BY <3>2
    <3>3. CASE pictures' = pictures
      BY <3>1, <3>3
    <3> QED
      BY <3>2, <3>3, <2>1
  <2>5. buffer.size > 0 /\ buffer.take \in Take
    BY <2>1, <1>0, <1>f DEF TakeInv, Take
  <2>6. ASSUME NEW i \in 1..Len(videos[latestMeta.video])
        PROVE  videos[latestMeta.video][i][1] \in Take
    <3>1. latestMeta.video \in DOMAIN videos /\ videos \in Seq(Seq(Frame))
      BY <2>1 DEF FilesT
    <3>2. PICK film \in Seq(Frame) : film = videos[latestMeta.video]
      BY <3>1
    <3>3. film[i] \in Frame
      BY <3>2
    <3> QED
      BY <3>2, <3>3 DEF Frame
  <2>7. dropped' \subseteq Take
    BY <2>1, <2>5, <2>6 DEF RecorderT
  <2> QED
    BY <2>1, <2>2, <2>3, <2>4, <2>5, <2>7 DEF RecorderT, TakeInv
<1> QED
  BY <1>1, <1>2, <1>3, <1>4, <1>5, <1>6, <1>7, <1>8, <1>9, <1>10, <1>11, <1>12, <1>13, <1>14
  DEF Next, SaveStep

----------------------------------------------------------------------------
(* The invariant. *)

\* The stretch of video r names is there, if no copy over the file failed.
HasFilm(r) == r.video \in DOMAIN videos /\ (r.video \in torn \/ r.stop <= Len(videos[r.video]))

\* The last data file, and the last video, the session knows of.
DataKnown ==
  IF latest # None THEN latest.file ELSE IF episodes = <<>> THEN 0 ELSE Last(episodes).data
VideoKnown ==
  IF latestMeta # None THEN latestMeta.video ELSE IF episodes = <<>> THEN 0 ELSE Last(episodes).video

\* The metadata files are in order, and the session knows the last record that was written.
MetaInv ==
  /\ FilesInOrder(meta.files)
  /\ ~Alive => meta.open = 0 /\ meta.buffer = <<>>
  /\ Alive /\ latestMeta = None =>
       /\ meta.open = 0 /\ meta.buffer = <<>>
       /\ meta.files = <<>> => episodes = <<>>
       /\ meta.files # <<>> => episodes # <<>> /\ Last(episodes) = LastOf(meta.files)
  /\ Alive /\ latestMeta # None => InOrder(meta, latestMeta) /\ HasFilm(latestMeta)

\* The data file that is open is the last one the session has written to, and has no footer.
DataInv ==
  /\ ~Alive => data.open = 0
  /\ Alive /\ latest = None => latestMeta = None /\ data.open = 0
  /\ Alive /\ latest # None => data.open = IF pc = "close meta" THEN 0 ELSE latest.file
  /\ Alive /\ latestMeta # None => latestMeta.data <= latest.file
  /\ Alive /\ latest # None /\ episodes # <<>> => Last(episodes).data <= latest.file
  /\ data.open # 0 => ~data.files[data.open].footer

\* What save_episode has written of the episode before it writes its metadata.
SaveInv ==
  /\ pc \in {"finish", "join", "video", "meta"} =>
       /\ latest # None /\ draft.data = latest.file
       /\ HasRows(draft.data, buffer.episode, buffer.size)
  /\ pc = "meta" =>
       /\ draft.start \in Nat /\ draft.stop \in Nat
       /\ VideoKnown <= draft.video /\ HasFilm(draft)

\* A session appends only to a video that is not torn: with a copy that fails it ends.
TornInv ==
  /\ torn \subseteq Nat /\ infoWhole \in BOOLEAN
  /\ pc \in (InSave \ {"broken"}) \cup {"frames"} /\ latestMeta # None => latestMeta.video \notin torn
  /\ pc = "meta" => draft.video \notin torn

WriterInv ==
  RecorderT /\ FilesT /\ TakeInv /\ MetaInv /\ DataInv /\ SaveInv /\ TornInv /\ MetadataHasData

LEMMA RecordedAre == Recorded = RecordsOf(meta)
BY DEF Recorded, RecordsOf

\* The numbers among the types of the files.
LEMMA FilesFacts ==
  ASSUME FilesT
  PROVE  /\ data.files \in Seq(FileT(RowT)) /\ data.open \in 0..Len(data.files)
         /\ Len(data.files) \in Nat /\ DOMAIN data.files = 1..Len(data.files)
         /\ meta \in MetaT /\ Len(meta.files) \in Nat /\ DOMAIN meta.files = 1..Len(meta.files)
         /\ videos \in Seq(Seq(Frame)) /\ Len(videos) \in Nat /\ DOMAIN videos = 1..Len(videos)
         /\ latest # None => latest.file \in 1..Len(data.files)
         /\ latestMeta # None => latestMeta \in RecordT
         /\ episodes # <<>> => Last(episodes) \in RecordT
<1>1. /\ data.files \in Seq(FileT(RowT)) /\ data.open \in Nat /\ data.open <= Len(data.files)
      /\ videos \in Seq(Seq(Frame))
  BY DEF FilesT
<1>2. meta \in MetaT /\ meta.files \in Seq(FileT(RecordT))
  BY DEF FilesT, MetaT
<1>3. latest # None => latest.file \in 1..Len(data.files)
  BY DEF FilesT
<1>4. latestMeta # None => latestMeta \in RecordT
  BY DEF FilesT
<1>5. episodes # <<>> => Last(episodes) \in RecordT
  BY DEF FilesT, Last
<1> QED
  BY <1>1, <1>2, <1>3, <1>4, <1>5

\* The last record of the metadata files is one of them.
LEMMA LastIsRecorded ==
  ASSUME NEW m \in MetaT, FilesInOrder(m.files), m.files # <<>>
  PROVE  LastOf(m.files) \in RecordsOf(m)
<1>1. m.files \in Seq(FileT(RecordT)) /\ Len(m.files) \in 1..Len(m.files)
  BY DEF MetaT
<1>2. m.files[Len(m.files)].rows \in Seq(RecordT)
  <2>1. m.files[Len(m.files)] \in FileT(RecordT)
    BY <1>1
  <2> QED
    BY <2>1 DEF FileT
<1>3. m.files[Len(m.files)].rows # <<>>
  BY <1>1 DEF FilesInOrder
<1>4. Len(m.files[Len(m.files)].rows) \in 1..Len(m.files[Len(m.files)].rows)
  BY <1>2, <1>3
<1> QED
  BY <1>1, <1>4, RecordPlace DEF LastOf, Last

\* No record points beyond the last files the session knows of, and these exist.
LEMMA NoneBeyond ==
  ASSUME FilesT, MetaInv, DataInv, MetadataHasData, Alive
  PROVE  /\ DataKnown \in 0..Len(data.files) /\ VideoKnown \in 0..Len(videos)
         /\ \A r \in Recorded : r \in RecordT /\ r.data <= DataKnown /\ r.video <= VideoKnown
<1>0. /\ meta \in MetaT /\ Len(data.files) \in Nat /\ DOMAIN data.files = 1..Len(data.files)
      /\ Len(videos) \in Nat /\ DOMAIN videos = 1..Len(videos)
      /\ latest # None => latest.file \in 1..Len(data.files)
      /\ latestMeta # None => latestMeta \in RecordT
      /\ episodes # <<>> => Last(episodes) \in RecordT
  BY FilesFacts
<1>1. \A r \in Recorded : r \in RecordT
  BY <1>0, RecordedAre, RecordsTyped
<1>2. CASE latestMeta # None
  <2>1. InOrder(meta, latestMeta) /\ HasFilm(latestMeta) /\ latest # None /\ latestMeta.data <= latest.file
    BY <1>2 DEF MetaInv, DataInv
  <2>2. \A r \in Recorded : r.data <= latestMeta.data /\ r.video <= latestMeta.video
    BY <2>1, RecordedAre DEF InOrder, Within
  <2>3. latestMeta.data \in Nat /\ latestMeta.video \in Nat /\ latest.file \in Nat
    BY <1>0, <1>2, <2>1 DEF RecordT
  <2>4. latestMeta.video \in 1..Len(videos)
    BY <1>0, <2>1 DEF HasFilm
  <2>5. DataKnown = latest.file /\ VideoKnown = latestMeta.video
    BY <1>2, <2>1 DEF DataKnown, VideoKnown
  <2>6. \A r \in Recorded : r.data \in Nat
    BY <1>1 DEF RecordT
  <2> QED
    BY <1>0, <1>1, <2>1, <2>2, <2>3, <2>4, <2>5, <2>6
<1>3. CASE latestMeta = None /\ meta.files = <<>>
  <2>1. meta.buffer = <<>> /\ episodes = <<>>
    BY <1>3 DEF MetaInv
  <2>2. Recorded = {}
    <3> SUFFICES ASSUME NEW r \in Recorded PROVE FALSE
      OBVIOUS
    <3>1. Len(meta.files) = 0 /\ Len(meta.buffer) = 0
      BY <1>3, <2>1
    <3>2. \/ \E k \in 1..Len(meta.files) : \E i \in 1..Len(meta.files[k].rows) : r = meta.files[k].rows[i]
          \/ \E i \in 1..Len(meta.buffer) : r = meta.buffer[i]
      BY <1>0, RecordedAre, RecordPlace
    <3> QED
      BY <3>1, <3>2
  <2>3. VideoKnown = 0 /\ DataKnown \in 0..Len(data.files)
    BY <1>0, <1>3, <2>1 DEF VideoKnown, DataKnown
  <2> QED
    BY <1>0, <2>2, <2>3
<1>4. CASE latestMeta = None /\ meta.files # <<>>
  <2>1. PICK last \in RecordT : last = Last(episodes) /\ last = LastOf(meta.files)
    BY <1>0, <1>4 DEF MetaInv
  <2>2. meta.buffer = <<>> /\ episodes # <<>> /\ FilesInOrder(meta.files)
    BY <1>4 DEF MetaInv
  <2>3. last \in Recorded
    BY <1>0, <1>4, <2>1, <2>2, RecordedAre, LastIsRecorded
  <2>4. last.data \in 1..Len(data.files) /\ last.video \in 1..Len(videos)
    BY <1>0, <2>3 DEF MetadataHasData, HasRows
  <2>5. \A r \in Recorded : r.data <= last.data /\ r.video <= last.video
    <3> SUFFICES ASSUME NEW r \in Recorded PROVE r.data <= last.data /\ r.video <= last.video
      OBVIOUS
    <3>1. Len(meta.buffer) = 0
      BY <2>2
    <3>2. \E k \in 1..Len(meta.files) : \E i \in 1..Len(meta.files[k].rows) : r = meta.files[k].rows[i]
      <4>1. \/ \E k \in 1..Len(meta.files) : \E i \in 1..Len(meta.files[k].rows) : r = meta.files[k].rows[i]
            \/ \E i \in 1..Len(meta.buffer) : r = meta.buffer[i]
        BY <1>0, RecordedAre, RecordPlace
      <4> QED
        BY <3>1, <4>1
    <3>3. /\ DOMAIN meta.files = 1..Len(meta.files)
          /\ \A k \in 1..Len(meta.files) : DOMAIN meta.files[k].rows = 1..Len(meta.files[k].rows)
      BY <1>0 DEF MetaT, FileT
    <3> QED
      BY <2>1, <2>2, <3>2, <3>3 DEF FilesInOrder, Within
  <2>6. VideoKnown = last.video /\ last.data <= DataKnown /\ DataKnown \in 0..Len(data.files)
    <3>1. VideoKnown = last.video
      BY <1>4, <2>1, <2>2 DEF VideoKnown
    <3>2. CASE latest = None
      BY <3>1, <3>2, <1>0, <2>1, <2>2, <2>4 DEF DataKnown
    <3>3. CASE latest # None
      <4>1. last.data <= latest.file
        BY <2>1, <2>2, <3>3 DEF DataInv
      <4> QED
        BY <4>1, <3>1, <3>3, <1>0 DEF DataKnown
    <3> QED
      BY <3>2, <3>3
  <2>7. \A r \in Recorded : r.data \in Nat /\ r.data <= DataKnown
    <3> SUFFICES ASSUME NEW r \in Recorded PROVE r.data \in Nat /\ r.data <= DataKnown
      OBVIOUS
    <3>1. r.data \in Nat
      BY <1>1 DEF RecordT
    <3>2. r.data <= last.data /\ last.data \in Nat
      BY <2>4, <2>5
    <3> QED
      BY <2>6, <3>1, <3>2
  <2>8. VideoKnown \in 0..Len(videos)
    BY <2>4, <2>6
  <2> QED
    BY <1>1, <2>5, <2>6, <2>7, <2>8
<1> QED
  BY <1>2, <1>3, <1>4

\* Steps that touch neither the files nor what the session knows of them.
LEMMA QuietStep ==
  ASSUME WriterInv, UNCHANGED <<data, meta, videos, torn, latest, latestMeta, episodes>>,
         Alive, Alive', pc # "close meta", pc' # "close meta"
  PROVE  FilesT' /\ MetaInv' /\ DataInv' /\ MetadataHasData'
<1>1. FilesT'
  BY DEF WriterInv, FilesT
<1>2. MetaInv'
  BY DEF WriterInv, MetaInv, HasFilm
<1>3. DataInv'
  BY DEF WriterInv, DataInv
<1>4. MetadataHasData'
  <2>1. MetadataHasData /\ data' = data /\ meta' = meta /\ videos' = videos
    BY DEF WriterInv
  <2>2. ASSUME NEW r \in Recorded'
        PROVE  (/\ HasRows(r.data, r.episode, r.to - r.from)
                /\ r.video \in DOMAIN videos /\ (r.video \in torn \/ r.stop <= Len(videos[r.video])))'
    <3>1. r \in Recorded
      BY <2>1 DEF Recorded
    <3>2. /\ HasRows(r.data, r.episode, r.to - r.from)
          /\ r.video \in DOMAIN videos /\ (r.video \in torn \/ r.stop <= Len(videos[r.video]))
      BY <2>1, <3>1 DEF MetadataHasData
    <3> QED
      BY <2>1, <3>2 DEF HasRows
  <2> QED
    BY <2>2 DEF MetadataHasData
<1> QED
  BY <1>1, <1>2, <1>3, <1>4

\* The rows of the episode.
LEMMA RowsAre ==
  ASSUME RecorderT, TakeInv, buffer.size > 0
  PROVE  /\ Rows \in Seq(RowT) /\ Len(Rows) = buffer.size
         /\ \A i \in 1..Len(Rows) : Rows[i].episode = buffer.episode
<1>1. /\ buffer.size \in Nat /\ buffer.size <= MaxFrames /\ buffer.episode \in Nat /\ info.frames \in Nat
      /\ buffer.take \in Nat /\ buffer.take # 0 /\ buffer.take <= MaxTakes /\ MaxTakes \in Nat
      /\ MaxFrames \in Nat
  BY RecorderFacts, WriterAssumption DEF TakeInv
<1>2. ASSUME NEW i \in 1..buffer.size
      PROVE  [episode |-> buffer.episode, frame |-> <<buffer.take, i>>, index |-> info.frames + i - 1] \in RowT
  <2>1. info.frames + i - 1 \in Nat /\ i \in 1..MaxFrames /\ buffer.take \in 1..MaxTakes
    BY <1>1
  <2>2. <<buffer.take, i>> \in Frame
    BY <2>1 DEF Frame, Take
  <2> QED
    BY <1>1, <2>1, <2>2 DEF RowT
<1> QED
  BY <1>1, <1>2 DEF Rows

\* What save_episode writes to data/: the episode's rows at the end of the file that is open, or
\* in a file beyond all that are known.
LEMMA SaveDataFiles ==
  ASSUME WriterInv, SaveData
  PROVE  \E k \in 1 .. Len(data.files) + 1 :
           /\ latest' = [file |-> k] /\ draft' = [data |-> k]
           /\ data' \in [files : Seq(FileT(RowT)), open : Nat] /\ data'.open = k
           /\ k <= Len(data'.files) /\ Len(data.files) <= Len(data'.files)
           /\ Len(data'.files) = IF k = Len(data.files) + 1 THEN k ELSE Len(data.files)
           /\ k = data.open \/ DataKnown < k
           /\ DataKnown <= k
           /\ \A j \in 1..Len(data.files) : j # k =>
                /\ data'.files[j].rows = data.files[j].rows
                /\ data.files[j].footer => data'.files[j] = data.files[j]
           /\ data.open # 0 /\ data.open # k => data'.files[data.open].footer
           /\ k = data.open => data'.files[k].rows = data.files[k].rows \o Rows
           /\ k # data.open => data'.files[k].rows = Rows
           /\ ~data'.files[k].footer
<1>0. /\ RecorderT /\ FilesT /\ TakeInv /\ MetaInv /\ DataInv /\ MetadataHasData
      /\ pc = "frames" /\ buffer.size > 0 /\ Alive
  BY DEF WriterInv, SaveData, Alive
<1>1. /\ data.files \in Seq(FileT(RowT)) /\ data.open \in 0..Len(data.files) /\ Len(data.files) \in Nat
      /\ latest # None => latest.file \in 1..Len(data.files)
  BY <1>0, FilesFacts
<1>2. DataKnown \in 0..Len(data.files)
  BY <1>0, NoneBeyond
<1>3. PICK k \in DataFiles :
        LET d == IF k = data.open THEN data ELSE CloseData(data) IN
        /\ data' = [files |-> WriteTo(d.files, d.open, k, Rows), open |-> k]
        /\ latest' = [file |-> k] /\ draft' = [data |-> k]
  BY DEF SaveData
<1>4. /\ k \in 1 .. Len(data.files) + 1 /\ DataKnown <= k
      /\ k = data.open \/ DataKnown < k
  <2>1. CASE latest # None
    <3>1. k \in {latest.file, latest.file + 1} /\ DataKnown = latest.file /\ data.open = latest.file
      BY <1>0, <2>1 DEF DataFiles, DataKnown, DataInv
    <3> QED
      BY <3>1, <2>1, <1>1
  <2>2. CASE latest = None
    <3>1. k = DataKnown + 1
      BY <1>2, <2>2 DEF DataFiles, DataKnown
    <3> QED
      BY <3>1, <1>1, <1>2
  <2> QED
    BY <2>1, <2>2
<1>5. Rows \in Seq(RowT)
  BY <1>0, RowsAre
<1>6. PICK d : d = IF k = data.open THEN data ELSE CloseData(data)
  OBVIOUS
<1>7. /\ d.files \in Seq(FileT(RowT)) /\ Len(d.files) = Len(data.files) /\ d.open \in 0..Len(data.files)
      /\ (k = d.open) <=> (k = data.open)
      /\ \A j \in 1..Len(data.files) :
           d.files[j].rows = data.files[j].rows /\ (data.files[j].footer => d.files[j] = data.files[j])
      /\ data.open # 0 /\ data.open # k => d.files[data.open].footer
      /\ k = data.open => d.files = data.files
  <2>1. CASE k = data.open
    BY <1>1, <1>6, <2>1
  <2>2. CASE k # data.open
    <3>1. d = [files |-> CloseFile(data.files, data.open), open |-> 0]
      BY <1>6, <2>2 DEF CloseData
    <3>2. PICK files : files = CloseFile(data.files, data.open)
      OBVIOUS
    <3>3. /\ files \in Seq(FileT(RowT)) /\ Len(files) = Len(data.files)
          /\ \A j \in 1..Len(data.files) :
               files[j].rows = data.files[j].rows /\ (data.files[j].footer => files[j] = data.files[j])
          /\ data.open # 0 => files[data.open].footer
      BY <1>1, <3>2, CloseFiles
    <3>4. d.files = files /\ d.open = 0
      BY <3>1, <3>2
    <3> QED
      BY <3>3, <3>4, <2>2, <1>1, <1>4
  <2> QED
    BY <2>1, <2>2
<1>8. PICK F : F = WriteTo(d.files, d.open, k, Rows)
  OBVIOUS
<1>9. PICK rows : rows = Rows
  OBVIOUS
<1>10. /\ F \in Seq(FileT(RowT))
       /\ Len(F) = IF k = Len(d.files) + 1 THEN k ELSE Len(d.files)
       /\ \A j \in 1..Len(d.files) : j # k => F[j] = d.files[j]
       /\ k = d.open => F[k].rows = d.files[k].rows \o rows
       /\ k # d.open => F[k].rows = rows
       /\ F[k].footer => k = d.open /\ d.files[k].footer
  <2>1. /\ d.files \in Seq(FileT(RowT)) /\ d.open \in 0..Len(d.files) /\ k \in 1 .. Len(d.files) + 1
        /\ rows \in Seq(RowT) /\ F = WriteTo(d.files, d.open, k, rows)
    BY <1>4, <1>5, <1>7, <1>8, <1>9
  <2>2. F \in Seq(FileT(RowT)) /\ Len(F) = IF k = Len(d.files) + 1 THEN k ELSE Len(d.files)
    BY <2>1, WriteToFiles
  <2>3. \A j \in 1..Len(d.files) : j # k => F[j] = d.files[j]
    BY <2>1, WriteToFiles
  <2>5. k # d.open => F[k].rows = rows
    BY <2>1, WriteToFiles
  <2>6. F[k].footer => k = d.open /\ d.files[k].footer
    BY <2>1, WriteToFiles
  <2>4. ASSUME k = d.open PROVE F[k].rows = d.files[k].rows \o rows
    <3>1. k \in 1..Len(d.files)
      BY <2>1, <2>4
    <3>2. F = [d.files EXCEPT ![k].rows = @ \o rows]
      BY <2>1, <2>4 DEF WriteTo
    <3>3. d.files[k] \in FileT(RowT)
      BY <3>1, <2>1
    <3>4. PICK grown : grown = d.files[k].rows \o rows
      OBVIOUS
    <3>5. F[k] = [d.files[k] EXCEPT !.rows = grown]
      BY <2>1, <3>1, <3>2, <3>3, <3>4
    <3> QED
      BY <3>3, <3>4, <3>5 DEF FileT
  <2> QED
    BY <2>2, <2>3, <2>4, <2>5, <2>6
<1>11. data' = [files |-> F, open |-> k] /\ latest' = [file |-> k] /\ draft' = [data |-> k]
  BY <1>3, <1>6, <1>8
<1>12. k \in Nat /\ k # 0
  BY <1>1, <1>4
<1>13. data' \in [files : Seq(FileT(RowT)), open : Nat] /\ data'.files = F /\ data'.open = k
  BY <1>10, <1>11, <1>12
<1>14. /\ k <= Len(F) /\ Len(data.files) <= Len(F)
       /\ Len(F) = IF k = Len(data.files) + 1 THEN k ELSE Len(data.files)
  BY <1>1, <1>4, <1>7, <1>10
<1>15. \A j \in 1..Len(data.files) : j # k =>
         F[j].rows = data.files[j].rows /\ (data.files[j].footer => F[j] = data.files[j])
  BY <1>7, <1>10
<1>18. data.open # 0 /\ data.open # k => F[data.open].footer
  BY <1>1, <1>7, <1>10
<1>16. ~F[k].footer
  <2> SUFFICES ASSUME F[k].footer PROVE FALSE
    OBVIOUS
  <2>1. k = data.open /\ data.files[k].footer
    BY <1>7, <1>10
  <2> QED
    BY <2>1, <1>0, <1>12 DEF DataInv
<1>17. /\ k = data.open => F[k].rows = data.files[k].rows \o rows
       /\ k # data.open => F[k].rows = rows
  BY <1>7, <1>10
<1> QED
  BY <1>4, <1>9, <1>11, <1>13, <1>14, <1>15, <1>16, <1>17, <1>18

\* Rows that stand together still do when the file grows.
LEMMA TogetherGrows ==
  ASSUME NEW a \in Seq(RowT), NEW b \in Seq(RowT), NEW e, NEW n \in Int, NEW c, c = a \o b,
         Together(a, e, n)
  PROVE  Together(c, e, n)
<1>1. PICK before \in 0 .. Len(a) - n : \A i \in 1..n : a[before + i].episode = e
  BY DEF Together
<1>2. Len(c) = Len(a) + Len(b) /\ Len(a) \in Nat /\ Len(b) \in Nat
  OBVIOUS
<1>3. before \in 0 .. Len(c) - n
  BY <1>1, <1>2
<1>4. ASSUME NEW i \in 1..n PROVE c[before + i].episode = e
  <2>1. before + i \in 1..Len(a)
    BY <1>1, <1>2
  <2>2. c[before + i] = a[before + i]
    BY <2>1
  <2> QED
    BY <2>2, <1>1
<1> QED
  BY <1>3, <1>4 DEF Together

\* The rows of an episode that are written stand together at the end of the file.
LEMMA TogetherAtEnd ==
  ASSUME NEW a \in Seq(RowT), NEW b \in Seq(RowT), NEW e, NEW c, c = a \o b,
         \A i \in 1..Len(b) : b[i].episode = e
  PROVE  Together(c, e, Len(b))
<1>2. Len(c) = Len(a) + Len(b) /\ Len(a) \in Nat /\ Len(b) \in Nat
  OBVIOUS
<1>3. Len(a) \in 0 .. Len(c) - Len(b)
  BY <1>2
<1>4. ASSUME NEW i \in 1..Len(b) PROVE c[Len(a) + i].episode = e
  <2>1. c[Len(a) + i] = b[i]
    BY <1>2
  <2> QED
    BY <2>1
<1> QED
  BY <1>3, <1>4 DEF Together

\* save_episode writes the rows of the episode: nothing a record points to is touched.
LEMMA SaveDataStep ==
  ASSUME WriterInv, SaveData
  PROVE  FilesT' /\ MetaInv' /\ DataInv' /\ SaveInv' /\ MetadataHasData'
<1>0. /\ RecorderT /\ FilesT /\ TakeInv /\ MetaInv /\ DataInv /\ MetadataHasData
      /\ pc = "frames" /\ buffer.size > 0 /\ Alive /\ pc' \in {"finish", "video"} /\ Alive'
      /\ UNCHANGED <<buffer, meta, latestMeta, episodes, videos, torn>>
  BY DEF WriterInv, SaveData, historyVars, Alive
<1>1. PICK k \in 1 .. Len(data.files) + 1 :
           /\ latest' = [file |-> k] /\ draft' = [data |-> k]
           /\ data' \in [files : Seq(FileT(RowT)), open : Nat] /\ data'.open = k
           /\ k <= Len(data'.files) /\ Len(data.files) <= Len(data'.files)
           /\ k = data.open \/ DataKnown < k
           /\ DataKnown <= k
           /\ \A j \in 1..Len(data.files) : j # k =>
                /\ data'.files[j].rows = data.files[j].rows
                /\ data.files[j].footer => data'.files[j] = data.files[j]
           /\ k = data.open => data'.files[k].rows = data.files[k].rows \o Rows
           /\ k # data.open => data'.files[k].rows = Rows
           /\ ~data'.files[k].footer
  BY SaveDataFiles
<1>2. /\ data.files \in Seq(FileT(RowT)) /\ data.open \in 0..Len(data.files)
      /\ Len(data.files) \in Nat /\ DOMAIN data.files = 1..Len(data.files)
      /\ latest # None => latest.file \in 1..Len(data.files)
      /\ latestMeta # None => latestMeta \in RecordT
      /\ episodes # <<>> => Last(episodes) \in RecordT
  BY <1>0, FilesFacts
<1>3. /\ data'.files \in Seq(FileT(RowT)) /\ Len(data'.files) \in Nat
      /\ DOMAIN data'.files = 1..Len(data'.files) /\ k \in 1..Len(data'.files)
  BY <1>1, <1>2
<1>4. latest' # None /\ latest'.file = k /\ draft'.data = k
  BY <1>1, <1>2, WriterAssumption
<1>5. FilesT'
  <2>1. latest' \in {None} \cup [file : 1..Len(data'.files)]
    BY <1>1, <1>3
  <2> QED
    BY <2>1, <1>0, <1>1 DEF FilesT
<1>6. MetaInv'
  BY <1>0 DEF MetaInv, HasFilm
<1>7. DataInv'
  <2>1. latestMeta # None => latestMeta.data <= k
    <3> SUFFICES ASSUME latestMeta # None PROVE latestMeta.data <= k
      OBVIOUS
    <3>1. latest # None /\ latestMeta.data <= latest.file /\ DataKnown = latest.file
      BY <1>0 DEF DataInv, DataKnown
    <3>2. latestMeta.data \in Nat
      BY <1>2 DEF RecordT
    <3> QED
      BY <3>1, <3>2, <1>1, <1>2
  <2>2. episodes # <<>> => Last(episodes).data <= k
    <3> SUFFICES ASSUME episodes # <<>> PROVE Last(episodes).data <= k
      OBVIOUS
    <3>1. Last(episodes).data \in Nat
      BY <1>2 DEF RecordT
    <3>2. CASE latest = None
      BY <3>2, <1>1 DEF DataKnown
    <3>3. CASE latest # None
      <4>1. Last(episodes).data <= latest.file /\ DataKnown = latest.file
        BY <3>3, <1>0 DEF DataInv, DataKnown
      <4> QED
        BY <3>1, <3>3, <4>1, <1>1, <1>2
    <3> QED
      BY <3>2, <3>3
  <2>3. pc' # "close meta" /\ data'.open = k /\ ~data'.files[k].footer
    BY <1>0, <1>1
  <2> QED
    BY <2>1, <2>2, <2>3, <1>0, <1>4 DEF DataInv
<1>8. PICK rows : rows = Rows
  OBVIOUS
<1>9. /\ rows \in Seq(RowT) /\ Len(rows) = buffer.size
      /\ \A i \in 1..Len(rows) : rows[i].episode = buffer.episode
  BY <1>0, <1>8, RowsAre
<1>10. k = data.open =>
         data.files[k].rows \in Seq(RowT) /\ data'.files[k].rows = data.files[k].rows \o rows
  <2> SUFFICES ASSUME k = data.open
               PROVE data.files[k].rows \in Seq(RowT) /\ data'.files[k].rows = data.files[k].rows \o rows
    OBVIOUS
  <2>1. data.files[k] \in FileT(RowT)
    BY <1>2
  <2> QED
    BY <2>1, <1>1, <1>8 DEF FileT
<1>11. k # data.open => data'.files[k].rows = rows
  BY <1>1, <1>8
<1>12. HasRows(k, buffer.episode, buffer.size)'
  <2>1. Together(data'.files[k].rows, buffer.episode, buffer.size)
    <3>1. CASE k = data.open
      BY <3>1, <1>9, <1>10, TogetherAtEnd
    <3>2. CASE k # data.open
      <4>1. <<>> \in Seq(RowT) /\ rows = <<>> \o rows
        BY <1>9
      <4>2. Together(rows, buffer.episode, Len(rows))
        BY <4>1, <1>9, TogetherAtEnd
      <4> QED
        BY <3>2, <4>2, <1>9, <1>11
    <3> QED
      BY <3>1, <3>2
  <2> QED
    BY <2>1, <1>0, <1>3 DEF HasRows
<1>13. SaveInv'
  BY <1>0, <1>4, <1>12 DEF SaveInv
<1>14. MetadataHasData'
  <2> SUFFICES ASSUME NEW r \in Recorded'
               PROVE (/\ HasRows(r.data, r.episode, r.to - r.from)
                      /\ r.video \in DOMAIN videos /\ (r.video \in torn \/ r.stop <= Len(videos[r.video])))'
    BY DEF MetadataHasData
  <2>1. r \in Recorded
    BY <1>0 DEF Recorded
  <2>2. /\ HasRows(r.data, r.episode, r.to - r.from)
        /\ r.video \in DOMAIN videos /\ (r.video \in torn \/ r.stop <= Len(videos[r.video]))
    BY <2>1, <1>0 DEF MetadataHasData
  <2>3. r.data <= DataKnown /\ r \in RecordT /\ DataKnown \in 0..Len(data.files)
    BY <2>1, <1>0, NoneBeyond
  <2>4. r.data \in 1..Len(data.files) /\ Together(data.files[r.data].rows, r.episode, r.to - r.from)
    BY <2>2, <1>2 DEF HasRows
  <2>5. Together(data'.files[r.data].rows, r.episode, r.to - r.from)
    <3>1. CASE r.data # k
      BY <3>1, <2>4, <1>1
    <3>2. CASE r.data = k
      <4>1. k = data.open
        BY <3>2, <2>3, <2>4, <1>1, <1>2
      <4>2. r.to - r.from \in Int
        BY <2>3 DEF RecordT
      <4> QED
        BY <3>2, <4>1, <4>2, <2>4, <1>9, <1>10, TogetherGrows
    <3> QED
      BY <3>1, <3>2
  <2>6. r.data \in DOMAIN data'.files
    BY <2>4, <1>1, <1>2, <1>3
  <2> QED
    BY <2>2, <2>5, <2>6, <1>0 DEF HasRows
<1> QED
  BY <1>5, <1>6, <1>7, <1>13, <1>14

\* Where an episode's video goes: to the end of the session's last one, or beyond all that are known.
LEMMA SaveVideoFiles ==
  ASSUME WriterInv, EncodePictures \/ JoinEncoder \/ JoinTimesOut
  PROVE  /\ pc \in {"video", "join"} /\ pc' = "meta"
         /\ UNCHANGED <<buffer, data, meta, latest, latestMeta, episodes>>
         /\ \E v \in 1 .. Len(videos) + 1 :
              /\ VideoKnown <= v
              /\ videos' \in Seq(Seq(Frame)) /\ Len(videos) <= Len(videos') /\ v <= Len(videos')
              /\ \A j \in 1..Len(videos) : j # v => videos'[j] = videos[j]
              /\ \/ VideoKnown < v
                 \/ /\ v <= Len(videos) /\ v \notin torn /\ Len(videos[v]) <= Len(videos'[v])
                    /\ \A i \in 1..Len(videos[v]) : videos'[v][i] = videos[v][i]
              /\ torn' = torn \ {v}
              /\ draft'.data = draft.data /\ draft'.video = v
              /\ draft'.start \in Nat /\ draft'.stop \in Nat /\ draft'.stop <= Len(videos'[v])
<1>0. FilesT /\ MetaInv /\ DataInv /\ MetadataHasData /\ RecorderT
  BY DEF WriterInv
<1>t. pc \in {"video", "join"} /\ latestMeta # None => latestMeta.video \notin torn
  BY DEF WriterInv, TornInv, InSave
<1>1. PICK frames \in Seq(Frame) : SaveVideo(frames) /\ pc \in {"video", "join"}
  <2>1. pictures \in Seq(Frame) /\ encoded \in Seq(Frame)
    BY <1>0 DEF RecorderT, Stream!TypeOK
  <2>2. \/ SaveVideo(pictures) /\ pc = "video"
        \/ SaveVideo(encoded) /\ pc = "join"
    BY DEF EncodePictures, JoinEncoder, JoinTimesOut
  <2> QED
    BY <2>1, <2>2
<1>2. PICK place \in VideoPlaces :
        /\ videos' = IF place.appended THEN [videos EXCEPT ![place.file] = @ \o frames]
                     ELSE IF place.file \in DOMAIN videos THEN [videos EXCEPT ![place.file] = frames]
                     ELSE Append(videos, frames)
        /\ draft' = [data |-> draft.data, video |-> place.file,
                     start |-> place.start, stop |-> place.start + Len(frames)]
        /\ torn' = torn \ {place.file}
  BY <1>1 DEF SaveVideo
<1>3. pc' = "meta" /\ UNCHANGED <<buffer, data, meta, latest, latestMeta, episodes>>
  BY <1>1 DEF SaveVideo
<1>4. Alive
  BY <1>1 DEF Alive
<1>5. /\ videos \in Seq(Seq(Frame)) /\ Len(videos) \in Nat /\ DOMAIN videos = 1..Len(videos)
      /\ latestMeta # None => latestMeta \in RecordT
  BY <1>0, FilesFacts
<1>6. VideoKnown \in 0..Len(videos)
  BY <1>0, <1>4, NoneBeyond
<1>7. PICK v : v = place.file
  OBVIOUS
<1>8. Len(frames) \in Nat
  OBVIOUS
<1>9. /\ v \in 1 .. Len(videos) + 1 /\ VideoKnown <= v /\ place.start \in Nat
      /\ place.appended => v <= Len(videos) /\ v \notin torn /\ place.start <= Len(videos[v])
      /\ ~place.appended => VideoKnown < v /\ place.start = 0
  <2>1. CASE latestMeta = None
    <3>1. v = VideoKnown + 1 /\ place.start = 0 /\ ~place.appended
      BY <2>1, <1>6, <1>7 DEF VideoPlaces, VideoKnown
    <3> QED
      BY <3>1, <1>5, <1>6
  <2>2. CASE latestMeta # None
    <3>1. \/ v = latestMeta.video /\ place.start = latestMeta.stop /\ place.appended
          \/ v = latestMeta.video + 1 /\ place.start = 0 /\ ~place.appended
      BY <2>2, <1>7 DEF VideoPlaces
    <3>2. VideoKnown = latestMeta.video /\ HasFilm(latestMeta) /\ latestMeta.stop \in Nat
      BY <2>2, <1>0, <1>4, <1>5 DEF VideoKnown, MetaInv, RecordT
    <3>3. /\ latestMeta.video \in 1..Len(videos) /\ latestMeta.video \notin torn
          /\ latestMeta.stop <= Len(videos[latestMeta.video])
      BY <3>2, <2>2, <1>1, <1>5, <1>t DEF HasFilm
    <3> QED
      BY <3>1, <3>2, <3>3, <1>5
  <2> QED
    BY <2>1, <2>2
<1>10. /\ draft'.data = draft.data /\ draft'.video = v /\ draft'.start = place.start
       /\ draft'.stop = place.start + Len(frames) /\ torn' = torn \ {v}
  BY <1>2, <1>7
<1>11. CASE place.appended
  <2>1. v \in 1..Len(videos) /\ videos[v] \in Seq(Frame) /\ place.start <= Len(videos[v])
    BY <1>5, <1>9, <1>11
  <2>2. PICK film : film = videos[v] \o frames
    OBVIOUS
  <2>3. /\ film \in Seq(Frame) /\ Len(film) = Len(videos[v]) + Len(frames) /\ Len(videos[v]) \in Nat
        /\ \A i \in 1..Len(videos[v]) : film[i] = videos[v][i]
    BY <2>1, <2>2
  <2>4. videos' = [videos EXCEPT ![v] = film]
    BY <1>2, <1>7, <1>11, <2>2
  <2>5. /\ videos' \in Seq(Seq(Frame)) /\ Len(videos') = Len(videos)
        /\ \A j \in 1..Len(videos) : videos'[j] = IF j = v THEN film ELSE videos[j]
    BY <2>1, <2>3, <2>4, <1>5
  <2>6. videos'[v] = film
    BY <2>1, <2>5
  <2>7. /\ Len(videos) <= Len(videos') /\ v <= Len(videos') /\ v <= Len(videos)
        /\ \A j \in 1..Len(videos) : j # v => videos'[j] = videos[j]
    BY <2>1, <2>5, <1>5
  <2>8. /\ Len(videos[v]) <= Len(videos'[v])
        /\ \A i \in 1..Len(videos[v]) : videos'[v][i] = videos[v][i]
    BY <2>3, <2>6, <1>8
  <2>9. draft'.start \in Nat /\ draft'.stop \in Nat /\ draft'.stop <= Len(videos'[v])
    BY <2>1, <2>3, <2>6, <1>8, <1>9, <1>10
  <2> QED
    BY <2>5, <2>7, <2>8, <2>9, <1>1, <1>3, <1>9, <1>10
<1>12. CASE ~place.appended
  <2>1. CASE v \in 1..Len(videos)
    <3>1. videos' = [videos EXCEPT ![v] = frames]
      BY <1>2, <1>5, <1>7, <1>12, <2>1
    <3>2. /\ videos' \in Seq(Seq(Frame)) /\ Len(videos') = Len(videos)
          /\ \A j \in 1..Len(videos) : videos'[j] = IF j = v THEN frames ELSE videos[j]
      BY <2>1, <3>1, <1>5
    <3>3. videos'[v] = frames
      BY <2>1, <3>2
    <3>4. /\ Len(videos) <= Len(videos') /\ v <= Len(videos')
          /\ \A j \in 1..Len(videos) : j # v => videos'[j] = videos[j]
      BY <2>1, <3>2, <1>5
    <3>5. draft'.start \in Nat /\ draft'.stop \in Nat /\ draft'.stop <= Len(videos'[v])
      BY <3>3, <1>8, <1>9, <1>10, <1>12
    <3> QED
      BY <3>2, <3>4, <3>5, <1>1, <1>3, <1>9, <1>10, <1>12
  <2>2. CASE v = Len(videos) + 1
    <3>1. videos' = Append(videos, frames)
      <4>1. v \notin DOMAIN videos
        BY <1>5, <2>2
      <4> QED
        BY <1>2, <1>7, <1>12, <4>1
    <3>2. /\ videos' \in Seq(Seq(Frame)) /\ Len(videos') = v /\ videos'[v] = frames
          /\ \A j \in 1..Len(videos) : videos'[j] = videos[j]
      BY <2>2, <3>1, <1>5
    <3>3. Len(videos) <= Len(videos') /\ v <= Len(videos')
      BY <2>2, <3>2, <1>5
    <3>4. draft'.start \in Nat /\ draft'.stop \in Nat /\ draft'.stop <= Len(videos'[v])
      BY <3>2, <1>8, <1>9, <1>10, <1>12
    <3> QED
      BY <3>2, <3>3, <3>4, <1>1, <1>3, <1>9, <1>10, <1>12
  <2>3. v \in 1..Len(videos) \/ v = Len(videos) + 1
    BY <1>5, <1>9
  <2> QED
    BY <2>1, <2>2, <2>3
<1> QED
  BY <1>11, <1>12

\* save_episode writes the video of the episode: no stretch a record names is touched.
LEMMA SaveVideoStep ==
  ASSUME WriterInv, EncodePictures \/ JoinEncoder \/ JoinTimesOut
  PROVE  FilesT' /\ MetaInv' /\ DataInv' /\ SaveInv' /\ MetadataHasData'
<1>0. /\ RecorderT /\ FilesT /\ MetaInv /\ DataInv /\ SaveInv /\ MetadataHasData
      /\ pc \in {"video", "join"} /\ pc' = "meta" /\ Alive /\ Alive'
      /\ UNCHANGED <<buffer, data, meta, latest, latestMeta, episodes>>
  BY SaveVideoFiles DEF WriterInv, Alive
<1>1. PICK v \in 1 .. Len(videos) + 1 :
              /\ VideoKnown <= v
              /\ videos' \in Seq(Seq(Frame)) /\ Len(videos) <= Len(videos') /\ v <= Len(videos')
              /\ \A j \in 1..Len(videos) : j # v => videos'[j] = videos[j]
              /\ \/ VideoKnown < v
                 \/ /\ v <= Len(videos) /\ v \notin torn /\ Len(videos[v]) <= Len(videos'[v])
                    /\ \A i \in 1..Len(videos[v]) : videos'[v][i] = videos[v][i]
              /\ torn' = torn \ {v}
              /\ draft'.data = draft.data /\ draft'.video = v
              /\ draft'.start \in Nat /\ draft'.stop \in Nat /\ draft'.stop <= Len(videos'[v])
  BY SaveVideoFiles
<1>2. /\ videos \in Seq(Seq(Frame)) /\ Len(videos) \in Nat /\ DOMAIN videos = 1..Len(videos)
      /\ latestMeta # None => latestMeta \in RecordT
  BY <1>0, FilesFacts
<1>3. Len(videos') \in Nat /\ DOMAIN videos' = 1..Len(videos')
  BY <1>1
\* A stretch of a video that is not beyond those known stays.
<1>4. ASSUME NEW r \in RecordT, HasFilm(r), r.video <= VideoKnown
      PROVE  /\ r.video \in DOMAIN videos'
             /\ r.video \in torn' \/ r.stop <= Len(videos'[r.video])
  <2>1. /\ r.video \in 1..Len(videos) /\ r.stop \in Nat
        /\ r.video \in torn \/ r.stop <= Len(videos[r.video])
    BY <1>2, <1>4 DEF HasFilm, RecordT
  <2>2. VideoKnown \in Nat
    <3>1. VideoKnown \in 0..Len(videos)
      BY <1>0, NoneBeyond
    <3> QED
      BY <3>1, <1>2
  <2>3. Len(videos[r.video]) \in Nat /\ Len(videos'[r.video]) \in Nat
    <3>1. videos' \in Seq(Seq(Frame)) /\ Len(videos) <= Len(videos')
      BY <1>1
    <3>2. videos[r.video] \in Seq(Frame)
      BY <2>1, <1>2
    <3>3. videos'[r.video] \in Seq(Frame)
      BY <2>1, <1>2, <1>3, <3>1
    <3> QED
      BY <3>2, <3>3
  <2>4. r.video \in 1..Len(videos')
    BY <2>1, <1>1, <1>2, <1>3
  <2>5. r.video \in torn' \/ r.stop <= Len(videos'[r.video])
    <3>1. CASE r.video # v
      BY <3>1, <2>1, <1>1
    <3>2. CASE r.video = v
      <4>1. v \notin torn /\ Len(videos[v]) <= Len(videos'[v])
        BY <3>2, <1>1, <1>4, <2>1, <2>2
      <4> QED
        BY <4>1, <3>2, <2>1, <2>3
    <3> QED
      BY <3>1, <3>2
  <2> QED
    BY <2>4, <2>5, <1>3
<1>5. FilesT'
  BY <1>0, <1>1 DEF FilesT
<1>6. MetaInv'
  <2>1. latestMeta # None => HasFilm(latestMeta)'
    <3> SUFFICES ASSUME latestMeta # None PROVE HasFilm(latestMeta)'
      OBVIOUS
    <3>1. HasFilm(latestMeta) /\ latestMeta \in RecordT /\ latestMeta.video = VideoKnown
      BY <1>0, <1>2 DEF MetaInv, VideoKnown
    <3>2. latestMeta.video \in Nat
      BY <3>1 DEF RecordT
    <3> QED
      BY <3>1, <3>2, <1>0, <1>4 DEF HasFilm
  <2> QED
    BY <2>1, <1>0 DEF MetaInv
<1>7. DataInv'
  BY <1>0 DEF DataInv
<1>8. SaveInv'
  <2>1. VideoKnown' = VideoKnown
    BY <1>0 DEF VideoKnown
  <2>2. HasFilm(draft)'
    BY <1>1, <1>2, <1>3 DEF HasFilm
  <2>3. HasRows(draft.data, buffer.episode, buffer.size)' /\ latest' # None /\ draft'.data = latest'.file
    BY <1>0, <1>1 DEF SaveInv, HasRows
  <2> QED
    BY <2>1, <2>2, <2>3, <1>0, <1>1 DEF SaveInv
<1>9. MetadataHasData'
  <2> SUFFICES ASSUME NEW r \in Recorded'
               PROVE (/\ HasRows(r.data, r.episode, r.to - r.from)
                      /\ r.video \in DOMAIN videos /\ (r.video \in torn \/ r.stop <= Len(videos[r.video])))'
    BY DEF MetadataHasData
  <2>1. r \in Recorded
    BY <1>0 DEF Recorded
  <2>2. /\ HasRows(r.data, r.episode, r.to - r.from)
        /\ r.video \in DOMAIN videos /\ (r.video \in torn \/ r.stop <= Len(videos[r.video]))
    BY <2>1, <1>0 DEF MetadataHasData
  <2>3. r \in RecordT /\ r.video <= VideoKnown
    BY <2>1, <1>0, NoneBeyond
  <2> QED
    BY <2>2, <2>3, <1>0, <1>4 DEF HasFilm, HasRows
<1> QED
  BY <1>5, <1>6, <1>7, <1>8, <1>9

\* The metadata of an episode: they follow the last ones known, and name what has been written.
LEMMA NextRecordIs ==
  ASSUME WriterInv, SaveMetadata, NEW rolls \in BOOLEAN, NEW record, record = NextRecord(rolls)
  PROVE  /\ record \in RecordT /\ record # None
         /\ record.episode = buffer.episode /\ record.to - record.from = buffer.size
         /\ record.from = (IF FirstEver THEN 0 ELSE Previous.to) /\ record.to = record.from + buffer.size
         /\ record.data = latest.file /\ record.video = draft.video
         /\ record.start = draft.start /\ record.stop = draft.stop
         /\ record.file = IF FirstEver THEN 1
                          ELSE IF latestMeta = None \/ rolls THEN Previous.file + 1 ELSE Previous.file
         /\ ~FirstEver => Previous \in RecordT
<1>0. FilesT /\ RecorderT /\ SaveInv /\ pc = "meta"
  BY DEF WriterInv, SaveMetadata
<1>1. /\ latest # None /\ draft.data = latest.file /\ draft.start \in Nat /\ draft.stop \in Nat
      /\ HasFilm(draft)
  BY <1>0 DEF SaveInv
<1>2. /\ latest.file \in 1..Len(data.files) /\ Len(data.files) \in Nat
      /\ DOMAIN videos = 1..Len(videos) /\ Len(videos) \in Nat
      /\ latestMeta # None => latestMeta \in RecordT
      /\ episodes # <<>> => Last(episodes) \in RecordT
  BY <1>0, <1>1, FilesFacts
<1>3. draft.data \in Nat \ {0} /\ draft.video \in Nat \ {0}
  BY <1>1, <1>2 DEF HasFilm
<1>4. ~FirstEver => Previous \in RecordT
  BY <1>2 DEF FirstEver, Previous
<1>5. buffer.episode \in Nat /\ buffer.size \in Nat
  BY <1>0, RecorderFacts
<1>6. PICK from : from = IF FirstEver THEN 0 ELSE Previous.to
  OBVIOUS
<1>7. PICK file : file = IF FirstEver THEN 1
                         ELSE IF latestMeta = None \/ rolls THEN Previous.file + 1 ELSE Previous.file
  OBVIOUS
<1>8. from \in Nat /\ file \in Nat \ {0}
  <2>1. CASE FirstEver
    BY <2>1, <1>6, <1>7
  <2>2. CASE ~FirstEver
    <3>1. Previous.to \in Nat /\ Previous.file \in Nat \ {0}
      BY <2>2, <1>4 DEF RecordT
    <3> QED
      BY <2>2, <3>1, <1>6, <1>7
  <2> QED
    BY <2>1, <2>2
<1>9. record = [episode |-> buffer.episode, from |-> from, to |-> from + buffer.size, file |-> file,
                data |-> draft.data, video |-> draft.video, start |-> draft.start, stop |-> draft.stop]
  BY <1>6, <1>7 DEF NextRecord
<1>10. record \in RecordT
  BY <1>1, <1>3, <1>5, <1>8, <1>9 DEF RecordT
<1>11. record # None
  BY <1>10, WriterAssumption
<1>12. /\ record.episode = buffer.episode /\ record.to - record.from = buffer.size
       /\ record.from = from /\ record.to = record.from + buffer.size
       /\ record.data = latest.file /\ record.video = draft.video
       /\ record.start = draft.start /\ record.stop = draft.stop /\ record.file = file
  BY <1>1, <1>5, <1>8, <1>9
<1> QED
  BY <1>4, <1>6, <1>7, <1>10, <1>11, <1>12

\* The new record goes to the open file, or to a file of its own when the file before is closed.
LEMMA RecordFollows ==
  ASSUME WriterInv, SaveMetadata, NEW rolls \in BOOLEAN, rolls => latestMeta # None,
         NEW record, record = NextRecord(rolls),
         NEW m, m = IF rolls THEN CloseMeta(meta) ELSE meta
  PROVE  /\ m \in MetaT /\ FilesInOrder(m.files) /\ RecordsOf(m) \subseteq RecordsOf(meta)
         /\ Len(m.buffer) < MetaBufferSize
         /\ \/ \E last \in RecordT : InOrder(m, last) /\ record.file = last.file
            \/ m.open = 0 /\ m.buffer = <<>> /\ record.file = Len(m.files) + 1
<1>0. FilesT /\ MetaInv /\ pc = "meta" /\ Alive
  BY DEF WriterInv, SaveMetadata, Alive
<1>1. /\ record.file = IF FirstEver THEN 1
                       ELSE IF latestMeta = None \/ rolls THEN Previous.file + 1 ELSE Previous.file
      /\ ~FirstEver => Previous \in RecordT
  BY NextRecordIs
<1>2. meta \in MetaT /\ (latestMeta # None => latestMeta \in RecordT) /\ Len(meta.buffer) < MetaBufferSize
  BY <1>0, FilesFacts DEF FilesT
<1>3. latestMeta # None => InOrder(meta, latestMeta)
  BY <1>0 DEF MetaInv
<1>4. CASE rolls
  <2>1. m = CloseMeta(meta) /\ latestMeta # None /\ latestMeta \in RecordT /\ InOrder(meta, latestMeta)
    BY <1>4, <1>2, <1>3
  <2>2. /\ m \in MetaT /\ m.open = 0 /\ m.buffer = <<>>
        /\ FilesInOrder(m.files) /\ Len(m.files) = latestMeta.file
        /\ RecordsOf(m) \subseteq RecordsOf(meta)
    BY <2>1, <1>2, CloseInOrder
  <2>3. record.file = latestMeta.file + 1
    BY <2>1, <1>4, <1>1 DEF FirstEver, Previous
  <2>4. Len(m.buffer) < MetaBufferSize
    BY <2>2, WriterAssumption
  <2> QED
    BY <2>2, <2>3, <2>4
<1>5. CASE ~rolls /\ latestMeta # None
  <2>1. m = meta /\ latestMeta \in RecordT /\ InOrder(meta, latestMeta) /\ record.file = latestMeta.file
    BY <1>5, <1>1, <1>2, <1>3 DEF FirstEver, Previous
  <2> QED
    BY <2>1, <1>2 DEF InOrder
<1>6. CASE ~rolls /\ latestMeta = None
  <2>1. m = meta /\ meta.open = 0 /\ meta.buffer = <<>> /\ FilesInOrder(meta.files)
    BY <1>6, <1>0 DEF MetaInv
  <2>2. record.file = Len(meta.files) + 1
    <3>1. CASE episodes = <<>>
      <4>1. meta.files = <<>>
        BY <3>1, <1>6, <1>0 DEF MetaInv
      <4> QED
        BY <4>1, <3>1, <1>6, <1>1 DEF FirstEver
    <3>2. CASE episodes # <<>>
      <4>1. meta.files # <<>> /\ Last(episodes) = LastOf(meta.files)
        BY <3>2, <1>6, <1>0 DEF MetaInv
      <4>2. record.file = Last(episodes).file + 1
        BY <3>2, <1>6, <1>1 DEF FirstEver, Previous
      <4>3. LastOf(meta.files).file = Len(meta.files)
        <5>1. Len(meta.files) \in DOMAIN meta.files
          BY <4>1, <1>2 DEF MetaT
        <5>2. PICK rows \in Seq(RecordT) : rows = meta.files[Len(meta.files)].rows
          <6>1. meta.files \in Seq(FileT(RecordT))
            BY <1>2 DEF MetaT
          <6>2. meta.files[Len(meta.files)] \in FileT(RecordT)
            BY <5>1, <6>1
          <6> QED
            BY <6>2 DEF FileT
        <5>3. rows # <<>> /\ \A i \in DOMAIN rows : rows[i].file = Len(meta.files)
          BY <2>1, <5>1, <5>2 DEF FilesInOrder
        <5>4. Len(rows) \in DOMAIN rows
          BY <5>2, <5>3
        <5> QED
          BY <5>2, <5>3, <5>4 DEF LastOf, Last
      <4> QED
        BY <4>1, <4>2, <4>3
    <3> QED
      BY <3>1, <3>2
  <2>3. RecordsOf(m) \subseteq RecordsOf(meta) /\ Len(m.buffer) < MetaBufferSize
    BY <2>1, <1>2
  <2> QED
    BY <2>1, <2>2, <2>3, <1>2
<1> QED
  BY <1>4, <1>5, <1>6

\* save_episode writes the metadata: the new record is the last and points to what was just written.
LEMMA SaveMetadataStep ==
  ASSUME WriterInv, SaveMetadata
  PROVE  FilesT' /\ MetaInv' /\ DataInv' /\ SaveInv' /\ MetadataHasData'
<1>0. /\ RecorderT /\ FilesT /\ MetaInv /\ DataInv /\ SaveInv /\ MetadataHasData
      /\ pc = "meta" /\ pc' = "info" /\ Alive /\ Alive'
      /\ UNCHANGED <<buffer, data, videos, torn, latest, episodes, draft>>
  BY DEF WriterInv, SaveMetadata, historyVars, Alive
<1>1. PICK rolls \in BOOLEAN :
        /\ rolls => latestMeta # None
        /\ meta' = AddRecord(IF rolls THEN CloseMeta(meta) ELSE meta, NextRecord(rolls))
        /\ latestMeta' = NextRecord(rolls)
  BY DEF SaveMetadata
<1>2. PICK record : record = NextRecord(rolls)
  OBVIOUS
<1>3. /\ record \in RecordT /\ record # None
      /\ record.episode = buffer.episode /\ record.to - record.from = buffer.size
      /\ record.data = latest.file /\ record.video = draft.video /\ record.stop = draft.stop
  BY <1>2, NextRecordIs
<1>5. PICK m : m = IF rolls THEN CloseMeta(meta) ELSE meta
  OBVIOUS
<1>8. /\ m \in MetaT /\ FilesInOrder(m.files) /\ RecordsOf(m) \subseteq RecordsOf(meta)
      /\ Len(m.buffer) < MetaBufferSize
      /\ \/ \E last \in RecordT : InOrder(m, last) /\ record.file = last.file
         \/ m.open = 0 /\ m.buffer = <<>> /\ record.file = Len(m.files) + 1
  BY <1>1, <1>2, <1>5, RecordFollows
<1>9. ASSUME NEW q \in RecordsOf(m) PROVE Within(q, record)
  <2>1. q \in Recorded
    BY <1>8, <1>9, RecordedAre
  <2>2. q \in RecordT /\ q.data <= DataKnown /\ q.video <= VideoKnown
    BY <2>1, <1>0, NoneBeyond
  <2>3. DataKnown = latest.file /\ VideoKnown <= draft.video
    BY <1>0 DEF SaveInv, DataKnown
  <2>4. VideoKnown \in Nat
    <3>1. VideoKnown \in 0..Len(videos) /\ Len(videos) \in Nat
      BY <1>0, NoneBeyond, FilesFacts
    <3> QED
      BY <3>1
  <2>5. q.video \in Nat /\ record.video \in Nat
    BY <2>2, <1>3 DEF RecordT
  <2> QED
    BY <2>2, <2>3, <2>4, <2>5, <1>3 DEF Within
<1>10. meta' = AddRecord(m, record) /\ latestMeta' = record
  BY <1>1, <1>2, <1>5
<1>11. /\ meta' \in MetaT /\ InOrder(meta', record) /\ Len(meta'.buffer) < MetaBufferSize
       /\ RecordsOf(meta') \subseteq RecordsOf(m) \cup {record}
  BY <1>3, <1>8, <1>9, <1>10, AddInOrder
<1>12. FilesT'
  <2>1. meta'.open <= Len(meta'.files)
    <3>1. meta'.open = Len(meta'.files) \/ meta'.open = 0
      BY <1>11 DEF InOrder
    <3>2. Len(meta'.files) \in Nat
      BY <1>11 DEF MetaT
    <3> QED
      BY <3>1, <3>2
  <2> QED
    BY <2>1, <1>0, <1>3, <1>10, <1>11 DEF FilesT
<1>13. HasFilm(record)
  <2>1. HasFilm(draft)
    BY <1>0 DEF SaveInv
  <2> QED
    BY <2>1, <1>3 DEF HasFilm
<1>14. MetaInv'
  <2>1. FilesInOrder(meta'.files)
    BY <1>11 DEF InOrder
  <2>2. HasFilm(record)'
    BY <1>0, <1>13 DEF HasFilm
  <2> QED
    BY <2>1, <2>2, <1>0, <1>3, <1>10, <1>11 DEF MetaInv, HasFilm
<1>15. DataInv'
  <2>1. latest # None /\ latest.file <= latest.file
    <3>1. latest # None
      BY <1>0 DEF SaveInv
    <3>2. latest.file \in 1..Len(data.files)
      BY <3>1, <1>0, FilesFacts
    <3> QED
      BY <3>1, <3>2
  <2> QED
    BY <2>1, <1>0, <1>3, <1>10 DEF DataInv
<1>16. SaveInv'
  BY <1>0 DEF SaveInv
<1>17. MetadataHasData'
  <2> SUFFICES ASSUME NEW r \in Recorded'
               PROVE (/\ HasRows(r.data, r.episode, r.to - r.from)
                      /\ r.video \in DOMAIN videos /\ (r.video \in torn \/ r.stop <= Len(videos[r.video])))'
    BY DEF MetadataHasData
  <2>1. r \in RecordsOf(meta')
    BY DEF Recorded, RecordsOf
  <2>2. CASE r = record
    <3>1. HasRows(r.data, r.episode, r.to - r.from)
      BY <2>2, <1>0, <1>3 DEF SaveInv
    <3>2. r.video \in DOMAIN videos /\ (r.video \in torn \/ r.stop <= Len(videos[r.video]))
      BY <2>2, <1>13 DEF HasFilm
    <3> QED
      BY <3>1, <3>2, <1>0 DEF HasRows
  <2>3. CASE r # record
    <3>1. r \in Recorded
      BY <2>1, <2>3, <1>8, <1>11, RecordedAre
    <3>2. /\ HasRows(r.data, r.episode, r.to - r.from)
          /\ r.video \in DOMAIN videos /\ (r.video \in torn \/ r.stop <= Len(videos[r.video]))
      BY <3>1, <1>0 DEF MetadataHasData
    <3> QED
      BY <3>2, <1>0 DEF HasRows
  <2> QED
    BY <2>2, <2>3
<1> QED
  BY <1>12, <1>14, <1>15, <1>16, <1>17

\* Closing what is open leaves the rows, and the files that had been closed.
LEMMA CloseDataFiles ==
  ASSUME FilesT, data' = CloseData(data)
  PROVE  /\ data' \in [files : Seq(FileT(RowT)), open : Nat] /\ data'.open = 0
         /\ Len(data'.files) = Len(data.files)
         /\ \A j \in 1..Len(data.files) :
              /\ data'.files[j].rows = data.files[j].rows
              /\ data.files[j].footer => data'.files[j] = data.files[j]
<1>1. data.files \in Seq(FileT(RowT)) /\ data.open \in 0..Len(data.files)
  BY FilesFacts
<1>2. PICK files : files = CloseFile(data.files, data.open)
  OBVIOUS
<1>3. data' = [files |-> files, open |-> 0]
  BY <1>2 DEF CloseData
<1>4. /\ files \in Seq(FileT(RowT)) /\ Len(files) = Len(data.files)
      /\ \A j \in 1..Len(data.files) :
           files[j].rows = data.files[j].rows /\ (data.files[j].footer => files[j] = data.files[j])
  BY <1>1, <1>2, CloseFiles
<1>5. data'.files = files /\ data'.open = 0
  BY <1>3
<1> QED
  BY <1>3, <1>4, <1>5

\* Steps that keep the rows of every data file, the videos and, but for some that are lost, the records.
LEMMA NothingLost ==
  ASSUME FilesT, MetadataHasData, Recorded' \subseteq Recorded, videos' = videos, torn' = torn,
         Len(data'.files) = Len(data.files), DOMAIN data'.files = DOMAIN data.files,
         \A j \in 1..Len(data.files) : data'.files[j].rows = data.files[j].rows
  PROVE  MetadataHasData'
<1> SUFFICES ASSUME NEW r \in Recorded'
             PROVE (/\ HasRows(r.data, r.episode, r.to - r.from)
                    /\ r.video \in DOMAIN videos /\ (r.video \in torn \/ r.stop <= Len(videos[r.video])))'
  BY DEF MetadataHasData
<1>1. /\ HasRows(r.data, r.episode, r.to - r.from)
      /\ r.video \in DOMAIN videos /\ (r.video \in torn \/ r.stop <= Len(videos[r.video]))
  BY DEF MetadataHasData
<1>2. DOMAIN data.files = 1..Len(data.files)
  BY FilesFacts
<1> QED
  BY <1>1, <1>2 DEF HasRows

\* finalize: close_writer.
LEMMA FinalizeDataStep ==
  ASSUME WriterInv, FinalizeData
  PROVE  FilesT' /\ MetaInv' /\ DataInv' /\ SaveInv' /\ MetadataHasData'
<1>0. /\ FilesT /\ MetaInv /\ DataInv /\ MetadataHasData
      /\ pc = "close data" /\ pc' = "close meta" /\ Alive /\ Alive'
      /\ data' = CloseData(data)
      /\ UNCHANGED <<meta, videos, torn, latest, latestMeta, episodes>>
  BY DEF WriterInv, FinalizeData, Alive, memoryVars, historyVars
<1>1. /\ data' \in [files : Seq(FileT(RowT)), open : Nat] /\ data'.open = 0
      /\ Len(data'.files) = Len(data.files)
      /\ \A j \in 1..Len(data.files) : data'.files[j].rows = data.files[j].rows
  BY <1>0, CloseDataFiles
<1>2. DOMAIN data'.files = DOMAIN data.files /\ Len(data.files) \in Nat
  <2>1. data.files \in Seq(FileT(RowT)) /\ data'.files \in Seq(FileT(RowT))
    BY <1>0, <1>1, FilesFacts
  <2>2. /\ DOMAIN data.files = 1..Len(data.files) /\ Len(data.files) \in Nat
        /\ DOMAIN data'.files = 1..Len(data'.files)
    BY <2>1
  <2> QED
    BY <2>2, <1>1
<1>3. FilesT'
  <2>1. data'.open <= Len(data'.files)
    BY <1>1, <1>2
  <2>2. latest' \in {None} \cup [file : 1..Len(data'.files)]
    <3>1. latest \in {None} \cup [file : 1..Len(data.files)]
      BY <1>0 DEF FilesT
    <3> QED
      BY <3>1, <1>0, <1>1
  <2>3. UNCHANGED <<meta, latestMeta, episodes, videos>>
    BY <1>0
  <2> QED
    BY <2>1, <2>2, <2>3, <1>0, <1>1 DEF FilesT
<1>4. MetaInv'
  BY <1>0 DEF MetaInv, HasFilm
<1>5. DataInv'
  BY <1>0, <1>1 DEF DataInv
<1>6. SaveInv'
  BY <1>0 DEF SaveInv
<1>7. MetadataHasData'
  <2>1. Recorded' = Recorded
    BY <1>0 DEF Recorded
  <2> QED
    BY <2>1, <1>0, <1>1, <1>2, NothingLost
<1> QED
  BY <1>3, <1>4, <1>5, <1>6, <1>7

\* finalize: the metadata are written and their file is closed.
LEMMA FinalizeMetaStep ==
  ASSUME WriterInv, FinalizeMeta
  PROVE  FilesT' /\ MetaInv' /\ DataInv' /\ SaveInv' /\ MetadataHasData'
<1>0. /\ FilesT /\ MetaInv /\ DataInv /\ MetadataHasData
      /\ pc = "close meta" /\ pc' = "ended" /\ Alive /\ ~Alive'
      /\ meta' = CloseMeta(meta)
      /\ UNCHANGED <<data, videos, torn, latest, latestMeta, episodes>>
  BY DEF WriterInv, FinalizeMeta, Alive, memoryVars, historyVars
<1>1. meta \in MetaT /\ (latestMeta # None => latestMeta \in RecordT)
  BY <1>0, FilesFacts
<1>2. /\ meta' \in MetaT /\ meta'.open = 0 /\ meta'.buffer = <<>> /\ FilesInOrder(meta'.files)
      /\ RecordsOf(meta') \subseteq RecordsOf(meta)
  <2>1. CASE latestMeta = None
    <3>1. meta.open = 0 /\ meta.buffer = <<>> /\ FilesInOrder(meta.files)
      BY <2>1, <1>0 DEF MetaInv
    <3>2. meta' \in MetaT /\ meta'.files = meta.files /\ meta'.open = 0 /\ meta'.buffer = <<>>
      BY <3>1, <1>0, <1>1, CloseIdle
    <3> QED
      BY <3>1, <3>2 DEF RecordsOf
  <2>2. CASE latestMeta # None
    <3>1. InOrder(meta, latestMeta) /\ latestMeta \in RecordT
      BY <2>2, <1>0, <1>1 DEF MetaInv
    <3> QED
      BY <3>1, <1>0, <1>1, CloseInOrder
  <2> QED
    BY <2>1, <2>2
<1>3. FilesT'
  <2>1. meta'.open <= Len(meta'.files) /\ Len(meta'.buffer) < MetaBufferSize
    BY <1>2, WriterAssumption DEF MetaT
  <2> QED
    BY <2>1, <1>0, <1>2 DEF FilesT
<1>4. MetaInv'
  BY <1>0, <1>2 DEF MetaInv
<1>5. DataInv'
  <2>1. data.open = 0
    BY <1>0 DEF DataInv
  <2> QED
    BY <2>1, <1>0 DEF DataInv
<1>6. SaveInv'
  BY <1>0 DEF SaveInv
<1>7. MetadataHasData'
  <2>1. Recorded' \subseteq Recorded
    BY <1>2, RecordedAre DEF Recorded, RecordsOf
  <2> QED
    BY <2>1, <1>0, NothingLost
<1> QED
  BY <1>3, <1>4, <1>5, <1>6, <1>7

\* The process is killed: what was not written is lost, what was written stays.
LEMMA KillStep ==
  ASSUME WriterInv, Kill
  PROVE  FilesT' /\ MetaInv' /\ DataInv' /\ SaveInv' /\ MetadataHasData'
<1>0. /\ FilesT /\ MetaInv /\ DataInv /\ MetadataHasData
      /\ pc' = "killed" /\ ~Alive'
      /\ data' = [data EXCEPT !.open = 0] /\ meta' = [meta EXCEPT !.open = 0, !.buffer = <<>>]
      /\ UNCHANGED <<videos, torn, latest, latestMeta, episodes>>
  BY DEF WriterInv, Kill, Alive, memoryVars
<1>1. /\ meta \in MetaT /\ data \in [files : Seq(FileT(RowT)), open : Nat] /\ Len(data.files) \in Nat
  BY <1>0, FilesFacts DEF FilesT
<1>2. data' \in [files : Seq(FileT(RowT)), open : Nat] /\ data'.files = data.files /\ data'.open = 0
  <2>1. data.files \in Seq(FileT(RowT))
    BY <1>1
  <2>2. data' = [files |-> data.files, open |-> 0]
    BY <1>0, <1>1
  <2> QED
    BY <2>1, <2>2
<1>3. meta' \in MetaT /\ meta'.files = meta.files /\ meta'.open = 0 /\ meta'.buffer = <<>>
  <2>1. meta.files \in Seq(FileT(RecordT))
    BY <1>1 DEF MetaT
  <2>2. meta' = [files |-> meta.files, open |-> 0, buffer |-> <<>>]
    BY <1>0, <1>1 DEF MetaT
  <2> QED
    BY <2>1, <2>2 DEF MetaT
<1>4. FilesT'
  <2>1. meta'.open <= Len(meta'.files) /\ Len(meta'.buffer) < MetaBufferSize /\ data'.open <= Len(data'.files)
    BY <1>1, <1>2, <1>3, WriterAssumption DEF MetaT
  <2> QED
    BY <2>1, <1>0, <1>2, <1>3 DEF FilesT
<1>5. MetaInv'
  BY <1>0, <1>3 DEF MetaInv
<1>6. DataInv'
  BY <1>0, <1>2 DEF DataInv
<1>7. SaveInv'
  BY <1>0 DEF SaveInv
<1>8. MetadataHasData'
  <2>1. Recorded' \subseteq Recorded
    BY <1>3 DEF Recorded, ToSet
  <2> QED
    BY <2>1, <1>0, <1>2, NothingLost
<1> QED
  BY <1>4, <1>5, <1>6, <1>7, <1>8

\* A session resumes: the last record loaded is the last one written.
LEMMA ResumeStep ==
  ASSUME WriterInv, Resume
  PROVE  FilesT' /\ MetaInv' /\ DataInv' /\ SaveInv' /\ MetadataHasData'
<1>0. /\ FilesT /\ MetaInv /\ DataInv /\ MetadataHasData
      /\ pc' = "frames" /\ ~Alive /\ Alive' /\ meta.files # <<>>
      /\ episodes' = Records(meta.files) /\ latest' = None /\ latestMeta' = None
      /\ UNCHANGED <<data, meta, videos, torn>>
  BY DEF WriterInv, Resume, Alive, diskVars, historyVars
<1>1. meta \in MetaT /\ meta.files \in Seq(FileT(RecordT))
  BY <1>0, FilesFacts DEF MetaT
<1>2. PICK s : s = [k \in DOMAIN meta.files |-> meta.files[k].rows]
  OBVIOUS
<1>3. /\ s \in Seq(Seq(RecordT)) /\ Len(s) = Len(meta.files) /\ Len(meta.files) \in Nat \ {0}
      /\ s[Len(s)] = meta.files[Len(meta.files)].rows
  <2>1. /\ DOMAIN meta.files = 1..Len(meta.files) /\ Len(meta.files) \in Nat \ {0}
        /\ \A k \in 1..Len(meta.files) : meta.files[k] \in FileT(RecordT)
    BY <1>0, <1>1
  <2>2. \A k \in 1..Len(meta.files) : meta.files[k].rows \in Seq(RecordT)
    BY <2>1 DEF FileT
  <2> QED
    BY <2>1, <2>2, <1>2
<1>4. s # <<>> /\ s[Len(s)] # <<>>
  <2>1. Len(meta.files) \in DOMAIN meta.files
    BY <1>1, <1>3
  <2> QED
    BY <2>1, <1>0, <1>3 DEF MetaInv, FilesInOrder
<1>5. /\ episodes' \in Seq(RecordT) /\ episodes' # <<>>
      /\ Last(episodes') = LastOf(meta.files)
  <2>1. episodes' = FlattenSeq(s)
    BY <1>0, <1>2 DEF Records
  <2> QED
    BY <2>1, <1>3, <1>4, FlattenLast DEF LastOf
<1>6. FilesT'
  BY <1>0, <1>5 DEF FilesT
<1>7. MetaInv'
  BY <1>0, <1>5 DEF MetaInv
<1>8. DataInv'
  BY <1>0 DEF DataInv
<1>9. SaveInv'
  BY <1>0 DEF SaveInv
<1>10. MetadataHasData'
  <2>1. Recorded' = Recorded
    BY <1>0 DEF Recorded
  <2> QED
    BY <2>1, <1>0, NothingLost
<1> QED
  BY <1>6, <1>7, <1>8, <1>9, <1>10

\* Steps that touch neither the files nor what the session knows of them: recording, waiting for
\* the encoder, the end of save_episode, leaving.
LEMMA QuietSteps ==
  ASSUME WriterInv, UNCHANGED <<data, meta, videos, torn, latest, latestMeta, episodes>>,
         Alive, Alive', pc # "close meta", pc' # "close meta",
         \/ pc' \notin {"finish", "join", "video", "meta"}
         \/ pc = "finish" /\ pc' = "join" /\ UNCHANGED <<buffer, draft>>
  PROVE  FilesT' /\ MetaInv' /\ DataInv' /\ SaveInv' /\ MetadataHasData'
<1>1. FilesT' /\ MetaInv' /\ DataInv' /\ MetadataHasData'
  BY QuietStep
<1>2. SaveInv'
  <2>1. CASE pc' \notin {"finish", "join", "video", "meta"}
    BY <2>1 DEF SaveInv
  <2>2. CASE pc = "finish" /\ pc' = "join" /\ UNCHANGED <<buffer, draft>>
    BY <2>2 DEF WriterInv, SaveInv, HasRows
  <2> QED
    BY <2>1, <2>2
<1> QED
  BY <1>1, <1>2

\* Steps of the encoder's thread, and stuttering.
LEMMA StandStill ==
  ASSUME WriterInv, UNCHANGED <<pc, buffer, data, meta, videos, torn, latest, latestMeta, episodes, draft>>
  PROVE  FilesT' /\ MetaInv' /\ DataInv' /\ SaveInv' /\ MetadataHasData'
<1>0. FilesT /\ MetaInv /\ DataInv /\ SaveInv /\ MetadataHasData /\ Alive' = Alive
  BY DEF WriterInv, Alive
<1>1. FilesT'
  BY <1>0 DEF FilesT
<1>2. MetaInv'
  BY <1>0 DEF MetaInv, HasFilm
<1>3. DataInv'
  BY <1>0 DEF DataInv
<1>4. SaveInv'
  BY <1>0 DEF SaveInv, HasRows, HasFilm, VideoKnown
<1>5. MetadataHasData'
  <2>1. Recorded' = Recorded
    BY DEF Recorded
  <2> QED
    BY <2>1, <1>0, NothingLost
<1> QED
  BY <1>1, <1>2, <1>3, <1>4, <1>5

\* A copy fails: of the session's last video a beginning is left, no other is touched.
LEMMA CopyFailsFiles ==
  ASSUME WriterInv, CopyFails
  PROVE  /\ pc \in {"video", "join"} /\ pc' = "broken" /\ latestMeta # None
         /\ UNCHANGED <<buffer, data, meta, latest, latestMeta, episodes, saved, hurt>>
         /\ latestMeta \in RecordT /\ latestMeta.video \in 1..Len(videos)
         /\ torn' = torn \cup {latestMeta.video}
         /\ videos' \in Seq(Seq(Frame)) /\ Len(videos') = Len(videos) /\ DOMAIN videos' = DOMAIN videos
         /\ \A j \in 1..Len(videos) : j # latestMeta.video => videos'[j] = videos[j]
<1>1. /\ pc \in {"video", "join"} /\ pc' = "broken" /\ latestMeta # None
      /\ UNCHANGED <<buffer, data, meta, latest, latestMeta, episodes, saved, hurt>>
      /\ torn' = torn \cup {latestMeta.video}
  BY DEF CopyFails, memoryVars
<1>2. FilesT /\ MetaInv /\ Alive
  BY <1>1 DEF WriterInv, Alive
<1>3. /\ videos \in Seq(Seq(Frame)) /\ Len(videos) \in Nat /\ DOMAIN videos = 1..Len(videos)
      /\ latestMeta \in RecordT
  BY <1>1, <1>2, FilesFacts
<1>4. latestMeta.video \in 1..Len(videos)
  BY <1>1, <1>2, <1>3 DEF MetaInv, HasFilm
<1>5. PICK film \in Seq(Frame) : film = videos[latestMeta.video]
  BY <1>3, <1>4
<1>6. PICK n \in 0..Len(film) : videos' = [videos EXCEPT ![latestMeta.video] = SubSeq(film, 1, n)]
  BY <1>5 DEF CopyFails
<1>7. SubSeq(film, 1, n) \in Seq(Frame)
  OBVIOUS
<1>8. PICK left \in Seq(Frame) : videos' = [videos EXCEPT ![latestMeta.video] = left]
  BY <1>6, <1>7
<1>9. /\ videos' \in Seq(Seq(Frame)) /\ Len(videos') = Len(videos) /\ DOMAIN videos' = DOMAIN videos
      /\ \A j \in 1..Len(videos) : j # latestMeta.video => videos'[j] = videos[j]
  BY <1>3, <1>4, <1>8
<1> QED
  BY <1>1, <1>3, <1>4, <1>9

LEMMA CopyFailsStep ==
  ASSUME WriterInv, CopyFails
  PROVE  FilesT' /\ MetaInv' /\ DataInv' /\ SaveInv' /\ MetadataHasData'
<1>0. /\ FilesT /\ MetaInv /\ DataInv /\ SaveInv /\ MetadataHasData
      /\ pc \in {"video", "join"} /\ pc' = "broken" /\ Alive /\ Alive' /\ latestMeta # None
      /\ UNCHANGED <<buffer, data, meta, latest, latestMeta, episodes>>
  BY CopyFailsFiles DEF WriterInv, Alive
<1>1. /\ latestMeta.video \in 1..Len(videos) /\ torn' = torn \cup {latestMeta.video}
      /\ videos' \in Seq(Seq(Frame)) /\ DOMAIN videos' = DOMAIN videos
      /\ \A j \in 1..Len(videos) : j # latestMeta.video => videos'[j] = videos[j]
      /\ DOMAIN videos = 1..Len(videos)
  BY CopyFailsFiles, <1>0, FilesFacts
<1>2. FilesT'
  BY <1>0, <1>1 DEF FilesT
<1>3. ASSUME NEW r, HasFilm(r)
      PROVE  r.video \in DOMAIN videos' /\ (r.video \in torn' \/ r.stop <= Len(videos'[r.video]))
  BY <1>1, <1>3 DEF HasFilm
<1>4. MetaInv'
  <2>1. HasFilm(latestMeta)'
    BY <1>0, <1>3 DEF HasFilm, MetaInv
  <2> QED
    BY <2>1, <1>0 DEF MetaInv
<1>5. DataInv'
  BY <1>0 DEF DataInv
<1>6. SaveInv'
  BY <1>0 DEF SaveInv
<1>7. MetadataHasData'
  <2> SUFFICES ASSUME NEW r \in Recorded'
               PROVE (/\ HasRows(r.data, r.episode, r.to - r.from)
                      /\ r.video \in DOMAIN videos /\ (r.video \in torn \/ r.stop <= Len(videos[r.video])))'
    BY DEF MetadataHasData
  <2>1. r \in Recorded
    BY <1>0 DEF Recorded
  <2>2. HasRows(r.data, r.episode, r.to - r.from) /\ HasFilm(r)
    BY <2>1, <1>0 DEF MetadataHasData, HasFilm
  <2> QED
    BY <2>2, <1>0, <1>3 DEF HasRows
<1> QED
  BY <1>2, <1>4, <1>5, <1>6, <1>7

\* What is torn is the video of a session that is leaving, or of an earlier one.
LEMMA TornStep ==
  ASSUME WriterInv, [Next]_vars
  PROVE  TornInv'
<1> USE DEF InSave
<1>0. /\ TornInv /\ torn \subseteq Nat /\ infoWhole \in BOOLEAN
      /\ FilesT /\ RecorderT
  BY DEF WriterInv, TornInv
<1>1. CASE SaveMetadata
  <2>1. /\ pc = "meta" /\ pc' = "info" /\ UNCHANGED <<torn, infoWhole>>
    BY <1>1 DEF SaveMetadata, historyVars
  <2>2. latestMeta'.video = draft.video
    BY <1>1 DEF SaveMetadata, NextRecord
  <2> QED
    BY <2>1, <2>2, <1>0 DEF TornInv
<1>2. CASE EncodePictures \/ JoinEncoder \/ JoinTimesOut
  <2>1. /\ pc \in {"video", "join"} /\ pc' = "meta" /\ UNCHANGED <<infoWhole, latestMeta>>
    BY <1>2 DEF EncodePictures, JoinEncoder, JoinTimesOut, SaveVideo
  <2>2. PICK v \in 1 .. Len(videos) + 1 : torn' = torn \ {v} /\ draft'.video = v
    BY <1>2, SaveVideoFiles
  <2> QED
    BY <2>1, <2>2, <1>0 DEF TornInv
<1>3. CASE CopyFails
  <2>1. /\ pc' = "broken" /\ UNCHANGED infoWhole /\ torn' = torn \cup {latestMeta.video}
        /\ latestMeta.video \in Nat
    BY <1>3, CopyFailsFiles DEF CopyFails, RecordT
  <2> QED
    BY <2>1, <1>0 DEF TornInv
<1>4. CASE Resume
  <2>1. pc' = "frames" /\ latestMeta' = None /\ UNCHANGED <<torn, infoWhole>>
    BY <1>4 DEF Resume, diskVars, historyVars
  <2> QED
    BY <2>1, <1>0 DEF TornInv
<1>5. CASE EndSession \/ Raise \/ CopyRaises \/ EncoderRaises
  <2>1. pc' = "close data" /\ UNCHANGED torn /\ (UNCHANGED infoWhole \/ InfoLeft)
    BY <1>5 DEF EndSession, Raise, CopyRaises, EncoderRaises, Leave
  <2> QED
    BY <2>1, <1>0 DEF TornInv, InfoLeft
<1>6. CASE Kill
  <2>1. pc' = "killed" /\ UNCHANGED torn /\ InfoLeft
    BY <1>6 DEF Kill
  <2> QED
    BY <2>1, <1>0 DEF TornInv, InfoLeft
<1>7. CASE FinalizeData \/ FinalizeMeta
  <2>1. pc' \in {"close meta", "ended"} /\ UNCHANGED <<torn, infoWhole>>
    BY <1>7 DEF FinalizeData, FinalizeMeta, historyVars
  <2> QED
    BY <2>1, <1>0 DEF TornInv
<1>8. CASE SaveData \/ PutSentinel \/ WriteInfo
  <2>1. /\ pc \in {"frames", "finish", "info"} /\ pc' # "meta"
        /\ UNCHANGED <<torn, infoWhole, latestMeta>>
    BY <1>8 DEF SaveData, PutSentinel, WriteInfo, memoryVars, diskVars, historyVars
  <2> QED
    BY <2>1, <1>0 DEF TornInv
<1>9. CASE AddFrame \/ ClearEpisodeBuffer \/ EncoderStep \/ EncoderFails \/ UNCHANGED vars
  <2>1. UNCHANGED <<pc, torn, infoWhole, latestMeta, draft>>
    BY <1>9 DEF AddFrame, ClearEpisodeBuffer, EncoderStep, EncoderFails, vars, memoryVars, diskVars,
                historyVars
  <2> QED
    BY <2>1, <1>0 DEF TornInv
<1> QED
  BY <1>1, <1>2, <1>3, <1>4, <1>5, <1>6, <1>7, <1>8, <1>9 DEF Next, SaveStep

----------------------------------------------------------------------------
(* The theorems. *)

\* A dataset that is begun has nothing in it.
LEMMA WriterInvInit == Init => WriterInv
<1> SUFFICES ASSUME Init PROVE WriterInv
  OBVIOUS
<1>0. /\ MetaBufferSize \in Nat /\ MetaBufferSize # 0 /\ QueueMax \in Nat
      /\ MaxFrames \in Nat /\ MaxSessions \in Nat /\ MaxSessions # 0 /\ MaxFaults \in Nat
  BY WriterAssumption
<1>1. /\ mode \in Modes /\ pc = "frames" /\ buffer = NewBuffer(0, 1) /\ pictures = <<>>
      /\ data = [files |-> <<>>, open |-> 0] /\ latest = None
      /\ meta = [files |-> <<>>, open |-> 0, buffer |-> <<>>] /\ latestMeta = None
      /\ episodes = <<>> /\ videos = <<>> /\ info = NoInfo /\ Stream!Idle
      /\ session = 1 /\ faults = 0 /\ raised = FALSE /\ saved = <<>> /\ dropped = {} /\ hurt = 0
      /\ torn = {} /\ infoWhole = TRUE
  BY DEF Init
<1>2. RecorderT
  <2>1. Stream!TypeOK
    BY <1>0, <1>1 DEF Stream!Idle, Stream!TypeOK
  <2>2. buffer \in [episode : Nat, size : 0..MaxFrames, take : Nat \ {0}]
    BY <1>0, <1>1 DEF NewBuffer
  <2>3. info \in [episodes : Nat, frames : Nat]
    BY <1>1 DEF NoInfo
  <2>4. session \in 1..MaxSessions /\ faults \in 0..MaxFaults /\ hurt \in 0..MaxSessions
    BY <1>0, <1>1
  <2>5. pictures \in Seq(Frame) /\ saved \in Seq([take : Take, size : 1..MaxFrames])
    BY <1>1
  <2>6. raised \in BOOLEAN /\ dropped \subseteq Take
    BY <1>1
  <2>7. mode \in Modes /\ pc \in InSave \cup {"frames", "close data", "close meta", "ended", "killed"}
    BY <1>1
  <2> QED
    BY <2>1, <2>2, <2>3, <2>4, <2>5, <2>6, <2>7 DEF RecorderT
<1>3. FilesT
  <2>1. meta \in MetaT /\ meta.open = 0 /\ Len(meta.files) = 0 /\ Len(meta.buffer) = 0
    BY <1>1 DEF MetaT
  <2>2. /\ data \in [files : Seq(FileT(RowT)), open : Nat] /\ data.open = 0 /\ Len(data.files) = 0
    BY <1>1
  <2> QED
    BY <1>0, <1>1, <2>1, <2>2 DEF FilesT
<1>4. TakeInv
  BY <1>1 DEF TakeInv, InSave, NewBuffer
<1>5. MetaInv
  BY <1>1 DEF MetaInv, Alive, FilesInOrder
<1>6. DataInv
  BY <1>1 DEF DataInv, Alive
<1>7. SaveInv
  BY <1>1 DEF SaveInv
<1>8. MetadataHasData
  BY <1>1 DEF MetadataHasData, Recorded, Written, ToSet
<1>9. TornInv
  BY <1>1 DEF TornInv
<1> QED
  BY <1>2, <1>3, <1>4, <1>5, <1>6, <1>7, <1>8, <1>9 DEF WriterInv

\* Every step keeps the invariant.
LEMMA WriterInvStep == WriterInv /\ [Next]_vars => WriterInv'
<1> SUFFICES ASSUME WriterInv, [Next]_vars PROVE WriterInv'
  OBVIOUS
<1>0. RecorderT' /\ TakeInv'
  <2>1. pc \in InSave /\ latestMeta # None => latestMeta.video \in DOMAIN videos
    BY DEF WriterInv, MetaInv, HasFilm, Alive, InSave
  <2> QED
    BY <2>1, RecorderStep DEF WriterInv
<1>t. TornInv'
  BY TornStep
<1> SUFFICES FilesT' /\ MetaInv' /\ DataInv' /\ SaveInv' /\ MetadataHasData'
  BY <1>0, <1>t DEF WriterInv
<1>1. CASE AddFrame
  <2>1. /\ pc = "frames" /\ pc' = "frames" /\ UNCHANGED <<data, meta, videos, torn, latest, latestMeta, episodes>>
    BY <1>1 DEF AddFrame, diskVars, memoryVars
  <2> QED
    BY <2>1, QuietSteps DEF Alive
<1>2. CASE ClearEpisodeBuffer
  <2>1. /\ pc = "frames" /\ pc' = "frames" /\ UNCHANGED <<data, meta, videos, torn, latest, latestMeta, episodes>>
    BY <1>2 DEF ClearEpisodeBuffer, diskVars, memoryVars, historyVars
  <2> QED
    BY <2>1, QuietSteps DEF Alive
<1>3. CASE SaveData
  BY <1>3, SaveDataStep
<1>4. CASE PutSentinel
  <2>1. /\ pc = "finish" /\ pc' = "join" /\ UNCHANGED <<buffer, draft>>
        /\ UNCHANGED <<data, meta, videos, torn, latest, latestMeta, episodes>>
    BY <1>4 DEF PutSentinel, diskVars, memoryVars, historyVars
  <2> QED
    BY <2>1, QuietSteps DEF Alive
<1>5. CASE EncodePictures \/ JoinEncoder \/ JoinTimesOut
  BY <1>5, SaveVideoStep
<1>6. CASE SaveMetadata
  BY <1>6, SaveMetadataStep
<1>7. CASE WriteInfo
  <2>1. /\ pc = "info" /\ pc' = "frames" /\ UNCHANGED <<data, meta, videos, torn, latest, latestMeta, episodes>>
    BY <1>7 DEF WriteInfo
  <2> QED
    BY <2>1, QuietSteps DEF Alive
<1>8. CASE EndSession \/ Raise \/ CopyRaises \/ EncoderRaises
  <2>1. /\ pc \in InSave \cup {"frames"} /\ pc' = "close data"
        /\ UNCHANGED <<data, meta, videos, torn, latest, latestMeta, episodes>>
    BY <1>8 DEF EndSession, Raise, CopyRaises, EncoderRaises, Leave, diskVars, memoryVars, InSave
  <2> QED
    BY <2>1, QuietSteps DEF Alive, InSave
<1>9. CASE FinalizeData
  BY <1>9, FinalizeDataStep
<1>10. CASE FinalizeMeta
  BY <1>10, FinalizeMetaStep
<1>11. CASE Kill
  BY <1>11, KillStep
<1>12. CASE Resume
  BY <1>12, ResumeStep
<1>13. CASE EncoderStep \/ EncoderFails
  <2>1. UNCHANGED <<pc, buffer, data, meta, videos, torn, latest, latestMeta, episodes, draft>>
    BY <1>13 DEF EncoderStep, EncoderFails, diskVars, memoryVars, historyVars
  <2> QED
    BY <2>1, StandStill
<1>14. CASE UNCHANGED vars
  <2>1. UNCHANGED <<pc, buffer, data, meta, videos, torn, latest, latestMeta, episodes, draft>>
    BY <1>14 DEF vars, diskVars, memoryVars, historyVars
  <2> QED
    BY <2>1, StandStill
<1>15. CASE CopyFails
  BY <1>15, CopyFailsStep
<1> QED
  BY <1>1, <1>2, <1>3, <1>4, <1>5, <1>6, <1>7, <1>8, <1>9, <1>10, <1>11, <1>12, <1>13, <1>14, <1>15
  DEF Next, SaveStep

\* The invariant holds, whatever is killed or fails.
LEMMA WriterInvHolds == Spec => []WriterInv
BY WriterInvInit, WriterInvStep, PTL DEF Spec

(* Whatever is killed or fails in any number of sessions, the writer's state keeps its types; in
   particular files are opened in their place and the metadata buffer stays below its size. *)
THEOREM WriterTypeCorrect == Spec => []TypeOK
<1>1. WriterInv => TypeOK
  BY TypeParts DEF WriterInv, TornInv
<1> QED
  BY <1>1, WriterInvHolds, PTL

(* Whatever is killed or fails, and whenever files have reached their size limit, an episode with
   metadata, on disk or still in _metadata_buffer, has its rows together in the data file its
   metadata name and its stretch in the video they name, unless a longer video was to be copied
   over that file and the copy did not end: then the file is there, and may be shorter. *)
THEOREM MetadataNeverAhead == Spec => []MetadataHasData
<1>1. WriterInv => MetadataHasData
  BY DEF WriterInv
<1> QED
  BY <1>1, WriterInvHolds, PTL

\* A stretch is the same in two sequences that agree on it.
LEMMA SameStretch ==
  ASSUME NEW S, NEW a \in Seq(S), NEW b \in Seq(S), NEW m \in Nat, NEW n \in Nat, n <= Len(a),
         \A i \in 1..Len(a) : b[i] = a[i]
  PROVE  SubSeq(b, m + 1, n) = SubSeq(a, m + 1, n)
<1>1. CASE n <= m
  BY <1>1
<1>2. CASE m < n
  <2>1. PICK x, y : x = SubSeq(a, m + 1, n) /\ y = SubSeq(b, m + 1, n)
    OBVIOUS
  <2>2. \A i \in m + 1 .. n : a[i] \in S /\ b[i] \in S
    OBVIOUS
  <2>3. /\ x \in Seq(S) /\ Len(x) = n - m
        /\ \A i \in 1 .. n - m : x[i] = a[m + i]
    BY <1>2, <2>1, <2>2
  <2>4. /\ y \in Seq(S) /\ Len(y) = n - m
        /\ \A i \in 1 .. n - m : y[i] = b[m + i]
    BY <1>2, <2>1, <2>2
  <2>5. \A i \in 1 .. n - m : x[i] = y[i]
    BY <1>2, <2>3, <2>4
  <2>6. x = y
    <3>1. Len(x) = Len(y) /\ \A i \in 1 .. Len(x) : x[i] = y[i]
      BY <2>3, <2>4, <2>5
    <3> QED
      BY <2>3, <2>4, <3>1, SeqEqual
  <2> QED
    BY <2>1, <2>6
<1> QED
  BY <1>1, <1>2

\* A record that is durable names a closed data file.
LEMMA DurableRecord ==
  ASSUME WriterInv, NEW r \in Durable
  PROVE  /\ r \in Recorded /\ r \in RecordT /\ data.files[r.data].footer
         /\ r.data \in 1..Len(data.files) /\ HasFilm(r)
<1>1. r \in Recorded /\ data.files[r.data].footer
  BY DEF Durable, Recorded, Written
<1>2. FilesT /\ MetadataHasData
  BY DEF WriterInv
<1>3. meta \in MetaT /\ DOMAIN data.files = 1..Len(data.files)
  BY <1>2, FilesFacts
<1>4. r \in RecordT
  BY <1>1, <1>3, RecordedAre, RecordsTyped
<1> QED
  BY <1>1, <1>2, <1>3, <1>4 DEF MetadataHasData, HasRows, HasFilm

\* No step changes the data file or the stretch of video a durable record names.
LEMMA DurableStep ==
  ASSUME WriterInv, [Next]_vars, NEW r \in Durable
  PROVE  /\ data'.files[r.data] = data.files[r.data]
         /\ \/ r.video \in torn \cup torn'
            \/ SubSeq(videos'[r.video], r.start + 1, r.stop) = SubSeq(videos[r.video], r.start + 1, r.stop)
<1>1. /\ r \in Recorded /\ r \in RecordT /\ data.files[r.data].footer
      /\ r.data \in 1..Len(data.files) /\ HasFilm(r)
  BY DurableRecord
<1>2. FilesT /\ MetaInv /\ DataInv /\ MetadataHasData
  BY DEF WriterInv
<1>3. CASE SaveData
  <2>1. Alive /\ videos' = videos
    BY <1>3 DEF SaveData, Alive
  <2>2. r.data <= DataKnown /\ DataKnown \in Nat
    <3>1. DataKnown \in 0..Len(data.files) /\ Len(data.files) \in Nat
      BY <1>2, <2>1, NoneBeyond, FilesFacts
    <3>2. r.data <= DataKnown
      BY <1>1, <1>2, <2>1, NoneBeyond
    <3> QED
      BY <3>1, <3>2
  <2>3. PICK k \in 1 .. Len(data.files) + 1 :
          /\ k = data.open \/ DataKnown < k
          /\ \A j \in 1..Len(data.files) : j # k => (data.files[j].footer => data'.files[j] = data.files[j])
    BY <1>3, SaveDataFiles
  <2>4. Len(data.files) \in Nat
    BY <1>2, FilesFacts
  <2>5. r.data # k
    <3>1. CASE k = data.open
      <4>1. k # 0
        BY <2>4
      <4>2. ~data.files[k].footer
        BY <3>1, <4>1, <1>2 DEF DataInv
      <4> QED
        BY <4>2, <1>1
    <3>2. CASE DataKnown < k
      BY <3>2, <2>2, <2>4, <1>1
    <3> QED
      BY <2>3, <3>1, <3>2
  <2> QED
    BY <2>1, <2>3, <2>5, <1>1
<1>4. CASE EncodePictures \/ JoinEncoder \/ JoinTimesOut
  <2>1. Alive /\ data' = data
    BY <1>4, SaveVideoFiles DEF Alive
  <2>2. PICK v \in 1 .. Len(videos) + 1 :
          /\ videos' \in Seq(Seq(Frame)) /\ v <= Len(videos')
          /\ \A j \in 1..Len(videos) : j # v => videos'[j] = videos[j]
          /\ \/ VideoKnown < v
             \/ \A i \in 1..Len(videos[v]) : videos'[v][i] = videos[v][i]
    BY <1>4, SaveVideoFiles
  <2>3. /\ videos \in Seq(Seq(Frame)) /\ Len(videos) \in Nat /\ DOMAIN videos = 1..Len(videos)
        /\ VideoKnown \in 0..Len(videos)
    BY <1>2, <2>1, FilesFacts, NoneBeyond
  <2>4. r.video <= VideoKnown
    BY <1>1, <1>2, <2>1, NoneBeyond
  <2>5. /\ r.video \in 1..Len(videos) /\ (r.video \in torn \/ r.stop <= Len(videos[r.video]))
        /\ r.start \in Nat /\ r.stop \in Nat
    BY <1>1, <2>3 DEF HasFilm, RecordT
  <2>6. CASE r.video # v
    BY <2>1, <2>2, <2>5, <2>6
  <2>7. CASE r.video = v /\ r.video \notin torn
    <3>1. \A i \in 1..Len(videos[v]) : videos'[v][i] = videos[v][i]
      <4>1. ~(VideoKnown < v)
        BY <2>3, <2>4, <2>5, <2>7
      <4> QED
        BY <4>1, <2>2
    <3>2. videos[v] \in Seq(Frame) /\ videos'[v] \in Seq(Frame)
      BY <2>2, <2>3, <2>5, <2>7
    <3>3. SubSeq(videos'[v], r.start + 1, r.stop) = SubSeq(videos[v], r.start + 1, r.stop)
      <4>1. PICK a, b : a = videos[v] /\ b = videos'[v]
        OBVIOUS
      <4>2. PICK m, n : m = r.start /\ n = r.stop
        OBVIOUS
      <4>3. /\ a \in Seq(Frame) /\ b \in Seq(Frame) /\ m \in Nat /\ n \in Nat /\ n <= Len(a)
            /\ \A i \in 1..Len(a) : b[i] = a[i]
        BY <3>1, <3>2, <4>1, <4>2, <2>5, <2>7
      <4>4. SubSeq(b, m + 1, n) = SubSeq(a, m + 1, n)
        BY <4>3, SameStretch
      <4> QED
        BY <4>1, <4>2, <4>4
    <3> QED
      BY <3>3, <2>1, <2>7
  <2>8. CASE r.video \in torn
    BY <2>1, <2>8
  <2> QED
    BY <2>6, <2>7, <2>8
<1>5. CASE FinalizeData
  <2>1. data' = CloseData(data) /\ videos' = videos
    BY <1>5 DEF FinalizeData
  <2>2. \A j \in 1..Len(data.files) : data.files[j].footer => data'.files[j] = data.files[j]
    BY <2>1, <1>2, CloseDataFiles
  <2> QED
    BY <2>1, <2>2, <1>1
<1>6. CASE Kill
  <2>1. data' = [data EXCEPT !.open = 0] /\ videos' = videos
    BY <1>6 DEF Kill
  <2>2. data'.files = data.files
    BY <2>1, <1>2 DEF FilesT
  <2> QED
    BY <2>1, <2>2
<1>7. CASE \/ AddFrame \/ ClearEpisodeBuffer \/ PutSentinel \/ SaveMetadata \/ WriteInfo
           \/ EndSession \/ Raise \/ CopyRaises \/ EncoderRaises \/ FinalizeMeta \/ Resume
           \/ EncoderStep \/ EncoderFails \/ UNCHANGED vars
  <2>1. data' = data /\ videos' = videos
    BY <1>7 DEF AddFrame, ClearEpisodeBuffer, PutSentinel, SaveMetadata, WriteInfo, EndSession, Raise,
                CopyRaises, EncoderRaises, Leave, FinalizeMeta, Resume, EncoderStep, EncoderFails, vars, diskVars
  <2> QED
    BY <2>1
<1>8. CASE CopyFails
  <2>1. /\ data' = data /\ latestMeta.video \in torn'
        /\ \A j \in 1..Len(videos) : j # latestMeta.video => videos'[j] = videos[j]
    BY <1>8, CopyFailsFiles
  <2>2. r.video \in 1..Len(videos)
    BY <1>1, <1>2, FilesFacts DEF HasFilm
  <2> QED
    BY <2>1, <2>2
<1> QED
  BY <1>3, <1>4, <1>5, <1>6, <1>7, <1>8 DEF Next, SaveStep

(* Once the metadata file and the data file of an episode are closed, no step of this session or
   of a later one, after an exception or a kill or not, changes that data file or the episode's
   stretch of video, unless a copy fails over that video, which only a session that is still
   appending to it can do: a session that resumes begins files of its own. *)
THEOREM DurableFilesStay == Spec => DurableStays
<1>1. WriterInv /\ [Next]_vars =>
        [\A r \in Durable :
           /\ data'.files[r.data] = data.files[r.data]
           /\ \/ r.video \in torn \cup torn'
              \/ SubSeq(videos'[r.video], r.start + 1, r.stop)
                   = SubSeq(videos[r.video], r.start + 1, r.stop)]_vars
  BY DurableStep
<1> QED
  BY <1>1, WriterInvHolds, PTL DEF Spec, DurableStays

----------------------------------------------------------------------------
(* What FlattenSeq returns. *)

\* The elements of c are those of a and then those of b.
Joined(c, a, b) ==
  /\ Len(c) = Len(a) + Len(b)
  /\ \A i \in 1..Len(a) : c[i] = a[i]
  /\ \A i \in 1..Len(b) : c[Len(a) + i] = b[i]

LEMMA JoinedConcat ==
  ASSUME NEW S, NEW a \in Seq(S), NEW b \in Seq(S), NEW c, c = a \o b
  PROVE  c \in Seq(S) /\ Joined(c, a, b)
BY DEF Joined

\* There is only one such sequence.
LEMMA JoinedOnce ==
  ASSUME NEW S, NEW a \in Seq(S), NEW b \in Seq(S), NEW c \in Seq(S), NEW d \in Seq(S),
         Joined(c, a, b), Joined(d, a, b)
  PROVE  c = d
<1>1. Len(a) \in Nat /\ Len(b) \in Nat /\ Len(c) = Len(d) /\ Len(c) = Len(a) + Len(b)
  BY DEF Joined
<1>2. ASSUME NEW i \in 1..Len(c) PROVE c[i] = d[i]
  <2>1. CASE i \in 1..Len(a)
    BY <2>1 DEF Joined
  <2>2. CASE i \notin 1..Len(a)
    <3>1. PICK j \in 1..Len(b) : i = Len(a) + j
      <4>1. i - Len(a) \in 1..Len(b) /\ i = Len(a) + (i - Len(a))
        BY <2>2, <1>1
      <4> QED
        BY <4>1
    <3> QED
      BY <3>1 DEF Joined
  <2> QED
    BY <2>1, <2>2
<1> QED
  BY <1>1, <1>2, SeqEqual

\* Joining is associative.
LEMMA JoinedThree ==
  ASSUME NEW S, NEW a \in Seq(S), NEW b \in Seq(S), NEW t \in Seq(S),
         NEW d \in Seq(S), NEW e \in Seq(S), NEW w \in Seq(S),
         Joined(d, a, b), Joined(e, b, t), Joined(w, a, e)
  PROVE  Joined(w, d, t)
<1>1. /\ Len(a) \in Nat /\ Len(b) \in Nat /\ Len(t) \in Nat
      /\ Len(d) = Len(a) + Len(b) /\ Len(e) = Len(b) + Len(t) /\ Len(w) = Len(a) + Len(e)
  BY DEF Joined
<1>2. ASSUME NEW i \in 1..Len(d) PROVE w[i] = d[i]
  <2>1. CASE i \in 1..Len(a)
    BY <2>1 DEF Joined
  <2>2. CASE i \notin 1..Len(a)
    <3>1. PICK j \in 1..Len(b) : i = Len(a) + j
      <4>1. i - Len(a) \in 1..Len(b) /\ i = Len(a) + (i - Len(a))
        BY <2>2, <1>1
      <4> QED
        BY <4>1
    <3>2. d[i] = b[j]
      BY <3>1 DEF Joined
    <3>3. e[j] = b[j] /\ j \in 1..Len(e)
      BY <1>1 DEF Joined
    <3>4. w[i] = e[j]
      BY <3>1, <3>3 DEF Joined
    <3> QED
      BY <3>2, <3>3, <3>4
  <2> QED
    BY <2>1, <2>2
<1>3. ASSUME NEW i \in 1..Len(t) PROVE w[Len(d) + i] = t[i]
  <2>0. Len(b) + i \in 1..Len(e)
    BY <1>1
  <2>1. PICK j \in 1..Len(e) : j = Len(b) + i
    BY <2>0
  <2>2. e[j] = t[i]
    BY <2>1 DEF Joined
  <2>3. w[Len(a) + j] = e[j]
    BY DEF Joined
  <2>4. Len(d) + i = Len(a) + j
    BY <2>1, <1>1
  <2> QED
    BY <2>2, <2>3, <2>4
<1> QED
  BY <1>1, <1>2, <1>3 DEF Joined

\* Nothing flattened is nothing.
LEMMA FlattenNothing ==
  ASSUME NEW s, s = <<>>
  PROVE  FlattenSeq(s) = <<>>
<1>1. Len(s) = 0
  OBVIOUS
<1> QED
  BY <1>1 DEF FlattenSeq

\* What is flattened is a sequence.
LEMMA FlattenType ==
  ASSUME NEW S, NEW s \in Seq(Seq(S))
  PROVE  FlattenSeq(s) \in Seq(S)
<1>1. CASE s = <<>>
  <2>1. FlattenSeq(s) = <<>>
    BY <1>1, FlattenNothing
  <2> QED
    BY <2>1
<1>2. CASE s # <<>>
  <2>1. PICK n \in Nat : n = Len(s)
    OBVIOUS
  <2>2. n # 0 /\ n \in 1..n
    BY <1>2, <2>1
  <2>3. PICK f : Flattens(f, s, n) /\ FlattenSeq(s) = f[n]
    BY <2>1, <2>2, FlattenIs
  <2> QED
    BY <2>1, <2>2, <2>3, FlattenValues
<1> QED
  BY <1>1, <1>2

\* The last sequence comes after what those before it give.
LEMMA FlattenSplit ==
  ASSUME NEW S, NEW s \in Seq(Seq(S)), NEW r \in Seq(Seq(S)), Len(s) = Len(r) + 1,
         \A i \in 1..Len(r) : s[i] = r[i]
  PROVE  Joined(FlattenSeq(s), FlattenSeq(r), s[Len(s)])
<1> SUFFICES ASSUME NEW a, NEW b, NEW c, a = FlattenSeq(r), b = s[Len(s)], c = a \o b
             PROVE  FlattenSeq(s) = c
  <2>1. FlattenSeq(r) \in Seq(S) /\ s[Len(s)] \in Seq(S)
    BY FlattenType
  <2>2. PICK a \in Seq(S), b \in Seq(S) : a = FlattenSeq(r) /\ b = s[Len(s)]
    BY <2>1
  <2>3. PICK c : c = a \o b
    OBVIOUS
  <2>4. FlattenSeq(s) = c
    BY <2>2, <2>3
  <2> QED
    BY <2>2, <2>3, <2>4, JoinedConcat
<1>1. PICK n \in Nat : n = Len(r)
  OBVIOUS
<1>2. Len(s) = n + 1 /\ n + 1 \in Nat /\ n + 1 # 0 /\ s[n + 1] \in Seq(S)
  BY <1>1
<1>3. PICK f : Flattens(f, s, n + 1) /\ FlattenSeq(s) = f[n + 1]
  BY <1>2, FlattenIs
<1>4. \A i \in 1 .. n + 1 : f[i] = IF i = 1 THEN s[i] ELSE f[i-1] \o s[i]
  BY <1>3 DEF Flattens
<1>5. CASE n = 0
  <2>1. FlattenSeq(r) = <<>>
    <3>1. r = <<>>
      <4>1. Len(r) = 0
        BY <1>1, <1>5
      <4> QED
        BY <4>1, EmptySeq
    <3> QED
      BY <3>1, FlattenNothing
  <2>2. f[n + 1] = s[n + 1]
    BY <1>4, <1>5
  <2>3. <<>> \o s[n + 1] = s[n + 1]
    BY <1>2
  <2> QED
    <3>1. b = s[n + 1] /\ a = <<>>
      BY <1>2, <2>1
    <3> QED
      BY <3>1, <2>2, <2>3, <1>2, <1>3
<1>6. CASE n # 0
  <2>1. PICK g : Flattens(g, r, n) /\ FlattenSeq(r) = g[n]
    BY <1>1, <1>6, FlattenIs
  <2>2. \A i \in 1..n : f[i] = g[i]
    <3> DEFINE T == {i \in 1..n : f[i] # g[i]}
    <3> SUFFICES ASSUME T # {} PROVE FALSE
      OBVIOUS
    <3>1. PICK i \in T : \A y \in T : i <= y
      <4>1. T \subseteq Nat
        OBVIOUS
      <4> HIDE DEF T
      <4> QED
        BY <4>1, Least
    <3>2. i \in 1..n /\ i \in 1 .. n + 1 /\ s[i] = r[i] /\ f[i] # g[i]
      BY <1>1
    <3>3. \A j \in 1..n : g[j] = IF j = 1 THEN r[j] ELSE g[j-1] \o r[j]
      BY <2>1 DEF Flattens
    <3>4. CASE i = 1
      BY <1>4, <3>2, <3>3, <3>4
    <3>5. CASE i # 1
      <4>1. i - 1 \in 1..n /\ ~(i <= i - 1)
        BY <3>2, <3>5
      <4>2. f[i-1] = g[i-1]
        BY <3>1, <4>1
      <4> QED
        BY <4>2, <1>4, <3>2, <3>3, <3>5
    <3> QED
      BY <3>4, <3>5
  <2>3. f[n + 1] = f[n] \o s[n + 1]
    <3>1. n + 1 \in 1 .. n + 1 /\ n + 1 # 1 /\ (n + 1) - 1 = n
      BY <1>6
    <3> QED
      BY <3>1, <1>4
  <2>4. f[n] = FlattenSeq(r)
    <3>1. n \in 1..n
      BY <1>6
    <3>2. f[n] = g[n]
      BY <2>2, <3>1
    <3> QED
      BY <2>1, <3>2
  <2>5. f[n] = a /\ s[n + 1] = b
    BY <2>4, <1>2
  <2> QED
    BY <2>3, <2>5, <1>3
<1> QED
  BY <1>5, <1>6

\* An element of what is flattened is one of a sequence in it.
LEMMA FlattenMembers ==
  ASSUME NEW S, NEW s \in Seq(Seq(S)), NEW j \in 1..Len(FlattenSeq(s))
  PROVE  \E k \in 1..Len(s) : \E i \in 1..Len(s[k]) : FlattenSeq(s)[j] = s[k][i]
<1>1. PICK n \in Nat : n = Len(s)
  OBVIOUS
<1>2. n # 0
  <2> SUFFICES ASSUME n = 0 PROVE FALSE
    OBVIOUS
  <2>1. s = <<>>
    BY <1>1
  <2>2. Len(FlattenSeq(s)) = 0
    BY <2>1, FlattenNothing
  <2> QED
    BY <2>2
<1>3. PICK f : Flattens(f, s, n) /\ FlattenSeq(s) = f[n]
  BY <1>1, <1>2, FlattenIs
<1>4. \A i \in 1..n : f[i] \in Seq(S) /\ s[i] \in Seq(S)
  BY <1>1, <1>3, FlattenValues
<1>5. \A i \in 1..n : f[i] = IF i = 1 THEN s[i] ELSE f[i-1] \o s[i]
  BY <1>3 DEF Flattens
<1> DEFINE Found(m) == \A x \in 1..Len(f[m]) : \E k \in 1..n : \E i \in 1..Len(s[k]) : f[m][x] = s[k][i]
<1> DEFINE T == {m \in 1..n : ~ Found(m)}
<1>6. T = {}
  <2> SUFFICES ASSUME T # {} PROVE FALSE
    OBVIOUS
  <2>1. PICK m \in T : \A y \in T : m <= y
    <3>1. T \subseteq Nat
      OBVIOUS
    <3> HIDE DEF T
    <3> QED
      BY <3>1, Least
  <2>2. m \in 1..n /\ ~ Found(m)
    OBVIOUS
  <2>3. CASE m = 1
    <3>1. f[m] = s[m]
      BY <2>2, <2>3, <1>5
    <3> QED
      BY <3>1, <2>2
  <2>4. CASE m # 1
    <3>1. m - 1 \in 1..n /\ ~(m <= m - 1)
      BY <2>2, <2>4
    <3>2. Found(m - 1)
      <4>1. m - 1 \notin T
        BY <2>1, <3>1
      <4> QED
        BY <4>1, <3>1
    <3>3. PICK a \in Seq(S), b \in Seq(S) : a = f[m-1] /\ b = s[m]
      BY <3>1, <2>2, <1>4
    <3>4. f[m] = a \o b
      BY <3>3, <2>2, <2>4, <1>5
    <3> SUFFICES ASSUME NEW x \in 1..Len(f[m])
                 PROVE  \E k \in 1..n : \E i \in 1..Len(s[k]) : f[m][x] = s[k][i]
      BY <2>2
    <3>5. CASE x \in 1..Len(a)
      <4>1. f[m][x] = f[m-1][x] /\ x \in 1..Len(f[m-1])
        BY <3>3, <3>4, <3>5
      <4>2. \E k \in 1..n : \E i \in 1..Len(s[k]) : f[m-1][x] = s[k][i]
        BY <4>1, <3>2
      <4> QED
        BY <4>1, <4>2
    <3>6. CASE x \notin 1..Len(a)
      <4>1. Len(a) \in Nat /\ Len(b) \in Nat /\ Len(f[m]) = Len(a) + Len(b)
        BY <3>4
      <4>2. x - Len(a) \in 1..Len(b)
        BY <4>1, <3>6
      <4>3. f[m][x] = b[x - Len(a)]
        BY <4>1, <4>2, <3>4
      <4> QED
        BY <4>2, <4>3, <3>3, <2>2
    <3> QED
      BY <3>5, <3>6
  <2> QED
    BY <2>3, <2>4
<1>7. Found(n)
  <2>1. n \in 1..n
    BY <1>2
  <2> QED
    BY <2>1, <1>6
<1>8. PICK k \in 1..n : \E i \in 1..Len(s[k]) : f[n][j] = s[k][i]
  BY <1>3, <1>7
<1> QED
  BY <1>1, <1>3, <1>8

----------------------------------------------------------------------------
(* The rows of a sequence of files. *)

\* Records flattens the rows of the files.
LEMMA RecordsFlatten ==
  ASSUME NEW T, NEW files \in Seq(FileT(T))
  PROVE  \E s \in Seq(Seq(T)) :
           /\ Records(files) = FlattenSeq(s) /\ Len(s) = Len(files)
           /\ \A k \in 1..Len(files) : s[k] = files[k].rows
<1>1. PICK s : s = [k \in DOMAIN files |-> files[k].rows]
  OBVIOUS
<1>2. \A k \in 1..Len(files) : files[k].rows \in Seq(T)
  <2>1. \A k \in 1..Len(files) : files[k] \in FileT(T)
    OBVIOUS
  <2> QED
    BY <2>1 DEF FileT
<1>3. s \in Seq(Seq(T)) /\ Len(s) = Len(files) /\ \A k \in 1..Len(files) : s[k] = files[k].rows
  BY <1>1, <1>2
<1>4. Records(files) = FlattenSeq(s)
  BY <1>1 DEF Records
<1> QED
  BY <1>3, <1>4

LEMMA RecordsType ==
  ASSUME NEW T, NEW files \in Seq(FileT(T))
  PROVE  Records(files) \in Seq(T)
<1>1. PICK s \in Seq(Seq(T)) : Records(files) = FlattenSeq(s)
  BY RecordsFlatten
<1> QED
  BY <1>1, FlattenType

\* Each is a row of a file.
LEMMA RecordsMembers ==
  ASSUME NEW T, NEW files \in Seq(FileT(T)), NEW j \in 1..Len(Records(files))
  PROVE  \E k \in 1..Len(files) : \E i \in 1..Len(files[k].rows) : Records(files)[j] = files[k].rows[i]
<1>1. PICK s \in Seq(Seq(T)) :
        /\ Records(files) = FlattenSeq(s) /\ Len(s) = Len(files)
        /\ \A k \in 1..Len(files) : s[k] = files[k].rows
  BY RecordsFlatten
<1>2. j \in 1..Len(FlattenSeq(s))
  BY <1>1
<1>3. PICK k \in 1..Len(s) : \E i \in 1..Len(s[k]) : FlattenSeq(s)[j] = s[k][i]
  BY <1>2, FlattenMembers
<1>4. k \in 1..Len(files) /\ s[k] = files[k].rows
  BY <1>1
<1> QED
  BY <1>1, <1>3, <1>4

\* Files with the same rows.
LEMMA RecordsSame ==
  ASSUME NEW T, NEW files \in Seq(FileT(T)), NEW F \in Seq(FileT(T)), Len(F) = Len(files),
         \A j \in 1..Len(files) : F[j].rows = files[j].rows
  PROVE  Records(F) = Records(files)
<1>1. PICK s \in Seq(Seq(T)) :
        /\ Records(files) = FlattenSeq(s) /\ Len(s) = Len(files)
        /\ \A k \in 1..Len(files) : s[k] = files[k].rows
  BY RecordsFlatten
<1>2. PICK u \in Seq(Seq(T)) :
        /\ Records(F) = FlattenSeq(u) /\ Len(u) = Len(F)
        /\ \A k \in 1..Len(F) : u[k] = F[k].rows
  BY RecordsFlatten
<1>3. u = s
  <2>1. Len(u) = Len(s) /\ \A k \in 1..Len(u) : u[k] = s[k]
    BY <1>1, <1>2
  <2> QED
    BY <2>1, SeqEqual
<1> QED
  BY <1>1, <1>2, <1>3

\* Rows in a new last file, or at the end of the last file, come after all rows.
LEMMA RecordsGrow ==
  ASSUME NEW T, NEW files \in Seq(FileT(T)), NEW F \in Seq(FileT(T)), NEW k, NEW rows \in Seq(T),
         NEW grown,
         \/ k = Len(files) + 1 /\ grown = rows
         \/ k = Len(files) /\ k # 0 /\ grown = files[k].rows \o rows,
         Len(F) = k, F[k].rows = grown, \A j \in 1..Len(files) : j # k => F[j].rows = files[j].rows,
         NEW old, old = Records(files)
  PROVE  Joined(Records(F), old, rows)
<1>1. PICK s \in Seq(Seq(T)) :
        /\ old = FlattenSeq(s) /\ Len(s) = Len(files)
        /\ \A i \in 1..Len(files) : s[i] = files[i].rows
  BY RecordsFlatten
<1>2. PICK u \in Seq(Seq(T)) :
        /\ Records(F) = FlattenSeq(u) /\ Len(u) = k
        /\ \A i \in 1..k : u[i] = F[i].rows
  BY RecordsFlatten
<1>3. Len(files) \in Nat /\ k \in Nat /\ k \in 1..k /\ u[k] = grown
  BY <1>2
<1>4. CASE k = Len(files) + 1 /\ grown = rows
  <2>1. Len(u) = Len(s) + 1 /\ u[Len(u)] = rows
    BY <1>1, <1>2, <1>3, <1>4
  <2>2. ASSUME NEW i \in 1..Len(s) PROVE u[i] = s[i]
    <3>1. i \in 1..Len(files) /\ i \in 1..k /\ i # k
      BY <1>1, <1>3, <1>4
    <3>2. u[i] = F[i].rows /\ F[i].rows = files[i].rows /\ files[i].rows = s[i]
      BY <3>1, <1>1, <1>2
    <3> QED
      BY <3>2
  <2>3. Joined(FlattenSeq(u), FlattenSeq(s), u[Len(u)])
    BY <2>1, <2>2, FlattenSplit
  <2> QED
    BY <2>1, <2>3, <1>1, <1>2
<1>5. CASE k = Len(files) /\ k # 0 /\ grown = files[k].rows \o rows
  <2>1. PICK n \in Nat : k = n + 1
    <3>1. k - 1 \in Nat /\ k = (k - 1) + 1
      BY <1>3, <1>5
    <3> QED
      BY <3>1
  <2>2. PICK r \in Seq(Seq(T)) : Len(r) = n /\ \A i \in 1..n : r[i] = s[i]
    <3>1. Len(s) = n + 1
      BY <2>1, <1>1, <1>5
    <3>2. n <= n + 1
      OBVIOUS
    <3>3. n <= Len(s)
      BY <3>1, <3>2
    <3>4. PICK r : r = SubSeq(s, 1, n)
      OBVIOUS
    <3>5. r \in Seq(Seq(T)) /\ Len(r) = n /\ \A i \in 1..n : r[i] = s[i]
      BY <3>3, <3>4
    <3> QED
      BY <3>5
  <2>3. PICK b \in Seq(T) : b = s[k]
    BY <1>1, <1>3, <1>5
  <2>4. grown = b \o rows
    <3>1. files[k].rows = b
      BY <2>3, <1>1, <1>3, <1>5
    <3> QED
      BY <3>1, <1>5
  <2>5. /\ Len(s) = Len(r) + 1 /\ Len(u) = Len(r) + 1
        /\ s[Len(s)] = b /\ u[Len(u)] = grown
    BY <2>1, <2>2, <2>3, <1>1, <1>2, <1>3, <1>5
  <2>6. ASSUME NEW i \in 1..Len(r) PROVE s[i] = r[i] /\ u[i] = r[i]
    <3>1. i \in 1..n
      BY <2>2
    <3>2. i \in 1 .. n + 1 /\ i # n + 1
      BY <3>1
    <3>3. i \in 1..Len(files) /\ i \in 1..k /\ i # k
      BY <3>2, <2>1, <1>5
    <3>4. u[i] = F[i].rows /\ F[i].rows = files[i].rows /\ files[i].rows = s[i] /\ r[i] = s[i]
      BY <3>1, <3>3, <2>2, <1>1, <1>2
    <3> QED
      BY <3>4
  <2>7. PICK a \in Seq(T) : a = FlattenSeq(r)
    BY FlattenType
  <2>8. Joined(FlattenSeq(s), a, b)
    <3>1. \A i \in 1..Len(r) : s[i] = r[i]
      BY <2>6
    <3>2. Joined(FlattenSeq(s), FlattenSeq(r), s[Len(s)])
      BY <3>1, <2>5, FlattenSplit
    <3> QED
      BY <3>2, <2>5, <2>7
  <2>9. Joined(FlattenSeq(u), a, grown)
    <3>1. \A i \in 1..Len(r) : u[i] = r[i]
      BY <2>6
    <3>2. Joined(FlattenSeq(u), FlattenSeq(r), u[Len(u)])
      BY <3>1, <2>5, FlattenSplit
    <3> QED
      BY <3>2, <2>5, <2>7
  <2>10. Joined(grown, b, rows) /\ grown \in Seq(T)
    BY <2>4, JoinedConcat
  <2>11. FlattenSeq(s) \in Seq(T) /\ FlattenSeq(u) \in Seq(T)
    BY FlattenType
  <2>12. Joined(FlattenSeq(u), FlattenSeq(s), rows)
    BY <2>8, <2>9, <2>10, <2>11, JoinedThree
  <2> QED
    BY <2>12, <1>1, <1>2
<1> QED
  BY <1>4, <1>5

----------------------------------------------------------------------------
(* The records of the dataset. *)

\* The records of the dataset in their order, written and not yet written.
Told(m) == Records(m.files) \o m.buffer

\* Of the metadata files only the open one lacks its footer.
MetaClosed(m) == \A k \in 1..Len(m.files) : k # m.open => m.files[k].footer

LEMMA ToldIs ==
  ASSUME NEW m \in MetaT
  PROVE  /\ Records(m.files) \in Seq(RecordT) /\ m.buffer \in Seq(RecordT) /\ Told(m) \in Seq(RecordT)
         /\ Joined(Told(m), Records(m.files), m.buffer)
         /\ m.buffer = <<>> => Told(m) = Records(m.files)
<1>1. m.files \in Seq(FileT(RecordT)) /\ m.buffer \in Seq(RecordT)
  BY DEF MetaT
<1>2. PICK a \in Seq(RecordT), b \in Seq(RecordT) : a = Records(m.files) /\ b = m.buffer
  BY <1>1, RecordsType
<1>3. Told(m) = a \o b
  BY <1>2 DEF Told
<1>4. Told(m) \in Seq(RecordT) /\ Joined(Told(m), a, b)
  BY <1>3, JoinedConcat
<1>5. b = <<>> => Told(m) = a
  BY <1>3
<1> QED
  BY <1>2, <1>4, <1>5

\* Every one of them is a record of the dataset.
LEMMA ToldMembers ==
  ASSUME NEW m \in MetaT, NEW j \in 1..Len(Told(m))
  PROVE  Told(m)[j] \in RecordsOf(m)
<1>1. /\ Records(m.files) \in Seq(RecordT) /\ m.buffer \in Seq(RecordT)
      /\ m.files \in Seq(FileT(RecordT)) /\ Joined(Told(m), Records(m.files), m.buffer)
  BY ToldIs DEF MetaT
<1>2. Len(Records(m.files)) \in Nat /\ Len(m.buffer) \in Nat
  BY <1>1
<1>3. CASE j \in 1..Len(Records(m.files))
  <2>1. Told(m)[j] = Records(m.files)[j]
    BY <1>1, <1>3 DEF Joined
  <2>2. \E k \in 1..Len(m.files) : \E i \in 1..Len(m.files[k].rows) : Records(m.files)[j] = m.files[k].rows[i]
    BY <1>1, <1>3, RecordsMembers
  <2> QED
    BY <2>1, <2>2, RecordPlace
<1>4. CASE j \notin 1..Len(Records(m.files))
  <2>1. PICK n \in Nat, l \in Nat : n = Len(Records(m.files)) /\ l = Len(m.buffer)
    BY <1>2
  <2>2. j \in 1 .. n + l
    BY <2>1, <1>1 DEF Joined
  <2>3. j \notin 1..n
    BY <2>1, <1>4
  <2>4. PICK i \in 1..l : j = n + i
    <3>1. j - n \in 1..l /\ j = n + (j - n)
      BY <2>2, <2>3
    <3> QED
      BY <3>1
  <2>5. Told(m)[j] = m.buffer[i] /\ i \in 1..Len(m.buffer)
    BY <2>1, <2>4, <1>1 DEF Joined
  <2> QED
    BY <2>5, RecordPlace
<1> QED
  BY <1>3, <1>4

\* Writing the buffer to its file keeps them.
LEMMA FlushTold ==
  ASSUME NEW m \in MetaT, MetaClosed(m), m.buffer # <<>>,
         \/ m.open = Len(m.files) /\ m.open # 0
         \/ m.open = 0 /\ Head(m.buffer).file = Len(m.files) + 1,
         NEW F, F = FlushMeta(m)
  PROVE  F \in MetaT /\ Told(F) = Told(m) /\ MetaClosed(F)
<1>1. /\ F \in MetaT /\ F.buffer = <<>> /\ F.open = Len(F.files) /\ F.open # 0
      /\ F.open = IF m.open = 0 THEN Len(m.files) + 1 ELSE Len(m.files)
  BY FlushOf
<1>2. \A j \in 1..Len(m.files) : j # F.open => F.files[j] = m.files[j]
  BY FlushOf
<1>3. F.files[F.open].rows = IF m.open = 0 THEN m.buffer ELSE m.files[m.open].rows \o m.buffer
  BY FlushOf
<1>4. /\ m.files \in Seq(FileT(RecordT)) /\ F.files \in Seq(FileT(RecordT)) /\ m.buffer \in Seq(RecordT)
      /\ Len(m.files) \in Nat
  BY <1>1 DEF MetaT
<1>5. /\ Records(m.files) \in Seq(RecordT) /\ Told(m) \in Seq(RecordT)
      /\ Joined(Told(m), Records(m.files), m.buffer)
  BY ToldIs
<1>6. Records(F.files) \in Seq(RecordT) /\ Told(F) = Records(F.files)
  BY <1>1, ToldIs
<1>7. Joined(Records(F.files), Records(m.files), m.buffer)
  <2>1. PICK k, grown, old, rows :
          k = F.open /\ grown = F.files[F.open].rows /\ old = Records(m.files) /\ rows = m.buffer
    OBVIOUS
  <2>2. \/ k = Len(m.files) + 1 /\ grown = rows
        \/ k = Len(m.files) /\ k # 0 /\ grown = m.files[k].rows \o rows
    <3>1. CASE m.open = 0
      BY <2>1, <3>1, <1>1, <1>3
    <3>2. CASE m.open # 0
      <4>1. k = m.open /\ k = Len(m.files)
        BY <2>1, <3>2, <1>1
      <4> QED
        BY <4>1, <2>1, <3>2, <1>1, <1>3
    <3> QED
      BY <3>1, <3>2
  <2>3. Len(F.files) = k /\ F.files[k].rows = grown /\ rows \in Seq(RecordT)
    BY <2>1, <1>1, <1>4
  <2>4. \A j \in 1..Len(m.files) : j # k => F.files[j].rows = m.files[j].rows
    BY <2>1, <1>2
  <2>5. Joined(Records(F.files), old, rows)
    <3>1. PICK files \in Seq(FileT(RecordT)), files2 \in Seq(FileT(RecordT)) :
            files = m.files /\ files2 = F.files
      BY <1>4
    <3>2. /\ Len(files2) = k /\ files2[k].rows = grown /\ rows \in Seq(RecordT)
          /\ \A j \in 1..Len(files) : j # k => files2[j].rows = files[j].rows
          /\ old = Records(files)
      BY <3>1, <2>1, <2>3, <2>4
    <3>3. \/ k = Len(files) + 1 /\ grown = rows
          \/ k = Len(files) /\ k # 0 /\ grown = files[k].rows \o rows
      BY <3>1, <2>2
    <3>4. Joined(Records(files2), old, rows)
      BY <3>2, <3>3, RecordsGrow
    <3> QED
      BY <3>1, <3>4
  <2> QED
    BY <2>1, <2>5
<1>8. Told(F) = Told(m)
  BY <1>4, <1>5, <1>6, <1>7, JoinedOnce
<1>9. MetaClosed(F)
  <2> SUFFICES ASSUME NEW k \in 1..Len(F.files), k # F.open PROVE F.files[k].footer
    BY DEF MetaClosed
  <2>1. k \in 1..Len(m.files) /\ k # m.open
    BY <1>1, <1>4
  <2> QED
    BY <2>1, <1>2 DEF MetaClosed
<1> QED
  BY <1>1, <1>8, <1>9

\* Once the open file is closed every file has its footer.
LEMMA CloseFooters ==
  ASSUME NEW T, NEW files \in Seq(FileT(T)), NEW open \in 0..Len(files),
         \A k \in 1..Len(files) : k # open => files[k].footer,
         NEW F, F = CloseFile(files, open)
  PROVE  \A k \in 1..Len(files) : F[k].footer
<1>1. CASE open = 0
  <2>1. F = files /\ \A k \in 1..Len(files) : k # open
    BY <1>1 DEF CloseFile
  <2> QED
    BY <2>1
<1>2. CASE open # 0
  <2>1. open \in 1..Len(files) /\ files[open] \in FileT(T)
    BY <1>2
  <2>2. PICK closed : closed = [files[open] EXCEPT !.footer = TRUE]
    OBVIOUS
  <2>3. closed.footer
    BY <2>1, <2>2 DEF FileT
  <2>4. F = [files EXCEPT ![open] = closed]
    BY <1>2, <2>2 DEF CloseFile
  <2>5. ASSUME NEW k \in 1..Len(files) PROVE F[k] = IF k = open THEN closed ELSE files[k]
    BY <2>1, <2>4
  <2> QED
    BY <2>3, <2>5
<1> QED
  BY <1>1, <1>2

\* Closing the writer keeps them, and gives every file its footer.
LEMMA CloseTold ==
  ASSUME NEW m \in MetaT, MetaClosed(m),
         \/ m.open = 0 /\ m.buffer = <<>>
         \/ \E last \in RecordT : InOrder(m, last),
         NEW C, C = CloseMeta(m)
  PROVE  C \in MetaT /\ Told(C) = Told(m) /\ C.open = 0 /\ C.buffer = <<>> /\ MetaClosed(C)
<1>1. PICK F : F = FlushMeta(m)
  OBVIOUS
<1>2. /\ F \in MetaT /\ Told(F) = Told(m) /\ MetaClosed(F) /\ F.open \in 0..Len(F.files)
      /\ F.buffer = <<>>
  <2>1. CASE m.buffer = <<>>
    <3>1. F = m
      BY <1>1, <2>1 DEF FlushMeta
    <3>2. m.open \in 0..Len(m.files)
      BY DEF InOrder, MetaT
    <3> QED
      BY <3>1, <3>2, <2>1
  <2>2. CASE m.buffer # <<>>
    <3>1. PICK last \in RecordT : InOrder(m, last)
      BY <2>2
    <3>2. Head(m.buffer).file = last.file
      <4>1. m.buffer \in Seq(RecordT)
        BY DEF MetaT
      <4>2. 1 \in DOMAIN m.buffer /\ Head(m.buffer) = m.buffer[1]
        BY <4>1, <2>2
      <4> QED
        BY <4>2, <3>1 DEF InOrder
    <3>3. \/ m.open = Len(m.files) /\ m.open # 0
          \/ m.open = 0 /\ Head(m.buffer).file = Len(m.files) + 1
      BY <3>1, <3>2 DEF InOrder
    <3>4. F \in MetaT /\ Told(F) = Told(m) /\ MetaClosed(F)
      BY <2>2, <3>3, <1>1, FlushTold
    <3>5. F.open = Len(F.files) /\ F.buffer = <<>>
      BY <2>2, <3>3, <1>1, FlushOf
    <3>6. Len(F.files) \in Nat
      BY <3>4 DEF MetaT
    <3> QED
      BY <3>4, <3>5, <3>6
  <2> QED
    BY <2>1, <2>2
<1>3. F.files \in Seq(FileT(RecordT))
  BY <1>2 DEF MetaT
<1>4. PICK files : files = CloseFile(F.files, F.open)
  OBVIOUS
<1>5. C = [files |-> files, open |-> 0, buffer |-> <<>>]
  BY <1>1, <1>4 DEF CloseMeta
<1>o. PICK old \in Seq(FileT(RecordT)), open \in 0..Len(F.files) : old = F.files /\ open = F.open
  BY <1>2, <1>3
<1>p. open \in 0..Len(old) /\ files = CloseFile(old, open)
  BY <1>o, <1>4
<1>6. /\ files \in Seq(FileT(RecordT)) /\ Len(files) = Len(F.files)
      /\ \A j \in 1..Len(F.files) : files[j].rows = F.files[j].rows
  <2>1. files \in Seq(FileT(RecordT)) /\ Len(files) = Len(old)
    BY <1>p, CloseFiles
  <2>2. \A j \in 1..Len(old) : files[j].rows = old[j].rows
    BY <1>p, CloseFiles
  <2> QED
    BY <2>1, <2>2, <1>o
<1>7. \A j \in 1..Len(F.files) : files[j].footer
  <2>1. \A k \in 1..Len(old) : k # open => old[k].footer
    BY <1>o, <1>2 DEF MetaClosed
  <2>2. \A j \in 1..Len(old) : files[j].footer
    BY <2>1, <1>p, CloseFooters
  <2> QED
    BY <2>2, <1>o
<1>8. C \in MetaT /\ C.files = files /\ C.open = 0 /\ C.buffer = <<>>
  BY <1>5, <1>6 DEF MetaT
<1>9. Records(files) = Records(F.files)
  BY <1>3, <1>6, RecordsSame
<1>10. Told(C) = Told(m)
  <2>1. Told(C) = Records(C.files)
    BY <1>8, ToldIs
  <2>2. Told(F) = Records(F.files)
    BY <1>2, ToldIs
  <2> QED
    BY <2>1, <2>2, <1>2, <1>8, <1>9
<1>11. MetaClosed(C)
  BY <1>6, <1>7, <1>8 DEF MetaClosed
<1> QED
  BY <1>8, <1>10, <1>11

\* What the metadata end with when nothing is left in the buffer.
LEMMA LastWritten ==
  ASSUME NEW m \in MetaT, FilesInOrder(m.files), m.files # <<>>, m.buffer = <<>>
  PROVE  Told(m) # <<>> /\ Last(Told(m)) = LastOf(m.files)
<1>1. m.files \in Seq(FileT(RecordT)) /\ Len(m.files) \in Nat
  BY DEF MetaT
<1>2. PICK s \in Seq(Seq(RecordT)) :
        /\ Records(m.files) = FlattenSeq(s) /\ Len(s) = Len(m.files)
        /\ \A k \in 1..Len(m.files) : s[k] = m.files[k].rows
  BY <1>1, RecordsFlatten
<1>3. Len(m.files) \in 1..Len(m.files) /\ Len(m.files) \in DOMAIN m.files
  BY <1>1
<1>4. s[Len(s)] = m.files[Len(m.files)].rows /\ s # <<>>
  BY <1>1, <1>2, <1>3
<1>5. m.files[Len(m.files)].rows # <<>>
  BY <1>3 DEF FilesInOrder
<1>6. FlattenSeq(s) # <<>> /\ Last(FlattenSeq(s)) = Last(s[Len(s)])
  BY <1>4, <1>5, FlattenLast
<1>7. Told(m) = Records(m.files)
  BY ToldIs
<1> QED
  BY <1>2, <1>4, <1>6, <1>7 DEF LastOf

\* The last record written is the last of them.
LEMMA LastTold ==
  ASSUME NEW m \in MetaT, NEW last \in RecordT, InOrder(m, last)
  PROVE  Told(m) # <<>> /\ Last(Told(m)) = last
<1>1. CASE m.buffer = <<>>
  <2>1. FilesInOrder(m.files) /\ m.files # <<>> /\ LastOf(m.files) = last
    BY <1>1 DEF InOrder
  <2> QED
    BY <2>1, <1>1, LastWritten
<1>2. CASE m.buffer # <<>>
  <2>1. PICK a \in Seq(RecordT), b \in Seq(RecordT) : a = Records(m.files) /\ b = m.buffer
    BY ToldIs
  <2>2. Told(m) = a \o b
    BY <2>1 DEF Told
  <2>3. b # <<>> /\ Last(b) = last
    BY <2>1, <1>2 DEF InOrder
  <2> QED
    BY <2>1, <2>2, <2>3, ConcatLast
<1> QED
  BY <1>1, <1>2

\* a with r at its end.
Extended(c, a, r) ==
  /\ Len(c) = Len(a) + 1 /\ c[Len(c)] = r
  /\ \A i \in 1..Len(a) : c[i] = a[i]

\* A record added comes after all the others.
LEMMA AddTold ==
  ASSUME NEW m \in MetaT, NEW r \in RecordT, MetaClosed(m),
         \/ \E last \in RecordT : InOrder(m, last) /\ r.file = last.file
         \/ m.open = 0 /\ m.buffer = <<>> /\ r.file = Len(m.files) + 1,
         NEW A, A = AddRecord(m, r)
  PROVE  Extended(Told(A), Told(m), r) /\ MetaClosed(A)
<1>1. PICK buf : buf = Append(m.buffer, r)
  OBVIOUS
<1>2. PICK G : G = [m EXCEPT !.buffer = buf]
  OBVIOUS
<1>3. m.buffer \in Seq(RecordT) /\ m.files \in Seq(FileT(RecordT)) /\ m.open \in Nat
  BY DEF MetaT
<1>4. /\ buf \in Seq(RecordT) /\ buf # <<>> /\ Len(buf) = Len(m.buffer) + 1
      /\ \A i \in 1..Len(buf) : buf[i] = IF i \in 1..Len(m.buffer) THEN m.buffer[i] ELSE r
  BY <1>1, <1>3
<1>5. G \in MetaT /\ G.files = m.files /\ G.open = m.open /\ G.buffer = buf
  BY <1>2, <1>4 DEF MetaT
<1>6. Extended(Told(G), Told(m), r)
  <2>1. PICK a \in Seq(RecordT), b \in Seq(RecordT), t \in Seq(RecordT), u \in Seq(RecordT) :
          a = Records(m.files) /\ b = m.buffer /\ t = Told(m) /\ u = Told(G)
    BY <1>5, ToldIs
  <2>2. t = a \o b /\ u = a \o buf
    BY <2>1, <1>5 DEF Told
  <2>3. buf = Append(b, r)
    BY <1>1, <2>1
  <2>4. u = Append(t, r) /\ t \in Seq(RecordT)
    BY <2>2, <2>3
  <2>5. Extended(u, t, r)
    BY <2>4 DEF Extended
  <2> QED
    BY <2>1, <2>5
<1>7. MetaClosed(G)
  BY <1>5 DEF MetaClosed
<1>8. Head(buf).file = r.file
  <2>1. 1 \in 1..Len(buf) /\ Head(buf) = buf[1]
    BY <1>4
  <2>2. CASE m.buffer = <<>>
    <3>1. buf[1] = r
      BY <2>1, <2>2, <1>4
    <3> QED
      BY <2>1, <3>1
  <2>3. CASE m.buffer # <<>>
    <3>1. PICK last \in RecordT : InOrder(m, last) /\ r.file = last.file
      BY <2>3
    <3>2. 1 \in 1..Len(m.buffer) /\ 1 \in DOMAIN m.buffer
      BY <2>3, <1>3
    <3>3. buf[1] = m.buffer[1] /\ m.buffer[1].file = last.file
      BY <2>1, <3>1, <3>2, <1>4 DEF InOrder
    <3> QED
      BY <2>1, <3>1, <3>3
  <2> QED
    BY <2>2, <2>3
<1>9. \/ G.open = Len(G.files) /\ G.open # 0
      \/ G.open = 0 /\ Head(G.buffer).file = Len(G.files) + 1
  <2>1. CASE m.open = 0
    <3>1. r.file = Len(m.files) + 1
      BY <2>1 DEF InOrder
    <3> QED
      BY <3>1, <2>1, <1>5, <1>8
  <2>2. CASE m.open # 0
    <3>1. m.open = Len(m.files)
      BY <2>2 DEF InOrder
    <3> QED
      BY <3>1, <2>2, <1>5
  <2> QED
    BY <2>1, <2>2
<1>10. A = IF Len(G.buffer) >= MetaBufferSize THEN FlushMeta(G) ELSE G
  BY <1>1, <1>2 DEF AddRecord
<1>11. A = FlushMeta(G) \/ A = G
  BY <1>10
<1>12. CASE A = FlushMeta(G)
  <2>1. G.buffer # <<>>
    BY <1>4, <1>5
  <2>2. Told(A) = Told(G) /\ MetaClosed(A)
    BY <2>1, <1>5, <1>7, <1>9, <1>12, FlushTold
  <2> QED
    BY <2>2, <1>6
<1>13. CASE A = G
  BY <1>6, <1>7, <1>13
<1> QED
  BY <1>11, <1>12, <1>13

----------------------------------------------------------------------------
(* Episodes that are found whole. *)

\* b starts with a.
Starts(a, b) == Len(a) <= Len(b) /\ \A i \in 1..Len(a) : b[i] = a[i]

\* The rows of take s, as episode e, stand after row from of rows.
HasRowsAt(rows, from, e, s) ==
  /\ from + s.size <= Len(rows)
  /\ \A i \in 1..s.size :
       rows[from + i] = [episode |-> e, frame |-> <<s.take, i>>, index |-> from + i - 1]

\* Its pictures stand after frame start of video v.
HasFilmAt(films, v, start, s) ==
  /\ v \in 1..Len(films) /\ start + s.size <= Len(films[v])
  /\ \A i \in 1..s.size : films[v][start + i] = <<s.take, i>>

\* Record r finds take s as episode e, and, unless one of its frames was lost, its pictures.
Kept(r, e, s, rows, films, lost) ==
  /\ r.episode = e /\ r.to = r.from + s.size
  /\ HasRowsAt(rows, r.from, e, s)
  /\ s.take \notin lost => HasFilmAt(films, r.video, r.start, s)

\* The takes counted are found by the first records.
AllKept(told, done, rows, films, lost) ==
  /\ Len(done) <= Len(told)
  /\ \A e \in 1..Len(done) : Kept(told[e], e - 1, done[e], rows, films, lost)

TakeT == [take : Take, size : 1..MaxFrames]

\* Rows stay where they are when others follow.
LEMMA RowsStay ==
  ASSUME NEW rows \in Seq(RowT), NEW rows2 \in Seq(RowT), Starts(rows, rows2),
         NEW from \in Nat, NEW e, NEW s \in TakeT, HasRowsAt(rows, from, e, s)
  PROVE  HasRowsAt(rows2, from, e, s)
<1>1. PICK n \in Nat, l \in Nat, l2 \in Nat : n = s.size /\ l = Len(rows) /\ l2 = Len(rows2)
  <2>1. s.size \in Nat /\ Len(rows) \in Nat /\ Len(rows2) \in Nat
    BY WriterAssumption DEF TakeT
  <2> QED
    BY <2>1
<1>2. from + n <= l /\ l <= l2
  BY <1>1 DEF HasRowsAt, Starts
<1>3. ASSUME NEW i \in 1..n
      PROVE  rows2[from + i] = [episode |-> e, frame |-> <<s.take, i>>, index |-> from + i - 1]
  <2>1. from + i \in 1..l
    BY <1>2
  <2>2. rows2[from + i] = rows[from + i]
    BY <2>1, <1>1 DEF Starts
  <2> QED
    BY <2>2, <1>1 DEF HasRowsAt
<1>4. from + n <= l2
  BY <1>2
<1> QED
  BY <1>1, <1>3, <1>4 DEF HasRowsAt

\* So do pictures when the video grows.
LEMMA FilmStays ==
  ASSUME NEW films \in Seq(Seq(Frame)), NEW films2 \in Seq(Seq(Frame)), NEW v,
         v \in 1..Len(films) => v \in 1..Len(films2) /\ Starts(films[v], films2[v]),
         NEW start \in Nat, NEW s \in TakeT, HasFilmAt(films, v, start, s)
  PROVE  HasFilmAt(films2, v, start, s)
<1>0. v \in 1..Len(films) /\ v \in 1..Len(films2) /\ Starts(films[v], films2[v])
  BY DEF HasFilmAt
<1>1. PICK n \in Nat, l \in Nat, l2 \in Nat : n = s.size /\ l = Len(films[v]) /\ l2 = Len(films2[v])
  <2>1. films[v] \in Seq(Frame) /\ films2[v] \in Seq(Frame)
    BY <1>0
  <2>2. s.size \in Nat /\ Len(films[v]) \in Nat /\ Len(films2[v]) \in Nat
    BY <2>1, WriterAssumption DEF TakeT
  <2> QED
    BY <2>2
<1>2. start + n <= l /\ l <= l2
  BY <1>0, <1>1 DEF HasFilmAt, Starts
<1>3. ASSUME NEW i \in 1..n PROVE films2[v][start + i] = <<s.take, i>>
  <2>1. start + i \in 1..l
    BY <1>2
  <2>2. films2[v][start + i] = films[v][start + i]
    BY <2>1, <1>0, <1>1 DEF Starts
  <2> QED
    BY <2>2, <1>1 DEF HasFilmAt
<1>4. start + n <= l2
  BY <1>2
<1> QED
  BY <1>0, <1>1, <1>3, <1>4 DEF HasFilmAt

LEMMA KeptStays ==
  ASSUME NEW r \in RecordT, NEW e, NEW s \in TakeT,
         NEW rows \in Seq(RowT), NEW rows2 \in Seq(RowT), Starts(rows, rows2),
         NEW films \in Seq(Seq(Frame)), NEW films2 \in Seq(Seq(Frame)),
         r.video \in 1..Len(films) => r.video \in 1..Len(films2) /\ Starts(films[r.video], films2[r.video]),
         NEW lost, NEW lost2, lost \subseteq lost2,
         Kept(r, e, s, rows, films, lost)
  PROVE  Kept(r, e, s, rows2, films2, lost2)
<1>1. r.from \in Nat /\ r.start \in Nat
  BY DEF RecordT
<1>2. HasRowsAt(rows2, r.from, e, s)
  BY <1>1, RowsStay DEF Kept
<1>3. s.take \notin lost => HasFilmAt(films2, r.video, r.start, s)
  <2> SUFFICES ASSUME s.take \notin lost PROVE HasFilmAt(films2, r.video, r.start, s)
    OBVIOUS
  <2>1. HasFilmAt(films, r.video, r.start, s)
    BY DEF Kept
  <2>2. PICK v : v = r.video
    OBVIOUS
  <2>3. HasFilmAt(films2, v, r.start, s)
    BY <2>1, <2>2, <1>1, FilmStays
  <2> QED
    BY <2>2, <2>3
<1> QED
  BY <1>2, <1>3 DEF Kept

LEMMA AllKeptStays ==
  ASSUME NEW told \in Seq(RecordT), NEW told2 \in Seq(RecordT), Starts(told, told2),
         NEW done \in Seq(TakeT),
         NEW rows \in Seq(RowT), NEW rows2 \in Seq(RowT), Starts(rows, rows2),
         NEW films \in Seq(Seq(Frame)), NEW films2 \in Seq(Seq(Frame)),
         \A e \in 1..Len(told) : told[e].video \in 1..Len(films) =>
           told[e].video \in 1..Len(films2) /\ Starts(films[told[e].video], films2[told[e].video]),
         NEW lost, NEW lost2, lost \subseteq lost2,
         AllKept(told, done, rows, films, lost)
  PROVE  AllKept(told2, done, rows2, films2, lost2)
<1>1. Len(done) <= Len(told2)
  <2>1. Len(done) \in Nat /\ Len(told) \in Nat /\ Len(told2) \in Nat
    OBVIOUS
  <2> QED
    BY <2>1 DEF AllKept, Starts
<1>2. ASSUME NEW e \in 1..Len(done) PROVE Kept(told2[e], e - 1, done[e], rows2, films2, lost2)
  <2>1. e \in 1..Len(told)
    <3>1. Len(done) \in Nat /\ Len(told) \in Nat /\ Len(done) <= Len(told)
      BY DEF AllKept
    <3> QED
      BY <3>1
  <2>2. PICK r \in RecordT, s \in TakeT : r = told[e] /\ s = done[e]
    BY <2>1
  <2>3. Kept(r, e - 1, s, rows, films, lost)
    BY <2>2 DEF AllKept
  <2>4. r.video \in 1..Len(films) => r.video \in 1..Len(films2) /\ Starts(films[r.video], films2[r.video])
    BY <2>1, <2>2
  <2>5. Kept(r, e - 1, s, rows2, films2, lost2)
    BY <2>3, <2>4, KeptStays
  <2>6. told2[e] = r
    BY <2>1, <2>2 DEF Starts
  <2> QED
    BY <2>2, <2>5, <2>6
<1> QED
  BY <1>1, <1>2 DEF AllKept

\* A sequence starts with itself.
LEMMA StartsItself == ASSUME NEW S, NEW a \in Seq(S) PROVE Starts(a, a)
BY DEF Starts

\* Videos that are left alone.
LEMMA SameFilms ==
  ASSUME NEW films \in Seq(Seq(Frame))
  PROVE  \A v \in 1..Len(films) : Starts(films[v], films[v])
<1> SUFFICES ASSUME NEW v \in 1..Len(films) PROVE Starts(films[v], films[v])
  OBVIOUS
<1>1. films[v] \in Seq(Frame)
  OBVIOUS
<1> QED
  BY <1>1, StartsItself

----------------------------------------------------------------------------
(* What a session has in hand. *)

\* The session that is hurt first closes its files or is killed; only the last one leaves hurt.
HurtInv ==
  /\ hurt <= session
  /\ hurt = session => pc \in {"close data", "close meta", "ended", "killed"}

\* No episode has been cut short, or only the one that the session now leaves.
Sound == hurt = 0 \/ (hurt = session /\ pc # "killed")

CountInv ==
  /\ Len(saved) = info.episodes /\ buffer.episode = info.episodes
  /\ pc \in {"finish", "join"} => mode = "streaming"
  /\ pc = "video" => mode = "pictures"

\* The image directory begins with the pictures of the take, whatever an earlier one left there.
Pictured ==
  mode = "pictures" /\ pc \in {"frames", "video"} =>
    \A i \in 1..buffer.size : i <= Len(pictures) /\ pictures[i] = <<buffer.take, i>>

LEMMA PicturesStep ==
  ASSUME RecorderT, Pictured, AddFrame, mode = "pictures"
  PROVE  Pictured'
<1>1. /\ pc = "frames" /\ buffer.size < MaxFrames /\ buffer' = [buffer EXCEPT !.size = @ + 1]
      /\ pictures' = IF buffer.size < Len(pictures)
                     THEN [pictures EXCEPT ![buffer.size + 1] = NextFrame]
                     ELSE Append(pictures, NextFrame)
  BY DEF AddFrame
<1>2. pictures \in Seq(Frame) /\ buffer.size \in Nat
  BY RecorderFacts DEF RecorderT
<1>3. buffer'.size = buffer.size + 1 /\ buffer'.take = buffer.take
  BY <1>1, RecorderFacts
<1>4. PICK n \in Nat, l \in Nat : n = buffer.size /\ l = Len(pictures)
  BY <1>2
<1>5. PICK f : f = <<buffer.take, n + 1>>
  OBVIOUS
<1>6. \A i \in 1..n : i <= l /\ pictures[i] = <<buffer.take, i>>
  BY <1>1, <1>4 DEF Pictured
<1>7. n <= l
  BY <1>4, <1>6
<1>8. ASSUME NEW i \in 1 .. n + 1 PROVE i <= Len(pictures') /\ pictures'[i] = <<buffer.take, i>>
  <2>1. CASE n < l
    <3>1. pictures' = [pictures EXCEPT ![n + 1] = f] /\ n + 1 \in 1..l
      BY <2>1, <1>1, <1>4, <1>5 DEF NextFrame
    <3>2. Len(pictures') = l /\ \A j \in 1..l : pictures'[j] = IF j = n + 1 THEN f ELSE pictures[j]
      BY <3>1, <1>2, <1>4
    <3>3. i \in 1..l /\ (i # n + 1 => i \in 1..n)
      BY <3>1
    <3>4. CASE i = n + 1
      BY <3>2, <3>3, <3>4, <1>5
    <3>5. CASE i # n + 1
      <4>1. i \in 1..n /\ pictures'[i] = pictures[i]
        BY <3>2, <3>3, <3>5
      <4> QED
        BY <4>1, <3>2, <3>3, <1>6
    <3> QED
      BY <3>4, <3>5
  <2>2. CASE n = l
    <3>a. NextFrame = f
      BY <1>4, <1>5 DEF NextFrame
    <3>b. ~(buffer.size < Len(pictures))
      <4>1. buffer.size = n /\ Len(pictures) = n
        BY <2>2, <1>4
      <4>2. ~(n < n)
        OBVIOUS
      <4> QED
        BY <4>1, <4>2
    <3>0. ~(buffer.size < Len(pictures)) /\ NextFrame = f
      BY <3>a, <3>b
    <3>1. pictures' = Append(pictures, f)
      BY <3>0, <1>1
    <3>2. /\ Len(pictures') = l + 1 /\ pictures'[l + 1] = f
          /\ \A j \in 1..l : pictures'[j] = pictures[j]
      BY <3>1, <1>2, <1>4
    <3>3. i = n + 1 \/ i \in 1..n
      OBVIOUS
    <3> QED
      BY <3>2, <3>3, <2>2, <1>5, <1>6
  <2> QED
    BY <2>1, <2>2, <1>7
<1> QED
  BY <1>3, <1>4, <1>8 DEF Pictured

LEMMA RecordingStep ==
  ASSUME RecorderT, HurtInv, CountInv, Pictured, [Next]_vars
  PROVE  HurtInv' /\ CountInv' /\ Pictured'
<1> USE DEF InSave
<1>f. /\ buffer \in [episode : Nat, size : 0..MaxFrames, take : Nat \ {0}]
      /\ info.episodes \in Nat /\ session \in Nat /\ session # 0 /\ hurt \in Nat
  BY RecorderFacts, WriterAssumption
<1>h. hurt <= session /\ session <= session
  <2>1. hurt <= session
    BY DEF HurtInv
  <2>2. session <= session
    BY <1>f
  <2> QED
    BY <2>1, <2>2
<1>1. CASE AddFrame
  <2>1. /\ pc = "frames" /\ buffer' = [buffer EXCEPT !.size = @ + 1]
        /\ UNCHANGED <<mode, pc, info, session, saved, hurt>>
    BY <1>1 DEF AddFrame, diskVars
  <2>2. buffer'.episode = buffer.episode
    BY <2>1, <1>f
  <2>3. Pictured'
    <3>1. CASE mode = "pictures"
      BY <3>1, <1>1, PicturesStep
    <3>2. CASE mode # "pictures"
      BY <3>2, <2>1 DEF Pictured
    <3> QED
      BY <3>1, <3>2
  <2> QED
    BY <2>1, <2>2, <2>3 DEF HurtInv, CountInv
<1>2. CASE ClearEpisodeBuffer
  <2>1. /\ pc = "frames" /\ buffer' = NewBuffer(info.episodes, buffer.take + 1)
        /\ UNCHANGED <<mode, pc, info, session, saved, hurt>>
    BY <1>2 DEF ClearEpisodeBuffer, diskVars, historyVars
  <2>2. buffer'.size = 0 /\ buffer'.episode = info.episodes
    BY <2>1 DEF NewBuffer
  <2> QED
    BY <2>1, <2>2 DEF HurtInv, CountInv, Pictured
<1>3. CASE SaveData
  <2>1. /\ pc = "frames" /\ pc' = IF mode = "streaming" THEN "finish" ELSE "video"
        /\ UNCHANGED <<mode, buffer, pictures, info, session, saved, hurt>>
    BY <1>3 DEF SaveData, historyVars
  <2>2. mode \in {"pictures", "streaming"}
    BY WriterAssumption DEF RecorderT
  <2> QED
    BY <2>1, <2>2 DEF HurtInv, CountInv, Pictured
<1>4. CASE PutSentinel
  <2>1. /\ pc = "finish" /\ pc' = "join"
        /\ UNCHANGED <<mode, buffer, info, session, saved, hurt>>
    BY <1>4 DEF PutSentinel, diskVars, historyVars
  <2> QED
    BY <2>1 DEF HurtInv, CountInv, Pictured
<1>5. CASE EncodePictures \/ JoinEncoder \/ JoinTimesOut
  <2>1. /\ pc \in {"video", "join"} /\ pc' = "meta"
        /\ UNCHANGED <<mode, buffer, info, session, saved, hurt>>
    BY <1>5 DEF EncodePictures, JoinEncoder, JoinTimesOut, SaveVideo
  <2> QED
    BY <2>1 DEF HurtInv, CountInv, Pictured
<1>6. CASE SaveMetadata
  <2>1. /\ pc = "meta" /\ pc' = "info"
        /\ UNCHANGED <<mode, buffer, info, session, saved, hurt>>
    BY <1>6 DEF SaveMetadata, historyVars
  <2> QED
    BY <2>1 DEF HurtInv, CountInv, Pictured
<1>7. CASE WriteInfo
  <2>1. /\ pc = "info" /\ pc' = "frames" /\ buffer' = NewBuffer(info.episodes + 1, buffer.take + 1)
        /\ info' = [episodes |-> info.episodes + 1, frames |-> info.frames + buffer.size]
        /\ saved' = Append(saved, [take |-> buffer.take, size |-> buffer.size])
        /\ UNCHANGED <<mode, session, hurt>>
    BY <1>7 DEF WriteInfo
  <2>2. buffer'.size = 0 /\ buffer'.episode = info.episodes + 1 /\ info'.episodes = info.episodes + 1
    BY <2>1 DEF NewBuffer
  <2>3. Len(saved') = Len(saved) + 1
    <3>1. saved \in Seq([take : Take, size : 1..MaxFrames])
      BY DEF RecorderT
    <3> QED
      BY <3>1, <2>1
  <2> QED
    BY <2>1, <2>2, <2>3 DEF HurtInv, CountInv, Pictured
<1>8. CASE EndSession \/ Raise \/ CopyRaises \/ EncoderRaises
  <2>1. /\ pc' = "close data" /\ hurt' \in {hurt, session}
        /\ UNCHANGED <<mode, buffer, info, session, saved>>
    BY <1>8 DEF EndSession, Raise, CopyRaises, EncoderRaises, Leave, diskVars
  <2>2. hurt' = hurt \/ hurt' = session
    BY <2>1
  <2>3. hurt' <= session'
    <3>1. session' = session
      BY <2>1
    <3> QED
      BY <3>1, <2>2, <1>h
  <2> QED
    BY <2>1, <2>3 DEF HurtInv, CountInv, Pictured
<1>9. CASE FinalizeData \/ FinalizeMeta
  <2>1. /\ pc' \in {"close meta", "ended"}
        /\ UNCHANGED <<mode, buffer, info, session, saved, hurt>>
    BY <1>9 DEF FinalizeData, FinalizeMeta, historyVars
  <2> QED
    BY <2>1 DEF HurtInv, CountInv, Pictured
<1>10. CASE Kill
  <2>1. /\ pc' = "killed" /\ hurt' \in {hurt, session}
        /\ UNCHANGED <<mode, buffer, info, session, saved>>
    BY <1>10 DEF Kill
  <2>2. hurt' = hurt \/ hurt' = session
    BY <2>1
  <2>3. hurt' <= session'
    <3>1. session' = session
      BY <2>1
    <3> QED
      BY <3>1, <2>2, <1>h
  <2> QED
    BY <2>1, <2>3 DEF HurtInv, CountInv, Pictured
<1>11. CASE Resume
  <2>1. /\ pc' = "frames" /\ session' = session + 1
        /\ buffer' = NewBuffer(info.episodes, buffer.take + 1)
        /\ UNCHANGED <<mode, info, saved, hurt>>
    BY <1>11 DEF Resume, diskVars, historyVars
  <2>2. buffer'.size = 0 /\ buffer'.episode = info.episodes
    BY <2>1 DEF NewBuffer
  <2>3. hurt' <= session' /\ hurt' # session'
    <3>1. hurt <= session + 1 /\ hurt # session + 1
      BY <1>f, <1>h
    <3> QED
      BY <3>1, <2>1
  <2>4. HurtInv'
    BY <2>3 DEF HurtInv
  <2>5. CountInv'
    BY <2>1, <2>2 DEF CountInv
  <2>6. Pictured'
    <3>1. \A i \in 1..buffer'.size : FALSE
      BY <2>2
    <3> QED
      BY <3>1 DEF Pictured
  <2> QED
    BY <2>4, <2>5, <2>6
<1>12. CASE EncoderStep \/ EncoderFails
  <2>1. UNCHANGED <<mode, pc, buffer, pictures, info, session, saved, hurt>>
    BY <1>12 DEF EncoderStep, EncoderFails, diskVars, historyVars
  <2> QED
    BY <2>1 DEF HurtInv, CountInv, Pictured
<1>13. CASE UNCHANGED vars
  <2>1. UNCHANGED <<mode, pc, buffer, pictures, info, session, saved, hurt>>
    BY <1>13 DEF vars, diskVars, historyVars
  <2> QED
    BY <2>1 DEF HurtInv, CountInv, Pictured
<1>14. CASE CopyFails
  <2>1. /\ pc \in {"video", "join"} /\ pc' = "broken"
        /\ UNCHANGED <<mode, buffer, info, session, saved, hurt>>
    BY <1>14 DEF CopyFails
  <2> QED
    BY <2>1 DEF HurtInv, CountInv, Pictured
<1> QED
  BY <1>1, <1>2, <1>3, <1>4, <1>5, <1>6, <1>7, <1>8, <1>9, <1>10, <1>11, <1>12, <1>13, <1>14
  DEF Next, SaveStep

----------------------------------------------------------------------------
(* What the streaming encoder has been fed. *)

\* The frames that have left the queue.
Ahead == IF inHand \in Frame THEN Len(encoded) + 1 ELSE Len(encoded)

\* The frames of the take are in order: encoded, in hand, queued; then comes the sentinel.
Encoding ==
  /\ \A i \in 1..Len(encoded) : encoded[i] = <<buffer.take, i>>
  /\ thread = "ok" => Len(encoded) = buffer.size
  /\ thread = "running" =>
       /\ inHand \in Frame => inHand = <<buffer.take, Len(encoded) + 1>>
       /\ \A i \in 1..Len(frameQueue) :
            frameQueue[i] \in Frame => frameQueue[i] = <<buffer.take, Ahead + i>>
       /\ pc # "join" =>
            /\ inHand # Sentinel /\ \A i \in 1..Len(frameQueue) : frameQueue[i] \in Frame
            /\ Ahead + Len(frameQueue) = buffer.size
       /\ pc = "join" =>
            \/ inHand = Sentinel /\ Len(frameQueue) = 0 /\ Len(encoded) = buffer.size
            \/ /\ inHand # Sentinel /\ Len(frameQueue) > 0
               /\ frameQueue[Len(frameQueue)] = Sentinel
               /\ \A i \in 1 .. Len(frameQueue) - 1 : frameQueue[i] \in Frame
               /\ Ahead + Len(frameQueue) = buffer.size + 1

Encoded ==
  /\ mode = "streaming" /\ pc \in {"frames", "finish", "join"}
  /\ buffer.size > 0 /\ buffer.take \notin dropped
  => Encoding

LEMMA NoFrames == None \notin Frame /\ Sentinel \notin Frame /\ None # Sentinel
<1>1. {None, Sentinel} \cap Frame = {} /\ None # Sentinel
  BY WriterAssumption DEF Frame, Take
<1> QED
  BY <1>1

LEMMA StreamTypes ==
  ASSUME RecorderT
  PROVE  /\ encoded \in Seq(Frame) /\ Len(encoded) \in Nat
         /\ frameQueue \in Seq(Frame \cup {Sentinel}) /\ Len(frameQueue) \in Nat
         /\ inHand \in Frame \cup {None, Sentinel}
         /\ Ahead \in Nat
<1>1. /\ encoded \in Seq(Frame) /\ frameQueue \in Seq(Frame \cup {Sentinel})
      /\ inHand \in Frame \cup {None, Sentinel}
  BY DEF RecorderT, Stream!TypeOK
<1>2. Len(encoded) \in Nat /\ Len(frameQueue) \in Nat
  BY <1>1
<1>3. Ahead \in Nat
  BY <1>2 DEF Ahead
<1> QED
  BY <1>1, <1>2, <1>3

\* The thread takes the next frame, or the sentinel.
LEMMA TakesInOrder ==
  ASSUME RecorderT, Encoding, Stream!TakeFrame, UNCHANGED <<buffer, pc>>
  PROVE  Encoding'
<1>0. /\ thread = "running" /\ inHand = None /\ frameQueue # <<>>
      /\ inHand' = Head(frameQueue) /\ frameQueue' = Tail(frameQueue)
      /\ UNCHANGED <<thread, encoded, buffer, pc>>
  BY DEF Stream!TakeFrame
<1>1. PICK l \in Nat, n \in Nat : l = Len(encoded) /\ n = Len(frameQueue)
  BY StreamTypes
<1>2. n > 0 /\ Ahead = l
  <2>1. n # 0
    BY <1>0, <1>1, StreamTypes
  <2>2. Ahead = l
    BY <1>0, <1>1, NoFrames DEF Ahead
  <2> QED
    BY <2>1, <2>2
<1>3. inHand' = frameQueue[1] /\ Len(frameQueue') = n - 1
      /\ \A i \in 1 .. n - 1 : frameQueue'[i] = frameQueue[i + 1]
  BY <1>0, <1>1, StreamTypes
<1>4. Len(encoded') = l /\ Len(frameQueue') = n - 1
  BY <1>0, <1>1, <1>3
<1>5. \A i \in 1..n : frameQueue[i] \in Frame => frameQueue[i] = <<buffer.take, l + i>>
  BY <1>0, <1>1, <1>2 DEF Encoding
<1>6. inHand' \in Frame => inHand' = <<buffer'.take, l + 1>>
  <2>1. 1 \in 1..n
    BY <1>2
  <2> QED
    BY <2>1, <1>0, <1>3, <1>5
<1>7. ASSUME inHand' \in Frame
      PROVE  /\ Ahead' = l + 1
             /\ \A i \in 1 .. n - 1 : frameQueue'[i] \in Frame => frameQueue'[i] = <<buffer'.take, (l + 1) + i>>
  <2>1. Ahead' = l + 1
    BY <1>7, <1>4 DEF Ahead
  <2>2. ASSUME NEW i \in 1 .. n - 1, frameQueue'[i] \in Frame
        PROVE  frameQueue'[i] = <<buffer'.take, (l + 1) + i>>
    <3>1. i + 1 \in 1..n /\ frameQueue'[i] = frameQueue[i + 1] /\ l + (i + 1) = (l + 1) + i
      BY <1>3
    <3>2. frameQueue[i + 1] = <<buffer.take, l + (i + 1)>>
      BY <3>1, <2>2, <1>5
    <3> QED
      BY <3>1, <3>2, <1>0
  <2> QED
    BY <2>1, <2>2
<1>8. CASE pc # "join"
  <2>1. (\A i \in 1..n : frameQueue[i] \in Frame) /\ l + n = buffer.size
    BY <1>0, <1>1, <1>2, <1>8 DEF Encoding
  <2>2. inHand' \in Frame
    <3>1. 1 \in 1..n
      BY <1>2
    <3> QED
      BY <3>1, <2>1, <1>3
  <2>3. \A i \in 1 .. n - 1 : frameQueue'[i] \in Frame
    <3> SUFFICES ASSUME NEW i \in 1 .. n - 1 PROVE frameQueue'[i] \in Frame
      OBVIOUS
    <3>1. i + 1 \in 1..n
      OBVIOUS
    <3> QED
      BY <3>1, <2>1, <1>3
  <2>4. (l + 1) + (n - 1) = buffer'.size
    BY <2>1, <1>0
  <2>5. Ahead' + Len(frameQueue') = buffer'.size
    BY <2>2, <2>4, <1>4, <1>7
  <2>6. inHand' # Sentinel
    BY <2>2, NoFrames
  <2> QED
    BY <2>2, <2>3, <2>5, <2>6, <1>0, <1>1, <1>4, <1>6, <1>7, <1>8 DEF Encoding
<1>9. CASE pc = "join"
  <2>1. /\ frameQueue[n] = Sentinel /\ l + n = buffer.size + 1
        /\ \A i \in 1 .. n - 1 : frameQueue[i] \in Frame
    BY <1>0, <1>1, <1>2, <1>9, NoFrames DEF Encoding
  <2>2. CASE n = 1
    <3>1. inHand' = Sentinel /\ l = buffer.size /\ n - 1 = 0
      <4>1. buffer.size \in Nat
        BY RecorderFacts
      <4> QED
        BY <4>1, <2>1, <2>2, <1>3
    <3>2. inHand' = Sentinel /\ Len(frameQueue') = 0 /\ Len(encoded') = buffer'.size
      BY <3>1, <1>0, <1>4
    <3>3. \A i \in 1 .. Len(frameQueue') : FALSE
      BY <3>2
    <3>4. inHand' \notin Frame
      BY <3>1, NoFrames
    <3> QED
      BY <3>2, <3>3, <3>4, <1>0, <1>1, <1>9 DEF Encoding
  <2>3. CASE n # 1
    <3>1. n - 1 \in 1 .. n - 1 /\ 1 \in 1 .. n - 1
      BY <2>3, <1>2
    <3>2. inHand' \in Frame
      BY <3>1, <2>1, <1>3
    <3>3. frameQueue'[n - 1] = Sentinel
      <4>1. frameQueue'[n - 1] = frameQueue[(n - 1) + 1] /\ (n - 1) + 1 = n
        BY <3>1, <1>3
      <4> QED
        BY <4>1, <2>1
    <3>4. \A i \in 1 .. (n - 1) - 1 : frameQueue'[i] \in Frame
      <4> SUFFICES ASSUME NEW i \in 1 .. (n - 1) - 1 PROVE frameQueue'[i] \in Frame
        OBVIOUS
      <4>1. i \in 1 .. n - 1 /\ i + 1 \in 1 .. n - 1
        OBVIOUS
      <4> QED
        BY <4>1, <2>1, <1>3
    <3>5. (l + 1) + (n - 1) = buffer'.size + 1 /\ n - 1 > 0
      BY <2>1, <2>3, <1>0, <1>2
    <3>6. Ahead' + Len(frameQueue') = buffer'.size + 1 /\ Len(frameQueue') > 0
      BY <3>2, <3>5, <1>4, <1>7
    <3>7. inHand' # Sentinel
      BY <3>2, NoFrames
    <3> QED
      BY <3>2, <3>3, <3>4, <3>6, <3>7, <1>0, <1>1, <1>4, <1>6, <1>7, <1>9 DEF Encoding
  <2> QED
    BY <2>2, <2>3
<1> QED
  BY <1>8, <1>9

\* It encodes the frame in hand.
LEMMA EncodesInOrder ==
  ASSUME RecorderT, Encoding, Stream!EncodeFrame, UNCHANGED <<buffer, pc>>
  PROVE  Encoding'
<1>0. /\ thread = "running" /\ inHand \in Frame
      /\ encoded' = Append(encoded, inHand) /\ inHand' = None
      /\ UNCHANGED <<thread, frameQueue, buffer, pc>>
  BY DEF Stream!EncodeFrame
<1>1. PICK l \in Nat : l = Len(encoded)
  BY StreamTypes
<1>2. /\ Len(encoded') = l + 1 /\ encoded'[l + 1] = inHand
      /\ \A i \in 1..l : encoded'[i] = encoded[i]
  BY <1>0, <1>1, StreamTypes
<1>3. Ahead = l + 1 /\ Ahead' = l + 1 /\ inHand' \notin Frame
  <2>1. inHand' \notin Frame
    BY <1>0, NoFrames
  <2> QED
    BY <2>1, <1>0, <1>1, <1>2 DEF Ahead
<1>4. inHand = <<buffer.take, l + 1>> /\ \A i \in 1..l : encoded[i] = <<buffer.take, i>>
  BY <1>0, <1>1 DEF Encoding
<1>5. \A i \in 1..Len(encoded') : encoded'[i] = <<buffer'.take, i>>
  <2> SUFFICES ASSUME NEW i \in 1 .. l + 1 PROVE encoded'[i] = <<buffer.take, i>>
    BY <1>0, <1>2
  <2>1. CASE i = l + 1
    BY <2>1, <1>2, <1>4
  <2>2. CASE i # l + 1
    <3>1. i \in 1..l
      BY <2>2
    <3> QED
      BY <3>1, <1>2, <1>4
  <2> QED
    BY <2>1, <2>2
<1>6. inHand # Sentinel /\ inHand' # Sentinel
  BY <1>0, NoFrames
<1>7. /\ thread' = "running" /\ Ahead' = Ahead /\ frameQueue' = frameQueue
      /\ buffer' = buffer /\ pc' = pc
  BY <1>0, <1>3
<1>8. \A i \in 1..Len(frameQueue) : frameQueue[i] \in Frame => frameQueue[i] = <<buffer.take, Ahead + i>>
  BY <1>0 DEF Encoding
<1>9. CASE pc # "join"
  <2>1. (\A i \in 1..Len(frameQueue) : frameQueue[i] \in Frame) /\ Ahead + Len(frameQueue) = buffer.size
    BY <1>0, <1>9 DEF Encoding
  <2> QED
    BY <2>1, <1>3, <1>5, <1>6, <1>7, <1>8, <1>9 DEF Encoding
<1>10. CASE pc = "join"
  <2>1. /\ Len(frameQueue) > 0 /\ frameQueue[Len(frameQueue)] = Sentinel
        /\ \A i \in 1 .. Len(frameQueue) - 1 : frameQueue[i] \in Frame
        /\ Ahead + Len(frameQueue) = buffer.size + 1
    BY <1>0, <1>6, <1>10 DEF Encoding
  <2> QED
    BY <2>1, <1>3, <1>5, <1>6, <1>7, <1>8, <1>10 DEF Encoding
<1> QED
  BY <1>9, <1>10

\* A frame is fed.
LEMMA FeedsInOrder ==
  ASSUME RecorderT, Encoding, pc # "join", Stream!FeedFrame(NextFrame), NextFrame \in Frame,
         UNCHANGED pc, buffer'.take = buffer.take, buffer'.size = buffer.size + 1
  PROVE  Encoding'
<1>0. /\ thread = "running" /\ frameQueue' = Append(frameQueue, NextFrame)
      /\ UNCHANGED <<thread, inHand, encoded, pc>>
  BY DEF Stream!FeedFrame
<1>1. PICK n \in Nat, a \in Nat, z \in Nat : n = Len(frameQueue) /\ a = Ahead /\ z = buffer.size
  BY StreamTypes, RecorderFacts
<1>2. /\ Len(frameQueue') = n + 1 /\ frameQueue'[n + 1] = NextFrame
      /\ \A i \in 1..n : frameQueue'[i] = frameQueue[i]
  BY <1>0, <1>1, StreamTypes
<1>3. /\ inHand # Sentinel /\ a + n = z
      /\ \A i \in 1..n : frameQueue[i] \in Frame /\ frameQueue[i] = <<buffer.take, a + i>>
  BY <1>0, <1>1 DEF Encoding
<1>4. NextFrame = <<buffer.take, a + (n + 1)>>
  <2>1. z + 1 = a + (n + 1)
    BY <1>3
  <2> QED
    BY <2>1, <1>1 DEF NextFrame
<1>5. ASSUME NEW i \in 1 .. n + 1
      PROVE  frameQueue'[i] \in Frame /\ frameQueue'[i] = <<buffer.take, a + i>>
  <2>1. CASE i = n + 1
    BY <2>1, <1>2, <1>4
  <2>2. CASE i # n + 1
    <3>1. i \in 1..n
      BY <2>2
    <3> QED
      BY <3>1, <1>2, <1>3
  <2> QED
    BY <2>1, <2>2
<1>6. a + (n + 1) = z + 1
  BY <1>3
<1>7. Ahead' = a
  BY <1>0, <1>1 DEF Ahead
<1>8. Ahead' + Len(frameQueue') = buffer'.size
  BY <1>1, <1>2, <1>6, <1>7
<1>9. /\ thread' = "running" /\ inHand' = inHand /\ encoded' = encoded
      /\ buffer'.take = buffer.take /\ pc' # "join"
  BY <1>0
<1>10. \A i \in 1..Len(encoded') : encoded'[i] = <<buffer'.take, i>>
  BY <1>9 DEF Encoding
<1>11. inHand' # Sentinel /\ (inHand' \in Frame => inHand' = <<buffer'.take, Len(encoded') + 1>>)
  BY <1>0, <1>3, <1>9 DEF Encoding
<1>12. \A i \in 1..Len(frameQueue') :
         frameQueue'[i] \in Frame /\ frameQueue'[i] = <<buffer'.take, Ahead' + i>>
  BY <1>2, <1>5, <1>7, <1>9
<1> QED
  BY <1>8, <1>9, <1>10, <1>11, <1>12 DEF Encoding

\* The sentinel follows the last frame.
LEMMA SentinelFollows ==
  ASSUME RecorderT, Encoding, pc # "join", Stream!PutSentinel, pc' = "join", UNCHANGED buffer
  PROVE  Encoding'
<1>0. /\ frameQueue' = Append(frameQueue, Sentinel)
      /\ UNCHANGED <<thread, inHand, encoded, buffer>>
  BY DEF Stream!PutSentinel
<1>1. CASE thread = "running"
  <2>1. PICK n \in Nat, a \in Nat, z \in Nat : n = Len(frameQueue) /\ a = Ahead /\ z = buffer.size
    BY StreamTypes, RecorderFacts
  <2>2. /\ Len(frameQueue') = n + 1 /\ frameQueue'[n + 1] = Sentinel
        /\ \A i \in 1..n : frameQueue'[i] = frameQueue[i]
    BY <1>0, <2>1, StreamTypes
  <2>3. /\ inHand # Sentinel /\ a + n = z
        /\ \A i \in 1..n : frameQueue[i] \in Frame /\ frameQueue[i] = <<buffer.take, a + i>>
    BY <1>1, <2>1 DEF Encoding
  <2>4. Ahead' = a
    BY <1>0, <2>1 DEF Ahead
  <2>5. ASSUME NEW i \in 1 .. n + 1, frameQueue'[i] \in Frame PROVE frameQueue'[i] = <<buffer.take, a + i>>
    <3>1. i # n + 1
      BY <2>2, <2>5, NoFrames
    <3>2. i \in 1..n
      BY <3>1
    <3> QED
      BY <3>2, <2>2, <2>3
  <2>6. a + (n + 1) = z + 1 /\ n + 1 > 0 /\ (n + 1) - 1 = n
    BY <2>3
  <2>7. Ahead' + Len(frameQueue') = buffer'.size + 1
    BY <1>0, <2>1, <2>2, <2>4, <2>6
  <2>8. \A i \in 1 .. Len(frameQueue') - 1 : frameQueue'[i] \in Frame
    <3>1. Len(frameQueue') - 1 = n
      BY <2>2, <2>6
    <3> QED
      BY <3>1, <2>2, <2>3
  <2>9. Len(frameQueue') > 0 /\ frameQueue'[Len(frameQueue')] = Sentinel
    BY <2>2, <2>6
  <2>10. \A i \in 1..Len(frameQueue') : frameQueue'[i] \in Frame => frameQueue'[i] = <<buffer'.take, Ahead' + i>>
    BY <1>0, <2>2, <2>4, <2>5
  <2>11. /\ thread' = "running" /\ inHand' = inHand /\ encoded' = encoded /\ buffer' = buffer
    BY <1>0, <1>1
  <2> QED
    BY <1>1, <2>3, <2>7, <2>8, <2>9, <2>10, <2>11 DEF Encoding
<1>2. CASE thread # "running"
  BY <1>0, <1>2 DEF Encoding
<1> QED
  BY <1>1, <1>2

\* The frames the video gets when the thread is joined.
LEMMA JoinedVideo ==
  ASSUME RecorderT, Encoding, pc = "join",
         \/ thread = "ok"
         \/ thread = "running" /\ Stream!Held = {}
  PROVE  Len(encoded) = buffer.size /\ \A i \in 1..buffer.size : encoded[i] = <<buffer.take, i>>
<1>1. Len(encoded) = buffer.size
  <2>1. CASE thread = "ok"
    BY <2>1 DEF Encoding
  <2>2. CASE thread = "running" /\ Stream!Held = {}
    <3>0. PICK n \in Nat, l \in Nat, z \in Nat : n = Len(frameQueue) /\ l = Len(encoded) /\ z = buffer.size
      BY StreamTypes, RecorderFacts
    <3>1. inHand \notin Frame /\ \A i \in 1..n : frameQueue[i] \notin Frame
      <4>1. DOMAIN frameQueue = 1..n
        BY <3>0, StreamTypes
      <4> QED
        BY <4>1, <2>2 DEF Stream!Held
    <3>2. CASE inHand = Sentinel
      BY <3>2, <2>2 DEF Encoding
    <3>3. CASE inHand # Sentinel
      <4>1. /\ n > 0 /\ \A i \in 1 .. n - 1 : frameQueue[i] \in Frame
            /\ Ahead + n = z + 1
        BY <2>2, <3>0, <3>3 DEF Encoding
      <4>2. Ahead = l
        BY <3>0, <3>1 DEF Ahead
      <4>3. n = 1
        <5> SUFFICES ASSUME n # 1 PROVE FALSE
          OBVIOUS
        <5>1. 1 \in 1 .. n - 1 /\ 1 \in 1..n
          BY <4>1
        <5> QED
          BY <5>1, <3>1, <4>1
      <4>4. l = z
        <5>1. l + 1 = z + 1
          BY <4>1, <4>2, <4>3
        <5> QED
          BY <5>1
      <4> QED
        BY <4>4, <3>0
    <3> QED
      BY <3>2, <3>3
  <2> QED
    BY <2>1, <2>2
<1>2. \A i \in 1..Len(encoded) : encoded[i] = <<buffer.take, i>>
  BY DEF Encoding
<1> QED
  BY <1>1, <1>2

LEMMA EncodedStep ==
  ASSUME RecorderT, TakeInv, Encoded, [Next]_vars
  PROVE  Encoded'
<1> USE DEF InSave
<1>f. /\ buffer \in [episode : Nat, size : 0..MaxFrames, take : Nat \ {0}]
      /\ buffer.size \in Nat
  BY RecorderFacts
<1>1. CASE AddFrame
  <2> SUFFICES ASSUME mode' = "streaming", buffer'.take \notin dropped' PROVE Encoding'
    BY DEF Encoded
  <2>1. /\ pc = "frames" /\ pc' = pc /\ mode' = mode /\ buffer.size < MaxFrames /\ buffer.take <= MaxTakes
        /\ buffer' = [buffer EXCEPT !.size = @ + 1]
    BY <1>1 DEF AddFrame
  <2>2. buffer'.size = buffer.size + 1 /\ buffer'.take = buffer.take
    BY <2>1, <1>f
  <2>3. \/ buffer.size = 0 /\ Stream!StartEpisode(NextFrame)
        \/ buffer.size > 0 /\ Stream!FeedFrame(NextFrame) /\ dropped' = dropped
    <3>1. \/ buffer.size = 0 /\ Stream!StartEpisode(NextFrame)
          \/ buffer.size > 0 /\ Stream!FeedFrame(NextFrame) /\ dropped' = dropped
          \/ dropped' = dropped \cup {buffer.take}
      BY <1>1, <2>1 DEF AddFrame
    <3> QED
      BY <3>1, <2>2
  <2>4. NextFrame \in Frame
    BY <2>1, NextFrameIsFrame
  <2>5. CASE buffer.size = 0 /\ Stream!StartEpisode(NextFrame)
    <3>1. /\ frameQueue' = <<NextFrame>> /\ thread' = "running" /\ inHand' = None /\ encoded' = <<>>
      BY <2>5 DEF Stream!StartEpisode
    <3>2. NextFrame = <<buffer.take, 0 + 1>>
      BY <2>5 DEF NextFrame
    <3>3. Len(frameQueue') = 1 /\ frameQueue'[1] = NextFrame /\ Len(encoded') = 0
      BY <3>1
    <3>4. Ahead' = 0
      BY <3>1, <3>3, NoFrames DEF Ahead
    <3>5. \A i \in 1..Len(frameQueue') :
            frameQueue'[i] \in Frame /\ frameQueue'[i] = <<buffer'.take, Ahead' + i>>
      <4> SUFFICES ASSUME NEW i \in 1..1 PROVE frameQueue'[i] = NextFrame /\ i = 1
        BY <3>2, <3>3, <3>4, <2>2, <2>4
      <4> QED
        BY <3>3
    <3>6. Ahead' + Len(frameQueue') = buffer'.size
      BY <3>3, <3>4, <2>2, <2>5
    <3>7. \A i \in 1..Len(encoded') : FALSE
      BY <3>3
    <3>8. inHand' \notin Frame /\ inHand' # Sentinel
      BY <3>1, NoFrames
    <3> QED
      BY <3>1, <3>5, <3>6, <3>7, <3>8, <2>1 DEF Encoding
  <2>6. CASE buffer.size > 0 /\ Stream!FeedFrame(NextFrame) /\ dropped' = dropped
    <3>1. Encoding
      BY <2>1, <2>2, <2>6 DEF Encoded
    <3> QED
      BY <3>1, <2>1, <2>2, <2>4, <2>6, FeedsInOrder
  <2> QED
    BY <2>3, <2>5, <2>6
<1>2. CASE ClearEpisodeBuffer \/ WriteInfo \/ Resume
  <2>1. buffer'.size = 0
    BY <1>2 DEF ClearEpisodeBuffer, WriteInfo, Resume, NewBuffer
  <2>2. ~(buffer'.size > 0)
    BY <2>1
  <2> QED
    BY <2>2 DEF Encoded
<1>3. CASE SaveData
  <2>1. /\ pc = "frames" /\ pc' \in {"finish", "video"}
        /\ UNCHANGED <<mode, buffer, frameQueue, thread, inHand, encoded, dropped>>
    BY <1>3 DEF SaveData, historyVars, streamVars
  <2> SUFFICES ASSUME Encoding PROVE Encoding'
    BY <2>1 DEF Encoded
  <2>2. Ahead' = Ahead
    BY <2>1 DEF Ahead
  <2>3. pc # "join" /\ pc' # "join"
    BY <2>1
  <2> QED
    BY <2>1, <2>2, <2>3 DEF Encoding
<1>4. CASE PutSentinel
  <2>1. /\ pc = "finish" /\ pc' = "join" /\ Stream!PutSentinel
        /\ UNCHANGED <<mode, buffer, dropped>>
    BY <1>4 DEF PutSentinel, historyVars
  <2> SUFFICES ASSUME Encoding PROVE Encoding'
    BY <2>1 DEF Encoded
  <2>2. pc # "join"
    BY <2>1
  <2> QED
    BY <2>1, <2>2, SentinelFollows
<1>5. CASE EncodePictures \/ JoinEncoder \/ JoinTimesOut \/ CopyFails \/ SaveMetadata
  <2>1. pc' \in {"meta", "broken", "info"}
    BY <1>5 DEF EncodePictures, JoinEncoder, JoinTimesOut, CopyFails, SaveVideo, SaveMetadata
  <2> QED
    BY <2>1 DEF Encoded
<1>6. CASE EndSession \/ Raise \/ CopyRaises \/ EncoderRaises \/ FinalizeData \/ FinalizeMeta \/ Kill
  <2>1. pc' \in {"close data", "close meta", "ended", "killed"}
    BY <1>6 DEF EndSession, Raise, CopyRaises, EncoderRaises, Leave, FinalizeData,
                FinalizeMeta, Kill
  <2> QED
    BY <2>1 DEF Encoded
<1>7. CASE EncoderStep \/ EncoderFails
  <2>1. /\ UNCHANGED <<mode, pc, buffer, dropped>>
        /\ Stream!TakeFrame \/ Stream!EncodeFrame \/ Stream!CloseVideo \/ Stream!EncoderFails
    BY <1>7 DEF EncoderStep, EncoderFails, historyVars
  <2> SUFFICES ASSUME Encoding PROVE Encoding'
    BY <2>1 DEF Encoded
  <2>2. CASE Stream!TakeFrame
    BY <2>1, <2>2, TakesInOrder
  <2>3. CASE Stream!EncodeFrame
    BY <2>1, <2>3, EncodesInOrder
  <2>4. CASE Stream!CloseVideo
    <3>1. thread = "running" /\ inHand = Sentinel /\ thread' = "ok" /\ encoded' = encoded
      BY <2>4 DEF Stream!CloseVideo
    <3>2. Len(encoded) = buffer.size
      BY <3>1 DEF Encoding
    <3> QED
      BY <3>1, <3>2, <2>1 DEF Encoding
  <2>5. CASE Stream!EncoderFails
    <3>1. thread' = "error" /\ encoded' = encoded
      BY <2>5 DEF Stream!EncoderFails
    <3> QED
      BY <3>1, <2>1 DEF Encoding
  <2> QED
    BY <2>1, <2>2, <2>3, <2>4, <2>5
<1>8. CASE UNCHANGED vars
  <2>1. UNCHANGED <<mode, pc, buffer, frameQueue, thread, inHand, encoded, dropped>>
    BY <1>8 DEF vars, streamVars, historyVars
  <2> QED
    BY <2>1 DEF Encoded, Encoding, Ahead
<1> QED
  BY <1>1, <1>2, <1>3, <1>4, <1>5, <1>6, <1>7, <1>8 DEF Next, SaveStep

----------------------------------------------------------------------------
(* What is on the disk, and in the metadata buffer, of the episodes. *)

\* Only the files that are open lack their footer.
DiskClosed ==
  /\ \A k \in 1..Len(data.files) : k # data.open => data.files[k].footer
  /\ MetaClosed(meta)

\* Every episode that info.json counts is found by its record.
SavedKept == AllKept(Told(meta), saved, Records(data.files), videos, dropped)

\* The take that is being recorded, as it will be counted.
Here == [take |-> buffer.take, size |-> buffer.size]

EndOf(told)  == IF told = <<>> THEN 0 ELSE Last(told).to
FileOf(told) == IF told = <<>> THEN 0 ELSE Last(told).data

\* How far data/, videos/ and meta/ have come with the episode.
InStep ==
  /\ Len(Told(meta)) = Len(saved) + (IF pc = "info" THEN 1 ELSE 0)
  /\ Len(Records(data.files)) = info.frames + (IF pc \in InSave THEN buffer.size ELSE 0)
  /\ pc # "info" => info.frames = EndOf(Told(meta))
  /\ Alive /\ latest # None => latest.file = Len(data.files)
  /\ pc \notin {"finish", "join", "video", "broken", "meta"} => Len(data.files) = FileOf(Told(meta))
  /\ pc \in InSave => HasRowsAt(Records(data.files), info.frames, info.episodes, Here)
  /\ pc = "meta" =>
       /\ draft.stop = Len(videos[draft.video])
       /\ buffer.take \notin dropped => HasFilmAt(videos, draft.video, draft.start, Here)
  /\ Alive /\ latestMeta # None /\ pc \notin {"broken", "meta"} => latestMeta.stop = Len(videos[latestMeta.video])
  /\ pc = "info" =>
       /\ Last(Told(meta)).from = info.frames
       /\ Kept(Last(Told(meta)), info.episodes, Here, Records(data.files), videos, dropped)

LEMMA DiskTypes ==
  ASSUME RecorderT, FilesT
  PROVE  /\ Told(meta) \in Seq(RecordT) /\ Len(Told(meta)) \in Nat
         /\ Records(data.files) \in Seq(RowT) /\ Len(Records(data.files)) \in Nat
         /\ saved \in Seq(TakeT) /\ Len(saved) \in Nat /\ videos \in Seq(Seq(Frame))
<1>1. meta \in MetaT /\ data.files \in Seq(FileT(RowT)) /\ videos \in Seq(Seq(Frame))
  BY FilesFacts
<1>2. Told(meta) \in Seq(RecordT)
  BY <1>1, ToldIs
<1>3. Records(data.files) \in Seq(RowT)
  BY <1>1, RecordsType
<1>4. saved \in Seq(TakeT)
  BY DEF RecorderT, TakeT
<1> QED
  BY <1>1, <1>2, <1>3, <1>4

LEMMA HereIs ==
  ASSUME RecorderT, TakeInv, buffer.size > 0
  PROVE  Here \in TakeT /\ Here.take = buffer.take /\ Here.size = buffer.size
<1>1. /\ buffer.size \in 1..MaxFrames /\ buffer.take \in 1..MaxTakes
  BY RecorderFacts, WriterAssumption DEF TakeInv
<1> QED
  BY <1>1 DEF Here, TakeT, Take

\* Episodes are kept when nothing but footers is written.
LEMMA IdleKept ==
  ASSUME RecorderT, FilesT, SavedKept, Told(meta') = Told(meta),
         Records(data'.files) = Records(data.files), UNCHANGED <<videos, saved>>, dropped \subseteq dropped'
  PROVE  SavedKept'
<1>1. PICK told \in Seq(RecordT), done \in Seq(TakeT) : told = Told(meta) /\ done = saved
  BY DiskTypes
<1>2. PICK rows \in Seq(RowT) : rows = Records(data.files)
  BY DiskTypes
<1>3. PICK films \in Seq(Seq(Frame)) : films = videos
  BY DiskTypes
<1>4. AllKept(told, done, rows, films, dropped)
  BY <1>1, <1>2, <1>3 DEF SavedKept
<1>5. Starts(told, told) /\ Starts(rows, rows)
  BY StartsItself
<1>6. \A e \in 1..Len(told) : told[e].video \in 1..Len(films) =>
        told[e].video \in 1..Len(films) /\ Starts(films[told[e].video], films[told[e].video])
  BY SameFilms
<1>7. AllKept(told, done, rows, films, dropped')
  BY <1>4, <1>5, <1>6, AllKeptStays
<1> QED
  BY <1>1, <1>2, <1>3, <1>7 DEF SavedKept

\* Outside of save_episode only what the session knows may change: it forgets it when it ends.
LEMMA IdleInStep ==
  ASSUME InStep, pc \notin InSave, pc' \notin InSave, Told(meta') = Told(meta),
         Records(data'.files) = Records(data.files), Len(data'.files) = Len(data.files),
         UNCHANGED <<videos, saved, info>>,
         Alive' /\ latest' # None => Alive /\ latest' = latest,
         Alive' /\ latestMeta' # None => Alive /\ latestMeta' = latestMeta
  PROVE  InStep'
<1>1. /\ pc \notin {"finish", "join", "video", "broken", "meta"} /\ pc # "info"
      /\ pc' \notin {"finish", "join", "video", "broken", "meta"} /\ pc' # "info"
  BY DEF InSave
<1>2. /\ Len(Told(meta)) = Len(saved) + 0 /\ Len(Records(data.files)) = info.frames + 0
      /\ info.frames = EndOf(Told(meta)) /\ Len(data.files) = FileOf(Told(meta))
      /\ Alive /\ latest # None => latest.file = Len(data.files)
      /\ Alive /\ latestMeta # None => latestMeta.stop = Len(videos[latestMeta.video])
  BY <1>1 DEF InStep
<1>3. /\ Len(Told(meta')) = Len(saved') + 0 /\ Len(Records(data'.files)) = info'.frames + 0
      /\ info'.frames = EndOf(Told(meta')) /\ Len(data'.files) = FileOf(Told(meta'))
      /\ Alive' /\ latest' # None => latest'.file = Len(data'.files)
      /\ Alive' /\ latestMeta' # None => latestMeta'.stop = Len(videos'[latestMeta'.video])
  BY <1>2
<1> QED
  BY <1>1, <1>3 DEF InStep

\* No records without files.
LEMMA NothingTold ==
  ASSUME NEW m \in MetaT, m.files = <<>>, m.buffer = <<>>
  PROVE  Told(m) = <<>>
<1>1. m.files \in Seq(FileT(RecordT)) /\ Len(m.files) = 0
  BY DEF MetaT
<1>2. PICK s \in Seq(Seq(RecordT)) : Records(m.files) = FlattenSeq(s) /\ Len(s) = Len(m.files)
  BY <1>1, RecordsFlatten
<1>3. s = <<>>
  BY <1>1, <1>2
<1>4. Records(m.files) = <<>>
  BY <1>2, <1>3, FlattenNothing
<1>5. Told(m) = Records(m.files)
  BY ToldIs
<1> QED
  BY <1>4, <1>5

\* The session knows the last of the records.
LEMMA KnowsLast ==
  ASSUME WriterInv, Alive
  PROVE  /\ latestMeta # None => Told(meta) # <<>> /\ Last(Told(meta)) = latestMeta
         /\ latestMeta = None /\ episodes = <<>> => Told(meta) = <<>>
         /\ latestMeta = None /\ episodes # <<>> => Told(meta) # <<>> /\ Last(Told(meta)) = Last(episodes)
<1>0. FilesT /\ MetaInv
  BY DEF WriterInv
<1>1. meta \in MetaT /\ (latestMeta # None => latestMeta \in RecordT)
  BY <1>0, FilesFacts
<1>2. CASE latestMeta # None
  <2>1. InOrder(meta, latestMeta) /\ latestMeta \in RecordT
    BY <1>0, <1>1, <1>2 DEF MetaInv
  <2> QED
    BY <2>1, <1>1, <1>2, LastTold
<1>3. CASE latestMeta = None /\ episodes = <<>>
  <2>1. meta.files = <<>> /\ meta.buffer = <<>>
    BY <1>0, <1>3 DEF MetaInv
  <2> QED
    BY <2>1, <1>1, <1>3, NothingTold
<1>4. CASE latestMeta = None /\ episodes # <<>>
  <2>1. /\ FilesInOrder(meta.files) /\ meta.files # <<>> /\ meta.buffer = <<>>
        /\ Last(episodes) = LastOf(meta.files)
    BY <1>0, <1>4 DEF MetaInv
  <2> QED
    BY <2>1, <1>1, <1>4, LastWritten
<1> QED
  BY <1>2, <1>3, <1>4

\* save_episode writes the episode's rows after all others.
LEMMA SaveDataEpisodes ==
  ASSUME WriterInv, CountInv, DiskClosed, SavedKept, InStep, SaveData
  PROVE  DiskClosed' /\ SavedKept' /\ InStep'
<1>0. /\ RecorderT /\ FilesT /\ TakeInv /\ MetaInv /\ DataInv
      /\ pc = "frames" /\ buffer.size > 0 /\ Alive /\ pc' \in {"finish", "video"} /\ Alive'
      /\ UNCHANGED <<buffer, meta, latestMeta, episodes, videos, info, saved, dropped>>
  BY DEF WriterInv, SaveData, Alive, historyVars
<1>1. PICK k \in 1 .. Len(data.files) + 1 :
        /\ latest' = [file |-> k] /\ data'.open = k
        /\ data' \in [files : Seq(FileT(RowT)), open : Nat]
        /\ Len(data'.files) = IF k = Len(data.files) + 1 THEN k ELSE Len(data.files)
        /\ \A j \in 1..Len(data.files) : j # k =>
             /\ data'.files[j].rows = data.files[j].rows
             /\ data.files[j].footer => data'.files[j] = data.files[j]
        /\ data.open # 0 /\ data.open # k => data'.files[data.open].footer
        /\ k = data.open => data'.files[k].rows = data.files[k].rows \o Rows
        /\ k # data.open => data'.files[k].rows = Rows
  BY SaveDataFiles
<1>2. k \in DataFiles
  <2>1. PICK j \in DataFiles : data'.open = j
    BY DEF SaveData
  <2> QED
    BY <2>1, <1>1
<1>3. /\ data.files \in Seq(FileT(RowT)) /\ data.open \in 0..Len(data.files) /\ Len(data.files) \in Nat
      /\ latest # None => latest.file \in 1..Len(data.files)
  BY <1>0, FilesFacts
<1>4. \/ k = Len(data.files) + 1
      \/ k = Len(data.files) /\ k # 0 /\ k = data.open
  <2>1. CASE latest # None
    <3>1. latest.file = Len(data.files) /\ data.open = latest.file
      BY <2>1, <1>0 DEF InStep, DataInv
    <3>2. k = latest.file \/ k = latest.file + 1
      BY <2>1, <1>2 DEF DataFiles
    <3> QED
      BY <3>1, <3>2, <2>1, <1>3
  <2>2. CASE latest = None
    <3>1. latestMeta = None /\ Len(data.files) = FileOf(Told(meta))
      BY <2>2, <1>0 DEF InStep, DataInv
    <3>2. CASE episodes = <<>>
      <4>1. Len(data.files) = 0
        BY <3>1, <3>2, <1>0, KnowsLast DEF FileOf
      <4>2. k = 1
        BY <2>2, <3>2, <1>2 DEF DataFiles
      <4> QED
        BY <4>1, <4>2
    <3>3. CASE episodes # <<>>
      <4>1. Len(data.files) = Last(episodes).data
        BY <3>1, <3>3, <1>0, KnowsLast DEF FileOf
      <4>2. k = Last(episodes).data + 1
        BY <2>2, <3>3, <1>2 DEF DataFiles
      <4> QED
        BY <4>1, <4>2
    <3> QED
      BY <3>2, <3>3
  <2> QED
    BY <2>1, <2>2
<1>5. Len(data'.files) = k /\ k \in Nat /\ data'.files \in Seq(FileT(RowT))
  BY <1>1, <1>3, <1>4
<1>6. PICK more \in Seq(RowT) : more = Rows
  BY <1>0, RowsAre
<1>7. /\ Len(more) = buffer.size
      /\ \A i \in 1..buffer.size :
           more[i] = [episode |-> info.episodes, frame |-> <<buffer.take, i>>, index |-> info.frames + i - 1]
  <2>1. Len(more) = buffer.size
    BY <1>0, <1>6, RowsAre
  <2> QED
    BY <2>1, <1>6 DEF Rows, CountInv
<1>8. PICK rows \in Seq(RowT), rows2 \in Seq(RowT) : rows = Records(data.files) /\ rows2 = Records(data'.files)
  <2>1. Records(data.files) \in Seq(RowT)
    BY <1>3, RecordsType
  <2>2. Records(data'.files) \in Seq(RowT)
    BY <1>5, RecordsType
  <2> QED
    BY <2>1, <2>2
<1>9. Joined(rows2, rows, more)
  <2>1. PICK grown : grown = data'.files[k].rows
    OBVIOUS
  <2>2. \/ k = Len(data.files) + 1 /\ grown = more
        \/ k = Len(data.files) /\ k # 0 /\ grown = data.files[k].rows \o more
    <3>1. CASE k = Len(data.files) + 1
      <4>1. k # data.open
        BY <3>1, <1>3
      <4> QED
        BY <4>1, <3>1, <2>1, <1>1, <1>6
    <3>2. CASE k = Len(data.files) /\ k # 0 /\ k = data.open
      BY <3>2, <2>1, <1>1, <1>6
    <3> QED
      BY <3>1, <3>2, <1>4
  <2>3. \A j \in 1..Len(data.files) : j # k => data'.files[j].rows = data.files[j].rows
    BY <1>1
  <2>4. PICK F \in Seq(FileT(RowT)), files \in Seq(FileT(RowT)) : F = data'.files /\ files = data.files
    BY <1>3, <1>5
  <2>5. /\ Len(F) = k /\ F[k].rows = grown /\ rows = Records(files)
        /\ \A j \in 1..Len(files) : j # k => F[j].rows = files[j].rows
    BY <2>1, <2>3, <2>4, <1>5, <1>8
  <2>6. \/ k = Len(files) + 1 /\ grown = more
        \/ k = Len(files) /\ k # 0 /\ grown = files[k].rows \o more
    BY <2>2, <2>4
  <2>7. Joined(Records(F), rows, more)
    BY <2>5, <2>6, RecordsGrow
  <2> QED
    BY <2>4, <2>7, <1>8
<1>10. PICK n \in Nat, z \in Nat : n = Len(rows) /\ z = buffer.size
  BY <1>0, RecorderFacts
<1>11. n = info.frames
  <2>1. n = info.frames + 0 /\ info.frames \in Nat
    BY <1>0, <1>8, <1>10, RecorderFacts DEF InStep, InSave
  <2> QED
    BY <2>1
<1>12. /\ Len(rows2) = n + z /\ Starts(rows, rows2)
       /\ \A i \in 1..z : rows2[n + i] = more[i]
  <2>1. Len(rows2) = n + z
    BY <1>7, <1>9, <1>10 DEF Joined
  <2>2. n <= n + z
    OBVIOUS
  <2> QED
    BY <2>1, <2>2, <1>7, <1>9, <1>10 DEF Joined, Starts
<1>13. HasRowsAt(rows2, info.frames, info.episodes, Here)
  <2>1. Here.size = z /\ Here.take = buffer.take
    BY <1>10 DEF Here
  <2>2. \A i \in 1..z : rows2[n + i] =
          [episode |-> info.episodes, frame |-> <<buffer.take, i>>, index |-> n + i - 1]
    BY <1>7, <1>10, <1>11, <1>12
  <2>3. n + z <= Len(rows2)
    BY <1>12
  <2> QED
    BY <2>1, <2>2, <2>3, <1>11 DEF HasRowsAt
<1>14. DiskClosed'
  <2>1. ASSUME NEW j \in 1..k, j # k PROVE data'.files[j].footer
    <3>1. j \in 1..Len(data.files)
      BY <2>1, <1>3, <1>4
    <3>2. CASE j = data.open
      BY <3>2, <2>1, <1>1
    <3>3. CASE j # data.open
      <4>1. data.files[j].footer
        BY <3>1, <3>3 DEF DiskClosed
      <4>2. data'.files[j] = data.files[j]
        BY <4>1, <3>1, <2>1, <1>1
      <4> QED
        BY <4>1, <4>2
    <3> QED
      BY <3>2, <3>3
  <2>2. MetaClosed(meta')
    BY <1>0 DEF DiskClosed
  <2> QED
    BY <2>1, <2>2, <1>1, <1>5 DEF DiskClosed
<1>15. SavedKept'
  <2>1. PICK told \in Seq(RecordT), done \in Seq(TakeT) : told = Told(meta) /\ done = saved
    BY <1>0, DiskTypes
  <2>2. PICK films \in Seq(Seq(Frame)) : films = videos
    BY <1>0, DiskTypes
  <2>3. AllKept(told, done, rows, films, dropped)
    BY <2>1, <2>2, <1>8 DEF SavedKept
  <2>4. Starts(told, told)
    BY StartsItself
  <2>5. \A v \in 1..Len(films) : Starts(films[v], films[v])
    BY SameFilms
  <2>6. AllKept(told, done, rows2, films, dropped)
    BY <2>3, <2>4, <2>5, <1>12, AllKeptStays
  <2> QED
    BY <2>1, <2>2, <2>6, <1>0, <1>8 DEF SavedKept
<1>16. InStep'
  <2>1. pc' # "info" /\ pc' # "meta" /\ pc' \in InSave /\ pc' \in {"finish", "join", "video", "meta"}
    BY <1>0 DEF InSave
  <2>2. Told(meta') = Told(meta) /\ Len(Told(meta)) = Len(saved) + 0 /\ info.frames = EndOf(Told(meta))
    BY <1>0 DEF InStep
  <2>3. latest'.file = Len(data'.files)
    BY <1>1, <1>5
  <2>4. latestMeta # None => latestMeta.stop = Len(videos[latestMeta.video])
    BY <1>0 DEF InStep
  <2>5. Len(Records(data'.files)) = info'.frames + buffer'.size
    BY <1>0, <1>8, <1>10, <1>11, <1>12
  <2>6. HasRowsAt(Records(data'.files), info'.frames, info'.episodes, Here')
    <3>1. Here' = Here
      BY <1>0 DEF Here
    <3> QED
      BY <3>1, <1>0, <1>8, <1>13
  <2> QED
    BY <2>1, <2>2, <2>3, <2>4, <2>5, <2>6, <1>0 DEF InStep
<1> QED
  BY <1>14, <1>15, <1>16

\* The video of the episode stands at the end of its file.
LEMMA FilmAtEnd ==
  ASSUME WriterInv, pc \in {"video", "join"}, NEW frames \in Seq(Frame), SaveVideo(frames),
         latestMeta # None => latestMeta.stop = Len(videos[latestMeta.video])
  PROVE  /\ draft'.video \in 1..Len(videos') /\ draft'.start \in Nat
         /\ draft'.stop = Len(videos'[draft'.video])
         /\ draft'.start + Len(frames) = Len(videos'[draft'.video])
         /\ \A i \in 1..Len(frames) : videos'[draft'.video][draft'.start + i] = frames[i]
<1>0. FilesT /\ MetaInv /\ DataInv /\ MetadataHasData /\ Alive
  BY DEF WriterInv, Alive
<1>1. PICK place \in VideoPlaces :
        /\ videos' = IF place.appended THEN [videos EXCEPT ![place.file] = @ \o frames]
                     ELSE IF place.file \in DOMAIN videos THEN [videos EXCEPT ![place.file] = frames]
                     ELSE Append(videos, frames)
        /\ draft' = [data |-> draft.data, video |-> place.file,
                     start |-> place.start, stop |-> place.start + Len(frames)]
  BY DEF SaveVideo
<1>2. /\ videos \in Seq(Seq(Frame)) /\ Len(videos) \in Nat /\ DOMAIN videos = 1..Len(videos)
      /\ latestMeta # None => latestMeta \in RecordT
  BY <1>0, FilesFacts
<1>3. VideoKnown \in 0..Len(videos)
  BY <1>0, NoneBeyond
<1>4. PICK v, s : v = place.file /\ s = place.start
  OBVIOUS
<1>5. PICK n \in Nat : n = Len(frames)
  OBVIOUS
<1>6. draft'.video = v /\ draft'.start = s /\ draft'.stop = s + n
  BY <1>1, <1>4, <1>5
<1>7. /\ v \in 1 .. Len(videos) + 1
      /\ place.appended => v \in 1..Len(videos) /\ s = Len(videos[v])
      /\ ~place.appended => s = 0
  <2>1. CASE latestMeta = None
    <3>1. v = VideoKnown + 1 /\ s = 0 /\ ~place.appended
      BY <2>1, <1>3, <1>4 DEF VideoPlaces, VideoKnown
    <3> QED
      BY <3>1, <1>2, <1>3
  <2>2. CASE latestMeta # None
    <3>1. \/ v = latestMeta.video /\ s = latestMeta.stop /\ place.appended
          \/ v = latestMeta.video + 1 /\ s = 0 /\ ~place.appended
      BY <2>2, <1>4 DEF VideoPlaces
    <3>2. latestMeta.video \in 1..Len(videos)
      BY <2>2, <1>0, <1>2 DEF MetaInv, HasFilm
    <3> QED
      BY <3>1, <3>2, <2>2, <1>2
  <2> QED
    BY <2>1, <2>2
<1>8. CASE place.appended
  <2>1. v \in 1..Len(videos) /\ videos[v] \in Seq(Frame) /\ s = Len(videos[v]) /\ s \in Nat
    BY <1>2, <1>7, <1>8
  <2>2. PICK film : film = videos[v] \o frames
    OBVIOUS
  <2>3. /\ film \in Seq(Frame) /\ Len(film) = s + n
        /\ \A i \in 1..n : film[s + i] = frames[i]
    BY <2>1, <2>2, <1>5
  <2>4. videos' = [videos EXCEPT ![v] = film]
    BY <1>1, <1>4, <1>8, <2>2
  <2>5. Len(videos') = Len(videos) /\ videos'[v] = film
    BY <2>1, <2>3, <2>4, <1>2
  <2> QED
    BY <2>1, <2>3, <2>5, <1>5, <1>6
<1>9. CASE ~place.appended
  <2>1. s = 0 /\ s + n = n /\ \A i \in 1..n : s + i = i
    BY <1>7, <1>9
  <2>2. v \in 1..Len(videos') /\ videos'[v] = frames
    <3>1. CASE v \in 1..Len(videos)
      <4>1. videos' = [videos EXCEPT ![v] = frames]
        BY <1>1, <1>2, <1>4, <1>9, <3>1
      <4> QED
        BY <4>1, <3>1, <1>2
    <3>2. CASE v = Len(videos) + 1
      <4>1. v \notin DOMAIN videos
        BY <1>2, <3>2
      <4>2. videos' = Append(videos, frames)
        BY <1>1, <1>4, <1>9, <4>1
      <4> QED
        BY <4>2, <3>2, <1>2
    <3> QED
      BY <3>1, <3>2, <1>2, <1>7
  <2> QED
    BY <2>1, <2>2, <1>5, <1>6
<1> QED
  BY <1>8, <1>9

\* save_episode writes the episode's video after all that is kept.
LEMMA SaveVideoEpisodes ==
  ASSUME WriterInv, CountInv, Pictured, Encoded, DiskClosed, SavedKept, InStep,
         EncodePictures \/ JoinEncoder \/ JoinTimesOut
  PROVE  DiskClosed' /\ SavedKept' /\ InStep'
<1>0. /\ RecorderT /\ FilesT /\ TakeInv /\ MetaInv /\ DataInv /\ MetadataHasData
      /\ pc \in {"video", "join"} /\ pc \in InSave /\ Alive /\ pc' = "meta" /\ Alive'
      /\ UNCHANGED <<mode, buffer, data, meta, latest, latestMeta, info, saved>>
      /\ dropped \subseteq dropped'
  BY DEF WriterInv, EncodePictures, JoinEncoder, JoinTimesOut, SaveVideo, Alive, InSave
<1>1. buffer.size > 0 /\ buffer.size \in Nat /\ info.frames \in Nat
  BY <1>0, RecorderFacts DEF TakeInv
<1>2. PICK frames \in Seq(Frame) :
        /\ SaveVideo(frames)
        /\ buffer.take \notin dropped' =>
             Len(frames) >= buffer.size /\ \A i \in 1..buffer.size : frames[i] = <<buffer.take, i>>
  <2>1. pictures \in Seq(Frame) /\ encoded \in Seq(Frame)
    BY <1>0 DEF RecorderT, Stream!TypeOK
  <2>2. CASE EncodePictures
    <3>1. SaveVideo(pictures) /\ pc = "video"
      BY <2>2 DEF EncodePictures
    <3>2. \A i \in 1..buffer.size : i <= Len(pictures) /\ pictures[i] = <<buffer.take, i>>
      BY <3>1 DEF CountInv, Pictured
    <3>3. buffer.size \in 1..buffer.size
      BY <1>1
    <3>4. buffer.size <= Len(pictures)
      BY <3>2, <3>3
    <3>5. Len(pictures) >= buffer.size
      BY <3>4, <2>1, <1>1
    <3> QED
      BY <3>1, <3>2, <3>5, <2>1
  <2>3. CASE JoinEncoder \/ JoinTimesOut
    <3>1. SaveVideo(encoded) /\ pc = "join"
      BY <2>3 DEF JoinEncoder, JoinTimesOut
    <3>2. ASSUME buffer.take \notin dropped'
          PROVE  Len(encoded) >= buffer.size /\ \A i \in 1..buffer.size : encoded[i] = <<buffer.take, i>>
      <4>1. buffer.take \notin dropped
        BY <3>2, <1>0
      <4>2. Encoding
        BY <4>1, <3>1, <1>1 DEF CountInv, Encoded
      <4>3. \/ thread = "ok"
            \/ thread = "running" /\ Stream!Held = {}
        BY <2>3, <3>2 DEF JoinEncoder, JoinTimesOut, Stream!JoinOk, Stream!JoinTimesOut
      <4>4. Len(encoded) = buffer.size /\ \A i \in 1..buffer.size : encoded[i] = <<buffer.take, i>>
        BY <4>2, <4>3, <3>1, <1>0, JoinedVideo
      <4>5. buffer.size >= buffer.size
        BY <1>1
      <4> QED
        BY <4>4, <4>5
    <3> QED
      BY <3>1, <3>2, <2>1
  <2> QED
    BY <2>2, <2>3
<1>3. latestMeta # None => latestMeta.stop = Len(videos[latestMeta.video])
  BY <1>0 DEF InStep
<1>4. PICK v, s : v = draft'.video /\ s = draft'.start
  OBVIOUS
<1>5. /\ v \in 1..Len(videos') /\ s \in Nat /\ draft'.stop = Len(videos'[v])
      /\ s + Len(frames) = Len(videos'[v])
      /\ \A i \in 1..Len(frames) : videos'[v][s + i] = frames[i]
  BY <1>0, <1>2, <1>3, <1>4, FilmAtEnd
<1>6. Here' = Here /\ Here.size = buffer.size /\ Here.take = buffer.take
  BY <1>0 DEF Here
<1>7. ASSUME buffer.take \notin dropped' PROVE HasFilmAt(videos', v, s, Here)
  <2>1. PICK n \in Nat, z \in Nat : n = Len(frames) /\ z = buffer.size
    BY <1>1
  <2>2. z <= n /\ s + z <= s + n
    <3>1. n >= z
      BY <2>1, <1>2, <1>7
    <3> QED
      BY <3>1, <1>5
  <2>3. \A i \in 1..z : videos'[v][s + i] = <<buffer.take, i>>
    <3> SUFFICES ASSUME NEW i \in 1..z PROVE videos'[v][s + i] = <<buffer.take, i>>
      OBVIOUS
    <3>1. i \in 1..n
      BY <2>2
    <3> QED
      BY <3>1, <2>1, <1>2, <1>5, <1>7
  <2>4. s + z <= Len(videos'[v])
    BY <2>1, <2>2, <1>5
  <2> QED
    BY <2>1, <2>3, <2>4, <1>5, <1>6 DEF HasFilmAt
<1>8. DiskClosed'
  BY <1>0 DEF DiskClosed
<1>9. SavedKept'
  <2>1. PICK told \in Seq(RecordT), done \in Seq(TakeT) : told = Told(meta) /\ done = saved
    BY <1>0, DiskTypes
  <2>2. PICK rows \in Seq(RowT) : rows = Records(data.files)
    BY <1>0, DiskTypes
  <2>3. PICK films \in Seq(Seq(Frame)), films2 \in Seq(Seq(Frame)) : films = videos /\ films2 = videos'
    BY <1>0, DiskTypes, SaveVideoFiles
  <2>4. AllKept(told, done, rows, films, dropped)
    BY <2>1, <2>2, <2>3 DEF SavedKept
  <2>5. Starts(told, told) /\ Starts(rows, rows)
    BY StartsItself
  <2>6. ASSUME NEW e \in 1..Len(told), told[e].video \in 1..Len(films)
        PROVE  told[e].video \in 1..Len(films2) /\ Starts(films[told[e].video], films2[told[e].video])
    <3>1. PICK r : r = told[e]
      OBVIOUS
    <3>2. r \in Recorded
      <4>1. meta \in MetaT
        BY <1>0, FilesFacts
      <4>2. e \in 1..Len(Told(meta))
        BY <2>1
      <4>3. Told(meta)[e] \in RecordsOf(meta)
        BY <4>1, <4>2, ToldMembers
      <4> QED
        BY <4>3, <3>1, <2>1, RecordedAre
    <3>3. r \in RecordT /\ r.video <= VideoKnown /\ VideoKnown \in 0..Len(videos)
      BY <3>2, <1>0, NoneBeyond
    <3>4. PICK w \in 1 .. Len(videos) + 1 :
            /\ Len(videos) <= Len(videos')
            /\ \A j \in 1..Len(videos) : j # w => videos'[j] = videos[j]
            /\ \/ VideoKnown < w
               \/ /\ Len(videos[w]) <= Len(videos'[w])
                  /\ \A i \in 1..Len(videos[w]) : videos'[w][i] = videos[w][i]
      BY SaveVideoFiles
    <3>5. r.video \in 1..Len(films2) /\ r.video \in Nat
      <4>1. Len(films) \in Nat /\ Len(films2) \in Nat /\ Len(films) <= Len(films2)
        BY <3>4, <2>3
      <4>2. r.video \in 1..Len(films)
        BY <3>1, <2>6
      <4>3. PICK l \in Nat, l2 \in Nat : l = Len(films) /\ l2 = Len(films2)
        BY <4>1
      <4>4. PICK x \in 1..l : x = r.video
        BY <4>2, <4>3
      <4>5. l <= l2
        BY <4>1, <4>3
      <4>6. x \in 1..l2 /\ x \in Nat
        BY <4>5
      <4> QED
        BY <4>3, <4>4, <4>6
    <3>6. Starts(films[r.video], films2[r.video])
      <4>1. r.video \in 1..Len(films) /\ films[r.video] \in Seq(Frame)
        BY <3>1, <2>6
      <4>2. CASE r.video # w
        <5>1. films2[r.video] = films[r.video]
          BY <4>1, <4>2, <3>4, <2>3
        <5> QED
          BY <5>1, <4>1, StartsItself
      <4>3. CASE r.video = w
        <5>1. ~(VideoKnown < w)
          BY <4>3, <3>3, <3>5
        <5> QED
          BY <5>1, <4>3, <3>4, <2>3 DEF Starts
      <4> QED
        BY <4>2, <4>3
    <3> QED
      BY <3>1, <3>5, <3>6
  <2>7. \A e \in 1..Len(told) : told[e].video \in 1..Len(films) =>
          told[e].video \in 1..Len(films2) /\ Starts(films[told[e].video], films2[told[e].video])
    BY <2>6
  <2>8. AllKept(told, done, rows, films2, dropped')
    <3>1. PICK lost, lost2 : lost = dropped /\ lost2 = dropped'
      OBVIOUS
    <3>2. lost \subseteq lost2
      BY <3>1, <1>0
    <3>3. AllKept(told, done, rows, films, lost)
      BY <3>1, <2>4
    <3>4. AllKept(told, done, rows, films2, lost2)
      BY <3>2, <3>3, <2>5, <2>7, AllKeptStays, ZenonT(60)
    <3> QED
      BY <3>1, <3>4
  <2> QED
    BY <2>1, <2>2, <2>3, <2>8, <1>0 DEF SavedKept
<1>10. InStep'
  <2>1. pc' # "info" /\ pc' \in InSave /\ pc' \in {"finish", "join", "video", "meta"} /\ pc # "info" /\ pc # "meta"
    BY <1>0 DEF InSave
  <2>2. /\ Told(meta') = Told(meta) /\ Len(Told(meta)) = Len(saved) + 0 /\ info.frames = EndOf(Told(meta))
        /\ Records(data'.files) = Records(data.files)
        /\ Len(Records(data.files)) = info.frames + buffer.size
        /\ HasRowsAt(Records(data.files), info.frames, info.episodes, Here)
        /\ latest # None => latest.file = Len(data.files)
    BY <2>1, <1>0 DEF InStep
  <2>3. draft'.stop = Len(videos'[draft'.video])
    BY <1>4, <1>5
  <2>4. buffer'.take \notin dropped' => HasFilmAt(videos', draft'.video, draft'.start, Here')
    BY <1>0, <1>4, <1>6, <1>7
  <2> QED
    BY <2>1, <2>2, <2>3, <2>4, <1>0, <1>6 DEF InStep
<1> QED
  BY <1>8, <1>9, <1>10

\* A copy that fails leaves the other videos; the takes of its own are given up.
LEMMA CopyFailsEpisodes ==
  ASSUME WriterInv, DiskClosed, SavedKept, InStep, CopyFails
  PROVE  DiskClosed' /\ SavedKept' /\ InStep'
<1>0. /\ RecorderT /\ FilesT /\ pc \in {"video", "join"} /\ pc' = "broken" /\ Alive /\ Alive'
      /\ pc \in InSave /\ pc' \in InSave
      /\ UNCHANGED <<buffer, data, meta, latest, latestMeta, info, saved>>
      /\ latestMeta.video \in 1..Len(videos)
      /\ Len(videos') = Len(videos)
      /\ \A j \in 1..Len(videos) : j # latestMeta.video => videos'[j] = videos[j]
  BY CopyFailsFiles DEF WriterInv, CopyFails, Alive, InSave
<1>1. PICK film \in Seq(Frame) : film = videos[latestMeta.video]
  BY <1>0 DEF FilesT
<1>2. dropped' = dropped \cup {buffer.take} \cup {film[i][1] : i \in 1..Len(film)}
  BY <1>1 DEF CopyFails
<1>3. DiskClosed'
  BY <1>0 DEF DiskClosed
<1>4. PICK told \in Seq(RecordT), done \in Seq(TakeT) : told = Told(meta) /\ done = saved
  BY <1>0, DiskTypes
<1>5. PICK rows \in Seq(RowT) : rows = Records(data.files)
  BY <1>0, DiskTypes
<1>6. AllKept(told, done, rows, videos, dropped)
  BY <1>4, <1>5 DEF SavedKept
<1>7. ASSUME NEW e \in 1..Len(done) PROVE Kept(told[e], e - 1, done[e], rows, videos', dropped')
  <2>1. e \in 1..Len(told)
    <3>1. Len(done) \in Nat /\ Len(told) \in Nat /\ Len(done) <= Len(told)
      BY <1>6 DEF AllKept
    <3> QED
      BY <3>1
  <2>2. PICK r \in RecordT, s \in TakeT : r = told[e] /\ s = done[e]
    BY <2>1
  <2>3. Kept(r, e - 1, s, rows, videos, dropped)
    BY <2>2, <1>6 DEF AllKept
  <2>4. ASSUME s.take \notin dropped' PROVE HasFilmAt(videos', r.video, r.start, s)
    <3>1. HasFilmAt(videos, r.video, r.start, s)
      BY <2>3, <2>4, <1>2 DEF Kept
    <3>2. CASE r.video = latestMeta.video
      <4>1. r.start + s.size <= Len(film) /\ \A i \in 1..s.size : film[r.start + i] = <<s.take, i>>
        BY <3>1, <3>2, <1>1 DEF HasFilmAt
      <4>2. r.start \in Nat /\ s.size \in Nat \ {0} /\ Len(film) \in Nat
        BY WriterAssumption DEF RecordT, TakeT
      <4>3. PICK at \in Nat, n \in Nat, l \in Nat : at = r.start /\ n = s.size /\ l = Len(film)
        BY <4>2
      <4>4. n # 0 /\ at + n <= l
        BY <4>1, <4>2, <4>3
      <4>5. 1 \in 1..n /\ at + 1 \in 1..l
        BY <4>4
      <4>6. film[at + 1] = <<s.take, 1>> /\ at + 1 \in 1..Len(film)
        BY <4>1, <4>3, <4>5
      <4>7. film[at + 1][1] = s.take
        BY <4>6
      <4> QED
        BY <4>6, <4>7, <2>4, <1>2
    <3>3. CASE r.video # latestMeta.video
      <4>1. r.video \in 1..Len(videos)
        BY <3>1 DEF HasFilmAt
      <4>2. videos'[r.video] = videos[r.video]
        BY <4>1, <3>3, <1>0
      <4> QED
        BY <4>2, <3>1, <1>0 DEF HasFilmAt
    <3> QED
      BY <3>2, <3>3
  <2> QED
    BY <2>2, <2>3, <2>4 DEF Kept
<1>8. SavedKept'
  <2>1. AllKept(told, done, rows, videos', dropped')
    BY <1>6, <1>7 DEF AllKept
  <2> QED
    BY <2>1, <1>0, <1>4, <1>5 DEF SavedKept
<1>9. InStep'
  <2>1. Here' = Here
    BY <1>0 DEF Here
  <2>2. /\ Len(Told(meta)) = Len(saved) + 0 /\ info.frames = EndOf(Told(meta))
        /\ Len(Records(data.files)) = info.frames + buffer.size
        /\ latest # None => latest.file = Len(data.files)
        /\ HasRowsAt(Records(data.files), info.frames, info.episodes, Here)
    BY <1>0 DEF InStep
  <2> QED
    BY <2>1, <2>2, <1>0 DEF InStep
<1> QED
  BY <1>3, <1>8, <1>9

\* save_episode writes the record of the episode after all others.
LEMMA SaveMetadataEpisodes ==
  ASSUME WriterInv, CountInv, DiskClosed, SavedKept, InStep, SaveMetadata
  PROVE  DiskClosed' /\ SavedKept' /\ InStep'
<1>0. /\ RecorderT /\ FilesT /\ MetaInv /\ SaveInv
      /\ pc = "meta" /\ pc' = "info" /\ Alive /\ Alive' /\ pc \in InSave /\ pc' \in InSave
      /\ UNCHANGED <<buffer, data, videos, latest, episodes, draft, info, saved, dropped>>
  BY DEF WriterInv, SaveMetadata, Alive, InSave, historyVars
<1>1. PICK rolls \in BOOLEAN :
        /\ rolls => latestMeta # None
        /\ meta' = AddRecord(IF rolls THEN CloseMeta(meta) ELSE meta, NextRecord(rolls))
        /\ latestMeta' = NextRecord(rolls)
  BY DEF SaveMetadata
<1>2. PICK record : record = NextRecord(rolls)
  OBVIOUS
<1>3. /\ record \in RecordT /\ record.episode = buffer.episode
      /\ record.from = (IF FirstEver THEN 0 ELSE Previous.to) /\ record.to = record.from + buffer.size
      /\ record.data = latest.file /\ record.video = draft.video
      /\ record.start = draft.start /\ record.stop = draft.stop
  BY <1>2, NextRecordIs
<1>4. PICK m : m = IF rolls THEN CloseMeta(meta) ELSE meta
  OBVIOUS
<1>5. PICK told \in Seq(RecordT) : told = Told(meta)
  BY <1>0, DiskTypes
<1>6. meta \in MetaT /\ MetaClosed(meta)
  BY <1>0, FilesFacts DEF DiskClosed
<1>7. m \in MetaT /\ Told(m) = told /\ MetaClosed(m)
  <2>1. CASE rolls
    <3>1. m = CloseMeta(meta) /\ latestMeta # None
      BY <2>1, <1>1, <1>4
    <3>2. \E last \in RecordT : InOrder(meta, last)
      BY <3>1, <1>0, FilesFacts DEF MetaInv
    <3>3. m \in MetaT /\ Told(m) = Told(meta) /\ MetaClosed(m)
      BY <3>1, <3>2, <1>6, CloseTold
    <3> QED
      BY <3>3, <1>5
  <2>2. CASE ~rolls
    BY <2>2, <1>4, <1>5, <1>6
  <2> QED
    BY <2>1, <2>2
<1>8. meta' = AddRecord(m, record) /\ latestMeta' = record
  BY <1>1, <1>2, <1>4
<1>9. \/ \E last \in RecordT : InOrder(m, last) /\ record.file = last.file
      \/ m.open = 0 /\ m.buffer = <<>> /\ record.file = Len(m.files) + 1
  BY <1>1, <1>2, <1>4, RecordFollows
<1>10. Extended(Told(meta'), Told(m), record) /\ MetaClosed(meta')
  BY <1>3, <1>7, <1>8, <1>9, AddTold
<1>11. meta' \in MetaT
  BY SaveMetadataStep DEF FilesT
<1>12. PICK told2 \in Seq(RecordT) : told2 = Told(meta')
  BY <1>11, ToldIs
<1>13. Len(told2) = Len(told) + 1 /\ told2[Len(told2)] = record /\ \A i \in 1..Len(told) : told2[i] = told[i]
  BY <1>7, <1>10, <1>12 DEF Extended
<1>14. told2 # <<>> /\ Last(told2) = record
  BY <1>13 DEF Last
<1>15. DiskClosed'
  BY <1>0, <1>10 DEF DiskClosed
<1>16. SavedKept'
  <2>1. PICK done \in Seq(TakeT) : done = saved
    BY <1>0, DiskTypes
  <2>2. PICK rows \in Seq(RowT) : rows = Records(data.files)
    BY <1>0, DiskTypes
  <2>3. PICK films \in Seq(Seq(Frame)) : films = videos
    BY <1>0, DiskTypes
  <2>4. AllKept(told, done, rows, films, dropped)
    BY <2>1, <2>2, <2>3, <1>5 DEF SavedKept
  <2>5. Starts(told, told2) /\ Starts(rows, rows)
    <3>1. Len(told) <= Len(told2)
      BY <1>13
    <3>2. Starts(told, told2)
      BY <3>1, <1>13 DEF Starts
    <3> QED
      BY <3>2, StartsItself
  <2>6. \A e \in 1..Len(told) : told[e].video \in 1..Len(films) =>
          told[e].video \in 1..Len(films) /\ Starts(films[told[e].video], films[told[e].video])
    BY SameFilms
  <2>7. AllKept(told2, done, rows, films, dropped)
    BY <2>4, <2>5, <2>6, AllKeptStays
  <2> QED
    BY <2>1, <2>2, <2>3, <2>7, <1>0, <1>12 DEF SavedKept
<1>17. record.from = info.frames
  <2>1. info.frames = EndOf(told)
    BY <1>0, <1>5 DEF InStep
  <2>2. CASE FirstEver
    <3>1. told = <<>>
      BY <2>2, <1>0, <1>5, KnowsLast DEF FirstEver
    <3> QED
      BY <3>1, <2>1, <2>2, <1>3 DEF EndOf
  <2>3. CASE ~FirstEver
    <3>1. told # <<>> /\ Last(told) = Previous
      BY <2>3, <1>0, <1>5, KnowsLast DEF FirstEver, Previous
    <3> QED
      BY <3>1, <2>1, <2>3, <1>3 DEF EndOf
  <2> QED
    BY <2>2, <2>3
<1>18. Here' = Here /\ Here.size = buffer.size /\ Here.take = buffer.take
  BY <1>0 DEF Here
<1>19. /\ Len(told) = Len(saved) + 0 /\ Len(Records(data.files)) = info.frames + buffer.size
       /\ latest # None => latest.file = Len(data.files)
       /\ HasRowsAt(Records(data.files), info.frames, info.episodes, Here)
       /\ draft.stop = Len(videos[draft.video])
       /\ buffer.take \notin dropped => HasFilmAt(videos, draft.video, draft.start, Here)
  BY <1>0, <1>5 DEF InStep
<1>20. latest # None
  BY <1>0 DEF SaveInv
<1>21. Kept(record, info.episodes, Here, Records(data.files), videos, dropped)
  <2>1. record.episode = info.episodes
    BY <1>3 DEF CountInv
  <2> QED
    BY <2>1, <1>3, <1>17, <1>18, <1>19 DEF Kept
<1>22. InStep'
  <2>1. Len(Told(meta')) = Len(saved') + 1
    <3>1. Len(saved) \in Nat
      BY <1>0, DiskTypes
    <3> QED
      BY <3>1, <1>0, <1>12, <1>13, <1>19
  <2>2. Len(data'.files) = FileOf(Told(meta'))
    BY <1>0, <1>3, <1>12, <1>14, <1>19, <1>20 DEF FileOf
  <2>3. latestMeta'.stop = Len(videos'[latestMeta'.video])
    BY <1>0, <1>3, <1>8, <1>19
  <2>4. /\ Last(Told(meta')).from = info'.frames
        /\ Kept(Last(Told(meta')), info'.episodes, Here', Records(data'.files), videos', dropped')
    BY <1>0, <1>12, <1>14, <1>17, <1>18, <1>21
  <2> QED
    BY <2>1, <2>2, <2>3, <2>4, <1>0, <1>18, <1>19 DEF InStep
<1> QED
  BY <1>15, <1>16, <1>22

\* save_episode counts the episode: its record is the last one, and finds it.
LEMMA WriteInfoEpisodes ==
  ASSUME RecorderT, FilesT, TakeInv, CountInv, DiskClosed, SavedKept, InStep, WriteInfo
  PROVE  DiskClosed' /\ SavedKept' /\ InStep'
<1>0. /\ pc = "info" /\ pc' = "frames" /\ Alive /\ Alive' /\ pc \in InSave /\ pc' \notin InSave
      /\ info' = [episodes |-> info.episodes + 1, frames |-> info.frames + buffer.size]
      /\ saved' = Append(saved, Here)
      /\ UNCHANGED <<data, meta, videos, latest, latestMeta, dropped>>
  BY DEF WriteInfo, Alive, InSave, Here
<1>1. Here \in TakeT /\ Here.size = buffer.size /\ buffer.size \in Nat
  <2>1. buffer.size > 0
    BY <1>0 DEF TakeInv
  <2> QED
    BY <2>1, HereIs, RecorderFacts
<1>2. PICK told \in Seq(RecordT), done \in Seq(TakeT) : told = Told(meta) /\ done = saved
  BY DiskTypes
<1>3. /\ Len(told) = Len(done) + 1 /\ Len(Records(data.files)) = info.frames + buffer.size
      /\ latest # None => latest.file = Len(data.files)
      /\ latestMeta # None => latestMeta.stop = Len(videos[latestMeta.video])
      /\ Len(data.files) = FileOf(told)
      /\ Last(told).from = info.frames
      /\ Kept(Last(told), info.episodes, Here, Records(data.files), videos, dropped)
  BY <1>0, <1>2 DEF InStep
<1>4. PICK n \in Nat : n = Len(done)
  OBVIOUS
<1>5. Len(told) = n + 1 /\ told # <<>> /\ Last(told) = told[n + 1]
  BY <1>3, <1>4 DEF Last
<1>6. info.episodes = n
  BY <1>2, <1>4 DEF CountInv
<1>7. Append(done, Here) \in Seq(TakeT)
  BY <1>1
<1>8. PICK done2 \in Seq(TakeT) : done2 = Append(done, Here)
  BY <1>7
<1>9. Len(done2) = n + 1 /\ done2[n + 1] = Here /\ \A e \in 1..n : done2[e] = done[e]
  BY <1>1, <1>4, <1>8
<1>10. saved' = done2
  BY <1>0, <1>2, <1>8
<1>11. DiskClosed'
  BY <1>0 DEF DiskClosed
<1>12. SavedKept'
  <2>1. ASSUME NEW e \in 1 .. n + 1
        PROVE  Kept(told[e], e - 1, done2[e], Records(data.files), videos, dropped)
    <3>1. CASE e = n + 1
      <4>1. e - 1 = n
        BY <3>1
      <4>2. told[e] = Last(told) /\ done2[e] = Here /\ info.episodes = n
        BY <3>1, <1>5, <1>6, <1>9
      <4> QED
        BY <4>1, <4>2, <1>3
    <3>2. CASE e # n + 1
      <4>1. e \in 1..n
        BY <3>2
      <4>2. AllKept(told, done, Records(data.files), videos, dropped)
        BY <1>2 DEF SavedKept
      <4> QED
        BY <4>1, <4>2, <1>4, <1>9 DEF AllKept
    <3> QED
      BY <3>1, <3>2
  <2>2. Len(done2) <= Len(told)
    BY <1>5, <1>9
  <2>3. AllKept(told, done2, Records(data.files), videos, dropped)
    BY <2>1, <2>2, <1>9 DEF AllKept
  <2> QED
    BY <2>3, <1>0, <1>2, <1>10 DEF SavedKept
<1>13. InStep'
  <2>1. Len(Told(meta')) = Len(saved') + 0
    <3>1. Len(told) = Len(done2) + 0
      BY <1>5, <1>9
    <3> QED
      BY <3>1, <1>0, <1>2, <1>10
  <2>2. info.frames \in Nat /\ info'.frames = info.frames + buffer.size
    BY <1>0, RecorderFacts DEF RecorderT
  <2>3. Len(Records(data'.files)) = info'.frames + 0
    BY <2>2, <1>0, <1>1, <1>3
  <2>4. info'.frames = EndOf(Told(meta'))
    <3>1. Last(told).to = Last(told).from + Here.size
      BY <1>3 DEF Kept
    <3> QED
      BY <3>1, <2>2, <1>0, <1>1, <1>2, <1>3, <1>5 DEF EndOf
  <2>5. Len(data'.files) = FileOf(Told(meta'))
    BY <1>0, <1>2, <1>3
  <2>6. /\ Alive' /\ latest' # None => latest'.file = Len(data'.files)
        /\ Alive' /\ latestMeta' # None => latestMeta'.stop = Len(videos'[latestMeta'.video])
    BY <1>0, <1>3
  <2> QED
    BY <2>1, <2>3, <2>4, <2>5, <2>6, <1>0 DEF InStep
<1> QED
  BY <1>11, <1>12, <1>13

\* Steps of the encoder, and those that only go on to the next: the disk stays.
LEMMA DiskStays ==
  ASSUME UNCHANGED <<buffer, data, meta, videos, info, latest, latestMeta, draft, saved, dropped>>,
         pc' = pc \/ (pc = "finish" /\ pc' = "join")
  PROVE  /\ DiskClosed => DiskClosed'
         /\ SavedKept => SavedKept'
         /\ InStep => InStep'
<1>1. DiskClosed => DiskClosed'
  BY DEF DiskClosed
<1>2. SavedKept => SavedKept'
  BY DEF SavedKept
<1>3. ASSUME InStep PROVE InStep'
  <2>0. Here' = Here
    BY DEF Here
  <2>1. CASE pc' = pc
    <3>1. Alive' <=> Alive
      BY <2>1 DEF Alive
    <3> QED
      BY <3>1, <2>0, <2>1, <1>3 DEF InStep
  <2>2. CASE pc = "finish" /\ pc' = "join"
    <3>1. /\ pc \in InSave /\ pc' \in InSave /\ Alive /\ Alive' /\ pc # "info" /\ pc' # "info"
          /\ pc # "meta" /\ pc' # "meta" /\ pc' \in {"finish", "join", "video", "meta"}
      BY <2>2 DEF InSave, Alive
    <3>2. /\ Len(Told(meta)) = Len(saved) + 0 /\ info.frames = EndOf(Told(meta))
          /\ Len(Records(data.files)) = info.frames + buffer.size
          /\ latest # None => latest.file = Len(data.files)
          /\ HasRowsAt(Records(data.files), info.frames, info.episodes, Here)
          /\ latestMeta # None => latestMeta.stop = Len(videos[latestMeta.video])
      BY <3>1, <1>3 DEF InStep
    <3> QED
      BY <3>1, <3>2, <2>0 DEF InStep
  <2> QED
    BY <2>1, <2>2
<1> QED
  BY <1>1, <1>2, <1>3

\* finalize closes the data file.
LEMMA FinalizeDataEpisodes ==
  ASSUME WriterInv, DiskClosed, SavedKept, FinalizeData
  PROVE  /\ DiskClosed' /\ SavedKept'
         /\ InStep => InStep'
<1>0. /\ RecorderT /\ FilesT /\ pc = "close data" /\ pc' = "close meta" /\ Alive /\ Alive'
      /\ pc \notin InSave /\ pc' \notin InSave
      /\ data' = CloseData(data)
      /\ UNCHANGED <<meta, videos, info, latest, latestMeta, saved, dropped>>
  BY DEF WriterInv, FinalizeData, Alive, InSave, memoryVars, historyVars
<1>1. /\ data.files \in Seq(FileT(RowT)) /\ data.open \in 0..Len(data.files)
      /\ \A k \in 1..Len(data.files) : k # data.open => data.files[k].footer
  BY <1>0, FilesFacts DEF DiskClosed
<1>2. PICK files : files = CloseFile(data.files, data.open)
  OBVIOUS
<1>3. data'.files = files
  BY <1>0, <1>2 DEF CloseData
<1>4. /\ files \in Seq(FileT(RowT)) /\ Len(files) = Len(data.files)
      /\ \A j \in 1..Len(data.files) : files[j].rows = data.files[j].rows
  BY <1>1, <1>2, CloseFiles
<1>5. \A k \in 1..Len(data.files) : files[k].footer
  BY <1>1, <1>2, CloseFooters
<1>6. Records(files) = Records(data.files)
  BY <1>1, <1>4, RecordsSame
<1>7. DiskClosed'
  BY <1>0, <1>3, <1>4, <1>5 DEF DiskClosed
<1>8. Told(meta') = Told(meta) /\ Records(data'.files) = Records(data.files) /\ Len(data'.files) = Len(data.files)
  BY <1>0, <1>3, <1>4, <1>6
<1>9. SavedKept'
  BY <1>0, <1>8, IdleKept
<1>10. InStep => InStep'
  BY <1>0, <1>8, IdleInStep
<1> QED
  BY <1>7, <1>9, <1>10

\* finalize writes the metadata left in the buffer and closes their file.
LEMMA FinalizeMetaEpisodes ==
  ASSUME WriterInv, DiskClosed, SavedKept, FinalizeMeta
  PROVE  /\ DiskClosed' /\ SavedKept'
         /\ InStep => InStep'
<1>0. /\ RecorderT /\ FilesT /\ MetaInv /\ pc = "close meta" /\ pc' = "ended" /\ Alive /\ ~Alive'
      /\ pc \notin InSave /\ pc' \notin InSave
      /\ meta' = CloseMeta(meta)
      /\ UNCHANGED <<data, videos, info, saved, dropped>>
  BY DEF WriterInv, FinalizeMeta, Alive, InSave, historyVars
<1>1. meta \in MetaT /\ MetaClosed(meta)
  BY <1>0, FilesFacts DEF DiskClosed
<1>2. \/ meta.open = 0 /\ meta.buffer = <<>>
      \/ \E last \in RecordT : InOrder(meta, last)
  BY <1>0, FilesFacts DEF MetaInv
<1>3. PICK C : C = CloseMeta(meta)
  OBVIOUS
<1>4. Told(C) = Told(meta) /\ MetaClosed(C)
  BY <1>1, <1>2, <1>3, CloseTold
<1>5. Told(meta') = Told(meta) /\ MetaClosed(meta')
  BY <1>0, <1>3, <1>4
<1>6. DiskClosed'
  BY <1>0, <1>5 DEF DiskClosed
<1>7. Records(data'.files) = Records(data.files) /\ Len(data'.files) = Len(data.files)
  BY <1>0
<1>8. SavedKept'
  BY <1>0, <1>5, <1>7, IdleKept
<1>9. InStep => InStep'
  BY <1>0, <1>5, <1>7, IdleInStep
<1> QED
  BY <1>6, <1>8, <1>9

\* Outside of save_episode, with every file closed, a kill loses nothing.
LEMMA KillEpisodes ==
  ASSUME WriterInv, HurtInv, DiskClosed, SavedKept, InStep, Kill, hurt' = 0
  PROVE  DiskClosed' /\ SavedKept' /\ InStep'
<1>0. /\ RecorderT /\ FilesT /\ pc' = "killed" /\ ~Alive' /\ pc' \notin InSave
      /\ data' = [data EXCEPT !.open = 0] /\ meta' = [meta EXCEPT !.open = 0, !.buffer = <<>>]
      /\ hurt' = IF hurt = 0 /\ (pc \in InSave \/ data.open # 0 \/ meta.open # 0 \/ meta.buffer # <<>>)
                 THEN session ELSE hurt
      /\ UNCHANGED <<videos, info, saved, dropped>>
  BY DEF WriterInv, Kill, Alive, InSave
<1>1. session # 0
  BY <1>0, RecorderFacts, WriterAssumption DEF RecorderT
<1>2. pc \notin InSave /\ data.open = 0 /\ meta.open = 0 /\ meta.buffer = <<>>
  BY <1>0, <1>1
<1>3. data' = data
  <2>1. data \in [files : Seq(FileT(RowT)), open : Nat]
    BY <1>0 DEF FilesT
  <2> QED
    BY <2>1, <1>0, <1>2
<1>4. meta' = meta
  <2>1. meta \in MetaT
    BY <1>0, FilesFacts
  <2> QED
    BY <2>1, <1>0, <1>2 DEF MetaT
<1>5. Told(meta') = Told(meta) /\ Records(data'.files) = Records(data.files) /\ Len(data'.files) = Len(data.files)
  BY <1>3, <1>4
<1>6. DiskClosed'
  BY <1>3, <1>4 DEF DiskClosed
<1>7. SavedKept'
  BY <1>0, <1>5, IdleKept
<1>8. InStep'
  BY <1>0, <1>2, <1>5, IdleInStep
<1> QED
  BY <1>6, <1>7, <1>8

\* A session that begins has every file closed.
LEMMA ResumeEpisodes ==
  ASSUME WriterInv, DiskClosed, SavedKept, InStep, Resume
  PROVE  DiskClosed' /\ SavedKept' /\ InStep'
<1>0. /\ RecorderT /\ FilesT /\ pc \notin InSave /\ pc' \notin InSave
      /\ latest' = None /\ latestMeta' = None
      /\ UNCHANGED <<data, meta, videos, info, saved, dropped>>
  BY DEF WriterInv, Resume, InSave, diskVars, historyVars
<1>1. Told(meta') = Told(meta) /\ Records(data'.files) = Records(data.files) /\ Len(data'.files) = Len(data.files)
  BY <1>0
<1>2. DiskClosed'
  BY <1>0 DEF DiskClosed
<1>3. SavedKept'
  BY <1>0, <1>1, IdleKept
<1>4. InStep'
  BY <1>0, <1>1, IdleInStep
<1> QED
  BY <1>2, <1>3, <1>4

----------------------------------------------------------------------------
(* The episodes that are counted are found. *)

\* While no episode has been cut short, every episode that is counted is kept, and what is on the
\* disk goes no further than the last of them and the one that is being saved.
EpisodesInv ==
  /\ HurtInv /\ CountInv /\ Pictured /\ Encoded
  /\ Sound => DiskClosed /\ SavedKept
  /\ hurt = 0 => InStep

LEMMA EpisodesInvInit == Init => EpisodesInv
<1> SUFFICES ASSUME Init PROVE EpisodesInv
  OBVIOUS
<1>1. /\ pc = "frames" /\ buffer.size = 0 /\ buffer.episode = 0
      /\ data.files = <<>> /\ data.open = 0 /\ latest = None
      /\ meta = [files |-> <<>>, open |-> 0, buffer |-> <<>>] /\ latestMeta = None
      /\ info.episodes = 0 /\ info.frames = 0 /\ session = 1 /\ saved = <<>> /\ hurt = 0
  BY DEF Init, NewBuffer, NoInfo
<1>2. RecorderT /\ FilesT
  BY WriterInvInit DEF WriterInv
<1>3. Told(meta) = <<>>
  <2>1. meta \in MetaT /\ meta.files = <<>> /\ meta.buffer = <<>>
    BY <1>1, <1>2, FilesFacts
  <2> QED
    BY <2>1, NothingTold
<1>4. Records(data.files) = <<>>
  <2>1. PICK s : s = [k \in DOMAIN data.files |-> data.files[k].rows]
    OBVIOUS
  <2>2. s = <<>>
    BY <2>1, <1>1
  <2> QED
    BY <2>1, <2>2, FlattenNothing DEF Records
<1>5. HurtInv /\ CountInv /\ Pictured /\ Encoded
  <2>1. \A i \in 1..0 : FALSE
    OBVIOUS
  <2> QED
    BY <2>1, <1>1 DEF HurtInv, CountInv, Pictured, Encoded
<1>6. DiskClosed /\ SavedKept
  <2>1. \A i \in 1..0 : FALSE
    OBVIOUS
  <2>2. Len(data.files) = 0 /\ Len(meta.files) = 0 /\ Len(saved) = 0 /\ Len(Told(meta)) = 0
    BY <1>1, <1>3
  <2>3. DiskClosed
    BY <2>1, <2>2 DEF DiskClosed, MetaClosed
  <2> QED
    BY <2>1, <2>2, <2>3 DEF SavedKept, AllKept
<1>7. InStep
  <2>1. /\ Len(Told(meta)) = 0 /\ Len(saved) + 0 = 0 /\ Len(Records(data.files)) = 0
        /\ info.frames + 0 = 0 /\ Len(data.files) = 0
    BY <1>1, <1>3, <1>4
  <2>2. pc \notin InSave /\ pc # "info" /\ pc # "meta"
    BY <1>1 DEF InSave
  <2> QED
    BY <2>1, <2>2, <1>1, <1>3 DEF InStep, EndOf, FileOf
<1> QED
  BY <1>5, <1>6, <1>7 DEF EpisodesInv

\* Every step keeps what is on the disk whole.
LEMMA EpisodesInvStep == WriterInv /\ EpisodesInv /\ [Next]_vars => EpisodesInv'
<1> SUFFICES ASSUME WriterInv, EpisodesInv, [Next]_vars PROVE EpisodesInv'
  OBVIOUS
<1>0. /\ RecorderT /\ FilesT /\ TakeInv /\ HurtInv /\ CountInv /\ Pictured /\ Encoded
      /\ Sound => DiskClosed /\ SavedKept
      /\ hurt = 0 => InStep
  BY DEF WriterInv, EpisodesInv
<1>1. HurtInv' /\ CountInv' /\ Pictured' /\ Encoded'
  BY <1>0, RecordingStep, EncodedStep
<1> SUFFICES /\ Sound' => DiskClosed' /\ SavedKept'
             /\ hurt' = 0 => InStep'
  BY <1>1 DEF EpisodesInv
<1>s. session # 0
  BY <1>0, RecorderFacts, WriterAssumption DEF RecorderT
\* Within a session: pc and pc' name no end of it, so that the session has not been hurt.
<1>2. ASSUME pc \in InSave \cup {"frames"}, pc' \in InSave \cup {"frames"}, UNCHANGED <<hurt, session>>,
             hurt = 0 /\ Sound /\ DiskClosed /\ SavedKept /\ InStep => DiskClosed' /\ SavedKept' /\ InStep'
      PROVE  /\ Sound' => DiskClosed' /\ SavedKept'
             /\ hurt' = 0 => InStep'
  <2>1. hurt # session
    BY <1>0, <1>2 DEF HurtInv, InSave
  <2>2. Sound' => hurt = 0
    BY <2>1, <1>2 DEF Sound
  <2>3. hurt = 0 => Sound
    BY DEF Sound
  <2> QED
    BY <2>2, <2>3, <1>0, <1>2
<1>3. CASE AddFrame \/ ClearEpisodeBuffer
  <2>1. /\ pc = "frames" /\ pc' = "frames" /\ UNCHANGED <<hurt, session>>
        /\ UNCHANGED <<data, meta, videos, info, latest, latestMeta, saved>> /\ dropped \subseteq dropped'
    BY <1>3 DEF AddFrame, ClearEpisodeBuffer, diskVars, memoryVars, historyVars
  <2>2. pc \notin InSave /\ pc' \notin InSave /\ Alive /\ Alive'
    BY <2>1 DEF InSave, Alive
  <2>3. /\ Told(meta') = Told(meta) /\ Records(data'.files) = Records(data.files)
        /\ Len(data'.files) = Len(data.files)
    BY <2>1
  <2>4. SavedKept => SavedKept'
    BY <2>1, <2>3, <1>0, IdleKept
  <2>5. InStep => InStep'
    BY <2>1, <2>2, <2>3, IdleInStep
  <2>6. DiskClosed => DiskClosed'
    BY <2>1 DEF DiskClosed
  <2> QED
    BY <2>1, <2>4, <2>5, <2>6, <1>2
<1>4. CASE SaveData
  <2>1. /\ pc = "frames" /\ pc' \in InSave /\ UNCHANGED <<hurt, session>>
    BY <1>4 DEF SaveData, historyVars, InSave
  <2> QED
    BY <2>1, <1>0, <1>2, <1>4, SaveDataEpisodes
<1>5. CASE EncodePictures \/ JoinEncoder \/ JoinTimesOut
  <2>1. /\ pc \in InSave /\ pc' \in InSave /\ UNCHANGED <<hurt, session>>
    BY <1>5 DEF EncodePictures, JoinEncoder, JoinTimesOut, SaveVideo, InSave
  <2> QED
    BY <2>1, <1>0, <1>2, <1>5, SaveVideoEpisodes
<1>6. CASE SaveMetadata
  <2>1. /\ pc \in InSave /\ pc' \in InSave /\ UNCHANGED <<hurt, session>>
    BY <1>6 DEF SaveMetadata, historyVars, InSave
  <2> QED
    BY <2>1, <1>0, <1>2, <1>6, SaveMetadataEpisodes
<1>7. CASE WriteInfo
  <2>1. /\ pc \in InSave /\ pc' = "frames" /\ UNCHANGED <<hurt, session>>
    BY <1>7 DEF WriteInfo, InSave
  <2> QED
    BY <2>1, <1>0, <1>2, <1>7, WriteInfoEpisodes
<1>8. CASE EndSession \/ Raise \/ CopyRaises \/ EncoderRaises
  <2>1. /\ pc \in InSave \cup {"frames"} /\ pc' = "close data"
        /\ hurt' = IF hurt = 0 /\ pc \in InSave THEN session ELSE hurt
        /\ UNCHANGED <<data, meta, videos, info, latest, latestMeta, saved, dropped, session>>
    BY <1>8 DEF EndSession, Raise, CopyRaises, EncoderRaises, Leave, historyVars, diskVars, memoryVars, InSave
  <2>2. hurt # session
    BY <2>1, <1>0 DEF HurtInv, InSave
  <2>3. Sound' => hurt = 0
    BY <2>1, <2>2 DEF Sound
  <2>4. hurt' = 0 => hurt = 0 /\ pc \notin InSave
    BY <2>1, <1>s
  <2>5. /\ Told(meta') = Told(meta) /\ Records(data'.files) = Records(data.files)
        /\ Len(data'.files) = Len(data.files)
    BY <2>1
  <2>6. SavedKept => SavedKept'
    BY <2>1, <2>5, <1>0, IdleKept
  <2>7. DiskClosed => DiskClosed'
    BY <2>1 DEF DiskClosed
  <2>8. ASSUME hurt' = 0 PROVE InStep'
    <3>1. InStep /\ pc \notin InSave /\ pc' \notin InSave /\ Alive
      BY <2>1, <2>4, <2>8, <1>0 DEF InSave, Alive
    <3> QED
      BY <3>1, <2>1, <2>5, IdleInStep
  <2>9. hurt = 0 => Sound
    BY DEF Sound
  <2> QED
    BY <2>3, <2>6, <2>7, <2>8, <2>9, <1>0
<1>9. CASE FinalizeData \/ FinalizeMeta
  <2>1. pc # "killed" /\ UNCHANGED <<hurt, session>>
    BY <1>9 DEF FinalizeData, FinalizeMeta, historyVars
  <2>2. Sound' => Sound
    BY <2>1 DEF Sound
  <2>3. Sound => DiskClosed' /\ SavedKept'
    BY <1>0, <1>9, FinalizeDataEpisodes, FinalizeMetaEpisodes
  <2>4. hurt = 0 => Sound
    BY DEF Sound
  <2>5. hurt = 0 => InStep'
    BY <2>4, <1>0, <1>9, FinalizeDataEpisodes, FinalizeMetaEpisodes
  <2> QED
    BY <2>1, <2>2, <2>3, <2>5
<1>10. CASE Kill
  <2>1. pc' = "killed" /\ (hurt' = 0 => hurt = 0)
    BY <1>10, <1>s DEF Kill
  <2>2. Sound' => hurt' = 0
    BY <2>1 DEF Sound
  <2>3. hurt = 0 => Sound
    BY DEF Sound
  <2>4. hurt' = 0 => DiskClosed' /\ SavedKept' /\ InStep'
    BY <2>1, <2>3, <1>0, <1>10, KillEpisodes
  <2> QED
    BY <2>2, <2>4
<1>11. CASE Resume
  <2>1. pc' = "frames" /\ hurt' = hurt
    BY <1>11 DEF Resume, historyVars
  <2>2. hurt' # session'
    BY <2>1, <1>1 DEF HurtInv
  <2>3. Sound' => hurt = 0
    BY <2>1, <2>2 DEF Sound
  <2>4. hurt = 0 => Sound
    BY DEF Sound
  <2>5. hurt = 0 => DiskClosed' /\ SavedKept' /\ InStep'
    BY <2>4, <1>0, <1>11, ResumeEpisodes
  <2> QED
    BY <2>1, <2>3, <2>5
<1>12. CASE PutSentinel \/ EncoderStep \/ EncoderFails \/ UNCHANGED vars
  <2>1. /\ pc' = pc \/ (pc = "finish" /\ pc' = "join")
        /\ UNCHANGED <<buffer, data, meta, videos, info, latest, latestMeta, draft, saved, dropped>>
        /\ UNCHANGED <<hurt, session>>
    BY <1>12 DEF PutSentinel, EncoderStep, EncoderFails, vars, diskVars, memoryVars, historyVars
  <2>2. /\ DiskClosed => DiskClosed'
        /\ SavedKept => SavedKept'
        /\ InStep => InStep'
    BY <2>1, DiskStays
  <2>3. Sound' => Sound
    BY <2>1 DEF Sound
  <2> QED
    BY <2>1, <2>2, <2>3, <1>0
<1>13. CASE CopyFails
  <2>1. /\ pc \in InSave /\ pc' \in InSave /\ UNCHANGED <<hurt, session>>
    BY <1>13 DEF CopyFails, InSave
  <2> QED
    BY <2>1, <1>0, <1>2, <1>13, CopyFailsEpisodes
<1> QED
  BY <1>3, <1>4, <1>5, <1>6, <1>7, <1>8, <1>9, <1>10, <1>11, <1>12, <1>13
  DEF Next, SaveStep

LEMMA EpisodesInvHolds == Spec => []EpisodesInv
<1>1. Init => EpisodesInv
  BY EpisodesInvInit
<1>2. WriterInv /\ EpisodesInv /\ [Next]_vars => EpisodesInv'
  BY EpisodesInvStep
<1> QED
  BY <1>1, <1>2, WriterInvHolds, PTL DEF Spec

\* A stretch of a sequence, element by element.
LEMMA StretchIs ==
  ASSUME NEW S, NEW a \in Seq(S), NEW m \in Nat, NEW n \in Nat, m + n <= Len(a),
         NEW f, f = [i \in 1..n |-> a[m + i]]
  PROVE  SubSeq(a, m + 1, m + n) = f
<1>1. PICK l \in Nat : l = Len(a)
  OBVIOUS
<1>2. PICK x : x = SubSeq(a, m + 1, m + n)
  OBVIOUS
<1>3. m + n \in Nat /\ m + n <= l
  BY <1>1
<1>4. \A i \in 1..n : m + i \in 1..l
  BY <1>3
<1>5. x \in Seq(S) /\ Len(x) = n /\ \A i \in 1..n : x[i] = a[m + i]
  <2>1. \A i \in m + 1 .. m + n : a[i] \in S
    BY <1>1, <1>3
  <2>2. x \in Seq(S)
    BY <2>1, <1>2, SMTT(20)
  <2>3. Len(x) = n
    BY <1>2, <1>3, SMTT(20)
  <2>4. \A i \in 1..n : x[i] = a[m + i]
    BY <1>2, <1>3, <1>4, SMTT(20)
  <2> QED
    BY <2>2, <2>3, <2>4
<1>6. f \in Seq(S) /\ Len(f) = n /\ \A i \in 1..n : f[i] = a[m + i]
  BY <1>1, <1>4
<1>7. \A i \in 1..Len(x) : x[i] = f[i]
  BY <1>5, <1>6
<1> QED
  BY <1>2, <1>5, <1>6, <1>7, SeqEqual

\* An episode that is kept is found whole once its record is on the disk.
LEMMA KeptIsWhole ==
  ASSUME RecorderT, FilesT, CountInv, SavedKept, meta.buffer = <<>>, NEW e \in 1..info.episodes
  PROVE  Whole(e)
<1>1. PICK all \in Seq(RecordT), done \in Seq(TakeT) : all = Records(meta.files) /\ done = saved
  BY FilesFacts, ToldIs, DiskTypes
<1>2. PICK rows \in Seq(RowT) : rows = Records(data.files)
  BY DiskTypes
<1>3. Told(meta) = all
  BY <1>1, FilesFacts, ToldIs
<1>4. AllKept(all, done, rows, videos, dropped) /\ e \in 1..Len(done)
  BY <1>1, <1>2, <1>3 DEF SavedKept, CountInv
<1>5. e \in 1..Len(all)
  <2>1. Len(done) \in Nat /\ Len(all) \in Nat /\ Len(done) <= Len(all)
    BY <1>4 DEF AllKept
  <2> QED
    BY <2>1, <1>4
<1>6. PICK r \in RecordT, s \in TakeT : r = all[e] /\ s = done[e]
  BY <1>4, <1>5
<1>7. Kept(r, e - 1, s, rows, videos, dropped)
  BY <1>4, <1>6 DEF AllKept
<1>8. PICK t : t = s.take
  OBVIOUS
<1>9. PICK n \in Nat, b \in Nat, c \in Nat : n = s.size /\ b = r.from /\ c = r.start
  <2>1. s.size \in Nat /\ r.from \in Nat /\ r.start \in Nat
    BY WriterAssumption DEF TakeT, RecordT
  <2> QED
    BY <2>1
<1>10. /\ r.episode = e - 1 /\ r.to = b + n /\ r.to - b = n
       /\ HasRowsAt(rows, b, e - 1, s)
       /\ t \notin dropped => HasFilmAt(videos, r.video, c, s)
  BY <1>7, <1>9, <1>8 DEF Kept
<1>11. TakeFrames(s) = [i \in 1..n |-> <<t, i>>]
  BY <1>9, <1>8 DEF TakeFrames
<1>12. RowsThere(r)
  BY <1>2, <1>9, <1>10 DEF RowsThere, HasRowsAt
<1>13. RowsRead(r) = [i \in 1..s.size |->
                       [episode |-> e - 1, frame |-> TakeFrames(s)[i], index |-> r.from + i - 1]]
  <2>1. PICK f : f = [i \in 1..n |-> rows[b + i]]
    OBVIOUS
  <2>2. b + n <= Len(rows) /\ \A i \in 1..n : rows[b + i] = [episode |-> e - 1, frame |-> <<t, i>>, index |-> b + i - 1]
    BY <1>9, <1>10, <1>8 DEF HasRowsAt
  <2>3. SubSeq(rows, b + 1, b + n) = f
    BY <2>1, <2>2, StretchIs
  <2>4. f = [i \in 1..n |-> [episode |-> e - 1, frame |-> TakeFrames(s)[i], index |-> b + i - 1]]
    BY <2>1, <2>2, <1>11
  <2>5. RowsRead(r) = SubSeq(rows, b + 1, b + n)
    BY <1>2, <1>9, <1>10 DEF RowsRead
  <2> QED
    BY <2>3, <2>4, <2>5, <1>9
<1>14. ASSUME s.take \notin dropped
       PROVE  FilmThere(r) /\ FilmRead(r) = TakeFrames(s)
  <2>1. /\ r.video \in 1..Len(videos) /\ c + n <= Len(videos[r.video])
        /\ \A i \in 1..n : videos[r.video][c + i] = <<t, i>>
    BY <1>9, <1>10, <1>14, <1>8 DEF HasFilmAt
  <2>2. PICK film \in Seq(Frame) : film = videos[r.video]
    BY <2>1, DiskTypes
  <2>3. PICK f : f = [i \in 1..n |-> film[c + i]]
    OBVIOUS
  <2>4. SubSeq(film, c + 1, c + n) = f
    BY <2>1, <2>2, <2>3, StretchIs
  <2>5. f = TakeFrames(s)
    BY <2>1, <2>2, <2>3, <1>11
  <2>6. FilmRead(r) = SubSeq(film, c + 1, c + n)
    BY <2>2, <1>9, <1>10 DEF FilmRead
  <2>7. DOMAIN videos = 1..Len(videos)
    BY FilesFacts
  <2>8. FilmThere(r)
    BY <2>1, <2>7, <1>9, <1>10 DEF FilmThere
  <2> QED
    BY <2>4, <2>5, <2>6, <2>8
<1>15. e <= Len(all)
  BY <1>5
<1> QED
  BY <1>1, <1>6, <1>10, <1>12, <1>13, <1>14, <1>15 DEF Whole

(* After any number of sessions that ended by finalize, the last one possibly with an exception in the
   middle of save_episode, every episode info.json counts is read back as it was recorded: its record
   in the metadata, all its rows in their place in data/, and for every row, unless a frame of the take
   was dropped or a copy over its video failed, the picture taken with it at its place in the video.
   Left out is the exception within the writing of info.json, which spoils that file. *)
THEOREM EpisodesStayWhole == Spec => []EpisodesWhole
<1>1. WriterInv /\ EpisodesInv => EpisodesWhole
  <2> SUFFICES ASSUME WriterInv, EpisodesInv, pc = "ended", hurt \in {0, session} PROVE Readable
    BY DEF EpisodesWhole
  <2>1. RecorderT /\ FilesT /\ CountInv /\ DiskClosed /\ SavedKept
    BY DEF WriterInv, EpisodesInv, Sound
  <2>2. data.open = 0 /\ meta.open = 0 /\ meta.buffer = <<>>
    BY DEF WriterInv, MetaInv, DataInv, Alive
  <2>3. Closed(data.files) /\ Closed(meta.files)
    <3>1. \A k \in 1..Len(data.files) : k # 0
      OBVIOUS
    <3>2. \A k \in 1..Len(meta.files) : k # 0
      OBVIOUS
    <3>3. DOMAIN data.files = 1..Len(data.files) /\ DOMAIN meta.files = 1..Len(meta.files)
      BY <2>1, FilesFacts
    <3> QED
      BY <2>1, <2>2, <3>1, <3>2, <3>3 DEF DiskClosed, MetaClosed, Closed
  <2>4. \A e \in 1..info.episodes : Whole(e)
    BY <2>1, <2>2, KeptIsWhole
  <2> QED
    BY <2>3, <2>4 DEF Readable
<1> QED
  BY <1>1, WriterInvHolds, EpisodesInvHolds, PTL

=============================================================================
