---------------------------- MODULE PlcUpload_proofs ---------------------------
(***************************************************************************)
(* Proofs about PlcUpload, for every set of programs, number of chunks and *)
(* of open files, and every set of faults: as long as the table has room   *)
(* for all the files sent since boot, the program file holds the chunks of *)
(* one program, each in its place, or is not there, but for the chunks     *)
(* that an unchecked fflush or fclose loses; a success means that this was *)
(* put in place; and no FILE is used after it was closed.                  *)
(***************************************************************************)
EXTENDS PlcUpload, FiniteSetTheorems, SequenceTheorems, TLAPS

-----------------------------------------------------------------------------
(* The inductive invariant.                                                *)

\* num_uploads is never reset: a transfer takes up to two entries.
Room == 2 * MaxTransfers <= MAX_FILE_UPLOADS

\* c is the first k chunks of file f, but those a flush lost.
PartOf(c, f, k) ==
    /\ c \in [1 .. k -> Chunk]
    /\ \A j \in 1 .. k : c[j] = MD5(f, j) \/ ("flush" \in Faults /\ c[j] = Missing)

Entry(i) == file_uploads[i]
Two == Head(transfer) = Extra
First == files = transfer

\* The client is where it can be in its transfer,
ClientInv ==
    /\ at \in {"idle", "unlink_bin", "rename_bin", "rename_extra", "unlink_md5", "write_md5"}
    /\ step \in {"rest", "purge", "seed", "append", "newplc"}
    /\ sent \in 0 .. Chunks /\ transfers \in 0 .. MaxTransfers
    /\ transfer \in {<<>>} \cup Transfers
    /\ result \in {"none", "refused", "failed", "success"}
    /\ step # "rest" => transfer \in Transfers /\ files \in {transfer, <<Object>>}
    /\ step = "purge" => First
    /\ step = "append" => sent < Chunks
    /\ step = "newplc" => sent = Chunks /\ files = <<Object>>
    /\ at # "idle" => step = "newplc"
    /\ at = "rename_extra" => Two

\* the table has its entries, and room for those the transfer still needs,
TableInv ==
    /\ file_uploads \in [1 .. MAX_FILE_UPLOADS ->
          [filename : {NULL} \cup Tmp, blobID : {Missing} \cup IDs, file_pointer : {NULL} \cup Tmp]]
    /\ num_uploads \in 0 .. MAX_FILE_UPLOADS
    /\ complete_ctx \in {Missing} \cup IDs

Left ==
    IF step \in {"purge", "seed"} /\ First THEN 2
    ELSE IF step = "seed" \/ (step = "append" /\ First) THEN 1 ELSE 0

RoomInv == num_uploads + Left <= 2 * transfers

\* and so have the names and the open files,
Used == (DOMAIN tmp \cup open \cup {file_uploads[i].filename : i \in DOMAIN file_uploads}) \ {NULL}

NamesInv ==
    /\ open \subseteq Tmp /\ DOMAIN tmp \subseteq Tmp
    /\ Cardinality(open) <= MaxOpen /\ (at # "idle" => Cardinality(open) < MaxOpen)
    /\ Cardinality(Used) + Left + (IF step = "rest" THEN 0 ELSE 1) <= 3 * transfers

\* and the files on disk are made of chunks.
DiskInv ==
    /\ \A n \in DOMAIN tmp : tmp[n] \in Seq(Chunk)
    /\ BinIsProgram
    /\ extra_file = Missing \/ Stored(extra_file, Extra)
    /\ plc_md5 \in {Missing, "partial", "lost"} \cup Programs

\* Entry i is that of file f with k chunks, which are in its temporary file.
Sends(i, f, k) ==
    /\ i \in 1 .. MAX_FILE_UPLOADS
    /\ Entry(i).blobID = MD5(f, k) /\ Entry(i).filename # NULL
InTmp(i, f, k) == Entry(i).filename \in DOMAIN tmp /\ PartOf(tmp[Entry(i).filename], f, k)
Opened(i) == Entry(i).file_pointer = Entry(i).filename /\ Entry(i).filename \in open
EmptyBut(I) == \A i \in (1 .. MAX_FILE_UPLOADS) \ I : Entry(i) = Empty

\* The extra file was sent before the program.
ExtraSent(i) ==
    Sends(i, Extra, Chunks) /\ Entry(i).filename # Entry(i + 1).filename

\* The entries of a transfer are the last of the table, all others are empty.
EntriesInv ==
    /\ step = "seed" =>
          \/ First /\ EmptyBut({})
          \/ /\ ~First /\ EmptyBut({num_uploads})
             /\ Sends(num_uploads, Extra, Chunks) /\ InTmp(num_uploads, Extra, Chunks) /\ Opened(num_uploads)
    /\ step \in {"append", "newplc"} =>
          /\ Sends(num_uploads, Head(files), sent)
          /\ First => EmptyBut({num_uploads})
          /\ ~First => EmptyBut({num_uploads - 1, num_uploads}) /\ ExtraSent(num_uploads - 1)
          /\ ~First /\ at \in {"idle", "unlink_bin", "rename_bin", "rename_extra"} =>
                InTmp(num_uploads - 1, Extra, Chunks)
          /\ at \in {"idle", "unlink_bin", "rename_bin"} =>
                \/ InTmp(num_uploads, Head(files), sent) /\ (at = "idle" => Opened(num_uploads))
                \/ /\ step = "append" /\ sent = 0
                   /\ Entry(num_uploads).file_pointer = NULL /\ Cardinality(open) = MaxOpen

\* What is in place when.
SumIsObject == plc_md5 = Object \/ ("flush" \in Faults /\ plc_md5 = "lost")

PlaceInv ==
    "rename_bin" \notin Faults =>
        /\ at \in {"rename_extra", "unlink_md5", "write_md5"} => Stored(plc_bin, Object)
        /\ at \in {"unlink_md5", "write_md5"} /\ Two => Stored(extra_file, Extra)
        /\ result = "success" =>
              /\ step = "rest" /\ at = "idle"
              /\ Stored(plc_bin, Object) /\ SumIsObject
              /\ Two => Stored(extra_file, Extra)

UploadInv ==
    ClientInv /\ TableInv /\ RoomInv /\ NamesInv /\ DiskInv /\ EntriesInv /\ PlaceInv /\ misused = FALSE

-----------------------------------------------------------------------------
(* Transfers, sums, the table and the names.                               *)

\* A transfer is a program, or the extra file and a program.
LEMMA TransferShape ==
    ASSUME transfer \in Transfers
    PROVE  /\ Object \in Programs /\ Object # Extra /\ Head(<<Object>>) = Object
           /\ Head(transfer) \in Programs \cup {Extra}
           /\ Len(<<Object>>) = 1 /\ (Len(transfer) > 1 <=> Two)
           /\ ~Two => transfer = <<Object>>
           /\ Two => Tail(transfer) = <<Object>> /\ transfer # <<Object>>
<1>1. CASE \E p \in Programs : transfer = <<p>>
  <2>1. PICK p \in Programs : transfer = <<p>>
    BY <1>1
  <2>2. Len(transfer) = 1 /\ Object = p /\ Head(transfer) = p
    BY <2>1 DEF Object
  <2> QED
    BY <2>1, <2>2, UploadConstants DEF Two
<1>2. CASE \E p \in Programs : transfer = <<Extra, p>>
  <2>1. PICK p \in Programs : transfer = <<Extra, p>>
    BY <1>2
  <2>2. Len(transfer) = 2 /\ Object = p /\ Head(transfer) = Extra /\ Tail(transfer) = <<p>>
    BY <2>1 DEF Object
  <2>3. transfer # <<p>> /\ Len(<<p>>) = 1
    BY <2>1
  <2> QED
    BY <2>1, <2>2, <2>3, UploadConstants DEF Two
<1> QED
  BY <1>1, <1>2 DEF Transfers

\* Different files and different chunks have different sums.
LEMMA Sums ==
    /\ \A f, g, k, j : MD5(f, k) = MD5(g, j) <=> f = g /\ k = j
    /\ \A f \in Programs \cup {Extra}, k \in 0 .. Chunks : MD5(f, k) \in IDs /\ MD5(f, k) # Missing
BY UploadConstants DEF MD5, IDs

\* The chunks of a file, one after the other,
LEMMA PartAppended ==
    ASSUME NEW f \in Programs \cup {Extra}, NEW k \in 0 .. Chunks, k < Chunks, NEW c, PartOf(c, f, k)
    PROVE  PartOf(Append(c, MD5(f, k + 1)), f, k + 1)
<1>1. k \in Nat /\ k + 1 \in 0 .. Chunks
  BY UploadConstants
<1>2. MD5(f, k + 1) \in Chunk
  BY <1>1, Sums DEF Chunk
<1>3. c \in Seq(Chunk) /\ DOMAIN c = 1 .. k
  BY <1>1, SeqDef DEF PartOf
<1>4. Len(c) = k
  BY <1>1, <1>3, LenProperties
<1>5. Append(c, MD5(f, k + 1)) = [j \in 1 .. (k + 1) |-> IF j = k + 1 THEN MD5(f, k + 1) ELSE c[j]]
  BY <1>2, <1>3, <1>4
<1>6. \A j \in 1 .. (k + 1) : j = k + 1 \/ (j \in 1 .. k /\ c[j] \in Chunk)
  BY <1>1 DEF PartOf
<1> QED
  BY <1>1, <1>2, <1>5, <1>6 DEF PartOf

\* those that come through,
LEMMA PartKept ==
    ASSUME NEW f, NEW k, NEW c, PartOf(c, f, k), NEW d \in Kept(c)
    PROVE  PartOf(d, f, k)
<1>1. PICK lost \in SUBSET (IF "flush" \in Faults THEN DOMAIN c ELSE {}) :
          d = [j \in DOMAIN c |-> IF j \in lost THEN Missing ELSE c[j]]
  BY DEF Kept
<1>2. DOMAIN c = 1 .. k /\ Missing \in Chunk
  BY DEF PartOf, Chunk
<1> QED
  BY <1>1, <1>2 DEF PartOf

\* and what any file is made of.
LEMMA ChunksKept ==
    ASSUME NEW c \in Seq(Chunk), NEW d \in Kept(c)
    PROVE  d \in Seq(Chunk)
<1>1. PICK lost : d = [j \in DOMAIN c |-> IF j \in lost THEN Missing ELSE c[j]]
  BY DEF Kept
<1>2. DOMAIN c = 1 .. Len(c) /\ Len(c) \in Nat /\ c \in [1 .. Len(c) -> Chunk]
  BY LenProperties
<1>3. d \in [1 .. Len(c) -> Chunk]
  BY <1>1, <1>2 DEF Chunk
<1> QED
  BY <1>2, <1>3, SeqDef

\* A file that was sent to its end is stored.
LEMMA PartStored ==
    \A c, f : /\ PartOf(c, f, Chunks) <=> Stored(c, f)
              /\ Stored(c, f) => c \in Seq(Chunk)
<1>1. \A c, f : PartOf(c, f, Chunks) <=> Stored(c, f)
  BY DEF PartOf, Stored
<1>2. ASSUME NEW c, NEW f, Stored(c, f)
      PROVE  c \in Seq(Chunk)
  <2>1. Chunks \in Nat /\ c \in [1 .. Chunks -> Chunk]
    BY <1>2, UploadConstants DEF Stored
  <2> QED
    BY <2>1, SeqDef
<1> QED
  BY <1>1, <1>2

\* Closing a file keeps every file, but for what it loses of that one.
LEMMA DiskKept ==
    ASSUME NEW fp, NEW t \in OnDisk(fp)
    PROVE  /\ DOMAIN t = DOMAIN tmp
           /\ \A x \in DOMAIN tmp :
                 /\ \A f, k : PartOf(tmp[x], f, k) => PartOf(t[x], f, k)
                 /\ tmp[x] \in Seq(Chunk) => t[x] \in Seq(Chunk)
<1>1. DOMAIN t = DOMAIN tmp /\ \A x \in DOMAIN tmp : t[x] = tmp[x] \/ t[x] \in Kept(tmp[x])
  BY DEF OnDisk
<1> QED
  BY <1>1, PartKept, ChunksKept

\* The only entry with blob b is the one that is found.
LEMMA Found ==
    ASSUME num_uploads \in Nat, NEW t, NEW b, NEW m \in 1 .. num_uploads, t[m].blobID = b,
           \A i \in (1 .. num_uploads) \ {m} : t[i].blobID # b
    PROVE  FilePointer(t, b) = t[m].file_pointer /\ FileName(t, b) = t[m].filename
<1>1. Match(t, b) = {m}
  BY DEF Match
<1> QED
  BY <1>1 DEF FilePointer, FileName

\* The names are finitely many,
LEMMA NamesFinite ==
    ASSUME TableInv, open \subseteq Tmp, DOMAIN tmp \subseteq Tmp
    PROVE  IsFiniteSet(Tmp) /\ Cardinality(Tmp) = 3 * MaxTransfers /\ Used \subseteq Tmp
           /\ IsFiniteSet(Used) /\ Cardinality(Used) \in Nat /\ IsFiniteSet(open) /\ Cardinality(open) \in Nat
<1>1. 3 * MaxTransfers \in Nat /\ 1 \in Int
  BY UploadConstants
<1>2. IsFiniteSet(Tmp) /\ Cardinality(Tmp) = 3 * MaxTransfers
  BY <1>1, FS_Interval DEF Tmp
<1>3. Used \subseteq Tmp
  BY DEF Used, TableInv
<1> QED
  BY <1>2, <1>3, FS_Subset, FS_CardinalityType

\* so there is a fresh one while the transfers begun have not used theirs.
LEMMA FreshName ==
    ASSUME ClientInv, TableInv, NamesInv, Left \in 0 .. 2, step # "rest"
    PROVE  Fresh \in Tmp /\ Fresh # NULL /\ Fresh \notin Used
<1>1. IsFiniteSet(Tmp) /\ Cardinality(Tmp) = 3 * MaxTransfers /\ Used \subseteq Tmp /\ Cardinality(Used) \in Nat
  BY NamesFinite DEF NamesInv
<1>2. Cardinality(Used) < 3 * MaxTransfers
  BY <1>1, UploadConstants DEF NamesInv, ClientInv
<1>3. Used # Tmp
  BY <1>1, <1>2
<1>4. PICK n \in Tmp : n \notin Used
  BY <1>1, <1>3
<1>5. NULL \notin Tmp
  BY DEF NULL, Tmp
<1>6. Fresh \in Tmp /\ Fresh \notin DOMAIN tmp \cup open \cup {file_uploads[i].filename : i \in DOMAIN file_uploads}
  <2>1. n \notin DOMAIN tmp \cup open \cup {file_uploads[i].filename : i \in DOMAIN file_uploads}
    BY <1>4, <1>5 DEF Used
  <2> QED
    BY <2>1 DEF Fresh
<1> QED
  BY <1>5, <1>6 DEF Used

\* A step uses at most the names there were, and one more.
LEMMA NamesUsed ==
    ASSUME NEW A, NEW B, IsFiniteSet(A), NEW x, B \subseteq A \cup {x}
    PROVE  Cardinality(B) <= Cardinality(A) + 1 /\ Cardinality(B) \in Nat /\ Cardinality(A) \in Nat
<1>1. IsFiniteSet(A \cup {x}) /\ Cardinality(A \cup {x}) <= Cardinality(A) + 1
      /\ Cardinality(A \cup {x}) \in Nat /\ Cardinality(A) \in Nat
  BY FS_AddElement, FS_CardinalityType
<1>2. IsFiniteSet(B) /\ Cardinality(B) <= Cardinality(A \cup {x}) /\ Cardinality(B) \in Nat
  BY <1>1, FS_Subset, FS_CardinalityType
<1> QED
  BY <1>1, <1>2

\* Where the transfer is.
LEMMA LeftIsSmall == Left \in 0 .. 2
BY DEF Left

-----------------------------------------------------------------------------
(* Every step keeps the invariant.                                         *)

\* A transfer begins.
LEMMA BeginKeeps ==
    ASSUME UploadInv, Begin
    PROVE  UploadInv'
<1> USE DEF UploadInv
<1>1. /\ step = "rest" /\ at = "idle" /\ transfers < MaxTransfers /\ transfers' = transfers + 1
      /\ step' = "purge" /\ at' = "idle" /\ sent' = 0 /\ result' = "none"
      /\ files' \in Transfers /\ transfer' = files'
  BY DEF Begin
<1>2. UNCHANGED <<file_uploads, num_uploads, complete_ctx, open, misused, tmp, plc_bin, extra_file, plc_md5>>
  BY DEF Begin, ram, disk
<1>3. transfers \in Nat /\ transfers' \in 0 .. MaxTransfers /\ sent' \in 0 .. Chunks
  BY <1>1, UploadConstants DEF ClientInv
<1>4. ClientInv'
  BY <1>1, <1>3 DEF ClientInv, First
<1>5. Left = 0 /\ Left' = 2
  BY <1>1 DEF Left, First
<1>6. RoomInv'
  BY <1>1, <1>2, <1>3, <1>5 DEF RoomInv, TableInv
<1>7. NamesInv'
  <2>1. Used' = Used
    BY <1>2 DEF Used
  <2>2. Cardinality(Used) \in Nat
    BY NamesFinite DEF NamesInv
  <2> QED
    BY <1>1, <1>2, <1>3, <1>5, <2>1, <2>2 DEF NamesInv
<1> QED
  BY <1>1, <1>2, <1>4, <1>6, <1>7 DEF TableInv, DiskInv, BinIsProgram, EntriesInv, PlaceInv

\* PurgeBlobs empties the table, and keeps its count.
LEMMA PurgeKeeps ==
    ASSUME UploadInv, PurgeBlobs
    PROVE  UploadInv'
<1> USE DEF UploadInv
<1>1. /\ step = "purge" /\ at = "idle" /\ step' = "seed"
      /\ file_uploads' = [i \in 1 .. MAX_FILE_UPLOADS |-> Empty]
      /\ UNCHANGED <<num_uploads, complete_ctx, open, misused, plc_bin, extra_file, plc_md5,
                     at, files, sent, transfer, transfers, result>>
  BY DEF PurgeBlobs
<1>2. PICK kept \in SUBSET (open \cap DOMAIN tmp) : tmp' = [n \in kept |-> tmp[n]]
  BY DEF PurgeBlobs
<1>3. First /\ First' /\ transfer \in Transfers
  BY <1>1 DEF ClientInv, First
<1>4. ClientInv'
  BY <1>1, <1>3 DEF ClientInv, First, Object, Two
<1>5. Left = 2 /\ Left' = 2
  BY <1>1, <1>3 DEF Left
<1>6. TableInv'
  BY <1>1 DEF TableInv, Empty
<1>7. RoomInv'
  BY <1>1, <1>5 DEF RoomInv
<1>8. NamesInv'
  <2>1. DOMAIN tmp' \subseteq DOMAIN tmp
    BY <1>2
  <2>2. \A i \in DOMAIN file_uploads' : file_uploads'[i].filename = NULL
    BY <1>1 DEF Empty
  <2>3. Used' \subseteq Used
    BY <1>1, <2>1, <2>2 DEF Used
  <2>4. Cardinality(Used') <= Cardinality(Used) /\ Cardinality(Used') \in Nat /\ Cardinality(Used) \in Nat
    BY <2>3, NamesFinite, FS_Subset, FS_CardinalityType DEF NamesInv
  <2> QED
    BY <1>1, <1>5, <2>1, <2>4, UploadConstants DEF NamesInv, ClientInv
<1>9. DiskInv'
  BY <1>1, <1>2 DEF DiskInv, BinIsProgram
<1>10. EntriesInv'
  BY <1>1, <1>3 DEF EntriesInv, EmptyBut, Entry
<1> QED
  BY <1>1, <1>4, <1>6, <1>7, <1>8, <1>9, <1>10 DEF PlaceInv, ClientInv, Object, Two

\* SeedBlob adds an entry, and closes the file before it.
LEMMA SeedKeeps ==
    ASSUME UploadInv, Room, SeedBlob
    PROVE  UploadInv'
<1> USE DEF UploadInv
<1>0. PICK n : n = num_uploads
  OBVIOUS
<1> USE <1>0
<1> DEFINE b == MD5(Head(files), 0)
           last == IF LastFilePointer = NULL THEN NULL ELSE FilePointer(file_uploads, file_uploads[num_uploads].blobID)
           opens == Cardinality(Closed(last)) < MaxOpen
<1>1. /\ step = "seed" /\ at = "idle" /\ step' = "append" /\ sent' = 0
      /\ UNCHANGED <<plc_bin, extra_file, plc_md5, at, files, transfer, transfers, result>>
  BY DEF SeedBlob
<1>2. /\ complete_ctx' = b
      /\ misused' = ClosedTwice(last)
      /\ open' = Closed(last) \cup (IF opens THEN {Fresh} ELSE {})
      /\ \E t \in OnDisk(last) :
            tmp' = IF opens THEN [x \in DOMAIN t \cup {Fresh} |-> IF x = Fresh THEN <<>> ELSE t[x]] ELSE t
      /\ file_uploads' = Added(file_uploads, n, Fresh, b, IF opens THEN Fresh ELSE NULL)
      /\ num_uploads' = IF n < MAX_FILE_UPLOADS THEN n + 1 ELSE n
  BY DEF SeedBlob
<1>3. /\ transfer \in Transfers /\ files \in {transfer, <<Object>>}
      /\ Head(files) \in Programs \cup {Extra}
      /\ ~First => Two /\ files = <<Object>> /\ Head(files) = Object
  BY <1>1, TransferShape DEF ClientInv, First
<1>4. b \in IDs /\ n \in Nat
  BY <1>3, Sums, UploadConstants DEF TableInv
<1>5. Fresh \in Tmp /\ Fresh # NULL /\ Fresh \notin Used
  BY <1>1, FreshName, LeftIsSmall
<1>6. /\ Left = (IF First THEN 2 ELSE 1) /\ Left' = Left - 1
  BY <1>1 DEF Left, First
<1>7. n + 1 \in 1 .. MAX_FILE_UPLOADS /\ n < MAX_FILE_UPLOADS
  BY <1>4, <1>6, UploadConstants DEF RoomInv, Room, ClientInv
<1>8. /\ num_uploads' = n + 1
      /\ file_uploads' = [file_uploads EXCEPT ![n + 1] =
                            [filename |-> Fresh, blobID |-> b, file_pointer |-> IF opens THEN Fresh ELSE NULL]]
  BY <1>2, <1>7 DEF Added
<1>9. /\ file_uploads'[n + 1] = [filename |-> Fresh, blobID |-> b, file_pointer |-> IF opens THEN Fresh ELSE NULL]
      /\ \A i \in (1 .. MAX_FILE_UPLOADS) \ {n + 1} : file_uploads'[i] = file_uploads[i]
      /\ DOMAIN file_uploads = 1 .. MAX_FILE_UPLOADS /\ DOMAIN file_uploads' = 1 .. MAX_FILE_UPLOADS
  BY <1>7, <1>8 DEF TableInv
<1>10. last = NULL \/ last \in open
  <2>1. CASE First
    <3>1. \A i \in 1 .. MAX_FILE_UPLOADS : file_uploads[i].file_pointer = NULL
      BY <1>1, <1>3, <2>1 DEF EntriesInv, EmptyBut, Entry, Empty
    <3>2. n > 0 => n \in 1 .. MAX_FILE_UPLOADS
      BY <1>4, <1>7, UploadConstants
    <3>3. LastFilePointer = NULL
      BY <3>1, <3>2 DEF LastFilePointer
    <3> QED
      BY <3>3
  <2>2. CASE ~First
    <3>1. /\ n \in 1 .. MAX_FILE_UPLOADS /\ file_uploads[n].blobID = MD5(Extra, Chunks)
          /\ file_uploads[n].file_pointer \in open
          /\ \A i \in (1 .. MAX_FILE_UPLOADS) \ {n} : file_uploads[i].blobID = Missing
      BY <1>1, <2>2 DEF EntriesInv, EmptyBut, Entry, Empty, Sends, Opened
    <3>2. MD5(Extra, Chunks) # Missing
      BY Sums, UploadConstants
    <3>3. FilePointer(file_uploads, file_uploads[n].blobID) = file_uploads[n].file_pointer
      <4>1. n \in 1 .. num_uploads /\ \A i \in (1 .. num_uploads) \ {n} : file_uploads[i].blobID # MD5(Extra, Chunks)
        BY <1>4, <1>7, <3>1, <3>2, UploadConstants
      <4> QED
        BY <1>4, <3>1, <4>1, Found
    <3> QED
      BY <3>1, <3>3
  <2> QED
    BY <2>1, <2>2
<1>11. misused' = FALSE
  BY <1>2, <1>10 DEF ClosedTwice
<1>12. ClientInv'
  BY <1>1, <1>3, UploadConstants DEF ClientInv, First, Object, Two
<1>13. TableInv'
  <2>1. file_uploads'[n + 1] \in [filename : {NULL} \cup Tmp, blobID : {Missing} \cup IDs, file_pointer : {NULL} \cup Tmp]
    BY <1>4, <1>5, <1>9
  <2>2. file_uploads' \in [1 .. MAX_FILE_UPLOADS ->
            [filename : {NULL} \cup Tmp, blobID : {Missing} \cup IDs, file_pointer : {NULL} \cup Tmp]]
    BY <1>7, <1>8, <1>9, <2>1 DEF TableInv
  <2>3. num_uploads' \in 0 .. MAX_FILE_UPLOADS
    BY <1>4, <1>7, <1>8
  <2> QED
    BY <1>2, <1>4, <2>2, <2>3 DEF TableInv
<1>14. RoomInv'
  BY <1>1, <1>4, <1>6, <1>8, UploadConstants DEF RoomInv, ClientInv
<1>15. /\ DOMAIN tmp' \subseteq DOMAIN tmp \cup {Fresh} /\ open' \subseteq open \cup {Fresh}
       /\ \A x \in DOMAIN tmp : x # Fresh =>
             x \in DOMAIN tmp' /\ \A g, j : PartOf(tmp[x], g, j) => PartOf(tmp'[x], g, j)
       /\ opens => Fresh \in DOMAIN tmp' /\ tmp'[Fresh] = <<>> /\ Fresh \in open'
       /\ \A x \in DOMAIN tmp' : tmp'[x] = <<>> \/ (x \in DOMAIN tmp /\ (tmp[x] \in Seq(Chunk) => tmp'[x] \in Seq(Chunk)))
  <2>1. PICK t \in OnDisk(last) :
            tmp' = IF opens THEN [x \in DOMAIN t \cup {Fresh} |-> IF x = Fresh THEN <<>> ELSE t[x]] ELSE t
    BY <1>2
  <2>2. PICK l : l = last
    OBVIOUS
  <2>3. t \in OnDisk(l)
    BY <2>1, <2>2
  <2>4. /\ DOMAIN t = DOMAIN tmp
        /\ \A x \in DOMAIN tmp :
              /\ \A g, j : PartOf(tmp[x], g, j) => PartOf(t[x], g, j)
              /\ tmp[x] \in Seq(Chunk) => t[x] \in Seq(Chunk)
    BY ONLY <2>3, DiskKept
  <2>5. PICK o \in BOOLEAN : o <=> opens
    OBVIOUS
  <2>6. tmp' = IF o THEN [x \in DOMAIN t \cup {Fresh} |-> IF x = Fresh THEN <<>> ELSE t[x]] ELSE t
    BY <2>1, <2>5
  <2>7. open' \subseteq open \cup {Fresh} /\ (opens => Fresh \in open')
    BY <1>2 DEF Closed
  <2>8. /\ DOMAIN tmp' \subseteq DOMAIN tmp \cup {Fresh}
        /\ \A x \in DOMAIN tmp : x # Fresh => x \in DOMAIN tmp' /\ tmp'[x] = t[x]
        /\ o => Fresh \in DOMAIN tmp' /\ tmp'[Fresh] = <<>>
        /\ \A x \in DOMAIN tmp' : tmp'[x] = <<>> \/ (x \in DOMAIN tmp /\ tmp'[x] = t[x])
    BY ONLY <2>4, <2>6
  <2> QED
    BY ONLY <2>4, <2>5, <2>7, <2>8
<1>16. NamesInv'
  <2>1. Used' \subseteq Used \cup {Fresh}
    BY <1>9, <1>15 DEF Used
  <2>2. IsFiniteSet(Used) /\ IsFiniteSet(open) /\ Cardinality(open) \in Nat
    BY NamesFinite DEF NamesInv
  <2>3. Cardinality(Used') <= Cardinality(Used) + 1 /\ Cardinality(Used') \in Nat /\ Cardinality(Used) \in Nat
    BY <2>1, <2>2, NamesUsed
  <2>4. IsFiniteSet(Closed(last)) /\ Cardinality(Closed(last)) <= Cardinality(open) /\ Cardinality(Closed(last)) \in Nat
    BY <2>2, FS_Subset, FS_CardinalityType DEF Closed
  <2>5. Cardinality(open') <= MaxOpen
    <3>1. CASE opens
      <4>1. open' \subseteq Closed(last) \cup {Fresh}
        BY <1>2, <3>1
      <4>2. Cardinality(open') <= Cardinality(Closed(last)) + 1 /\ Cardinality(open') \in Nat
        BY <2>4, <4>1, NamesUsed
      <4> QED
        BY <2>4, <3>1, <4>2, UploadConstants
    <3>2. CASE ~opens
      BY <1>2, <2>2, <2>4, <3>2, UploadConstants DEF NamesInv
    <3> QED
      BY <3>1, <3>2
  <2>6. open' \subseteq Tmp /\ DOMAIN tmp' \subseteq Tmp
    BY <1>5, <1>15 DEF NamesInv
  <2>7. Cardinality(Used') + Left' + 1 <= 3 * transfers'
    BY <1>1, <1>6, <2>3, UploadConstants DEF NamesInv, ClientInv
  <2> QED
    BY <1>1, <2>5, <2>6, <2>7 DEF NamesInv
<1>17. DiskInv'
  <2>1. <<>> \in Seq(Chunk)
    OBVIOUS
  <2> QED
    BY <1>1, <1>15, <2>1 DEF DiskInv, BinIsProgram
<1>18. EntriesInv'
  <2>1. Sends(num_uploads, Head(files), sent)'
    BY <1>1, <1>5, <1>7, <1>8, <1>9 DEF Sends, Entry
  <2>2. First => EmptyBut({num_uploads})'
    BY <1>1, <1>8, <1>9 DEF EntriesInv, EmptyBut, Entry
  <2>3. ASSUME ~First
        PROVE  /\ EmptyBut({num_uploads - 1, num_uploads})' /\ ExtraSent(num_uploads - 1)'
               /\ InTmp(num_uploads - 1, Extra, Chunks)'
    <3>1. /\ EmptyBut({n}) /\ Sends(n, Extra, Chunks) /\ InTmp(n, Extra, Chunks)
          /\ num_uploads' - 1 = n /\ n # n + 1
      BY <1>1, <1>4, <1>8, <2>3 DEF EntriesInv
    <3>2. file_uploads'[n] = file_uploads[n] /\ n \in 1 .. MAX_FILE_UPLOADS
      BY <1>9, <3>1 DEF Sends
    <3>3. file_uploads[n].filename \in Used
      BY <1>9, <3>1, <3>2 DEF Used, Sends, Entry
    <3>4. file_uploads[n].filename # Fresh
      BY <1>5, <3>3
    <3>5. EmptyBut({num_uploads - 1, num_uploads})'
      BY <1>8, <1>9, <3>1 DEF EmptyBut, Entry
    <3>6. Sends(n, Extra, Chunks)' /\ InTmp(n, Extra, Chunks)'
      BY <1>15, <3>1, <3>2, <3>4 DEF Sends, InTmp, Entry
    <3>7. file_uploads'[n].filename # file_uploads'[n + 1].filename
      BY <1>9, <3>2, <3>4
    <3> QED
      BY <3>1, <3>5, <3>6, <3>7 DEF ExtraSent, Entry, Sends, InTmp
  <2>4. \/ InTmp(num_uploads, Head(files), sent)' /\ Opened(num_uploads)'
        \/ sent' = 0 /\ Entry(num_uploads)'.file_pointer = NULL /\ Cardinality(open') = MaxOpen
    <3>1. PartOf(<<>>, Head(files), 0)
      BY DEF PartOf
    <3>2. CASE opens
      BY <1>1, <1>8, <1>9, <1>15, <3>1, <3>2 DEF InTmp, Opened, Entry
    <3>3. CASE ~opens
      <4>1. open' = Closed(last) /\ file_uploads'[n + 1].file_pointer = NULL
        BY <1>2, <1>9, <3>3
      <4>2. Cardinality(open') <= MaxOpen /\ IsFiniteSet(open')
        BY <1>16, <4>1, NamesFinite, FS_Subset DEF NamesInv, Closed
      <4>3. Cardinality(open') = MaxOpen
        BY <3>3, <4>1, <4>2, FS_CardinalityType, UploadConstants
      <4> QED
        BY <1>1, <1>8, <4>1, <4>3 DEF Entry
    <3> QED
      BY <3>2, <3>3
  <2> QED
    BY <1>1, <2>1, <2>2, <2>3, <2>4 DEF EntriesInv, First
<1>19. PlaceInv'
  BY <1>1 DEF PlaceInv, ClientInv
<1> QED
  BY <1>11, <1>12, <1>13, <1>14, <1>16, <1>17, <1>18, <1>19

\* A client that gives up between two calls leaves the invariant about entries behind.
LEMMA RestKeeps ==
    ASSUME UploadInv, step' = "rest", at' = "idle",
           UNCHANGED <<num_uploads, transfer, transfers, sent, plc_bin, extra_file, plc_md5>>,
           result' \in {"none", "refused", "failed"}
    PROVE  ClientInv' /\ RoomInv' /\ EntriesInv' /\ PlaceInv' /\ Left' = 0
<1>1. Left' = 0 /\ Left \in 0 .. 2
  BY DEF Left
<1>2. RoomInv'
  BY <1>1, UploadConstants DEF UploadInv, RoomInv, TableInv, ClientInv
<1> QED
  BY <1>1, <1>2 DEF UploadInv, ClientInv, EntriesInv, PlaceInv

\* AppendChunkToBlob finds the last entry.
LEMMA AppendFinds ==
    ASSUME UploadInv, step = "append", NEW b, b = MD5(Head(files), sent + 1)
    PROVE  /\ transfer \in Transfers /\ Head(files) \in Programs \cup {Extra} /\ sent \in Nat /\ sent + 1 \in 0 .. Chunks
           /\ num_uploads \in 1 .. MAX_FILE_UPLOADS /\ b \in IDs
           /\ Updated(b) = [file_uploads EXCEPT ![num_uploads].blobID = b]
           /\ FilePointer(Updated(b), b) = file_uploads[num_uploads].file_pointer
           /\ file_uploads[num_uploads].file_pointer # NULL =>
                 InTmp(num_uploads, Head(files), sent) /\ Opened(num_uploads)
<1> USE DEF UploadInv
<1>1. /\ transfer \in Transfers /\ Head(files) \in Programs \cup {Extra} /\ sent \in Nat /\ sent + 1 \in 0 .. Chunks
      /\ at = "idle" /\ (~First => Head(files) = Object)
  BY TransferShape, UploadConstants DEF ClientInv, First
<1>2. num_uploads \in 1 .. MAX_FILE_UPLOADS /\ num_uploads \in Nat
  BY UploadConstants DEF EntriesInv, Sends, TableInv
<1>3. b \in IDs /\ b # Missing
  BY <1>1, Sums
<1>4. Updated(b) = [file_uploads EXCEPT ![num_uploads].blobID = b]
  BY <1>2 DEF Updated
<1>5. /\ Updated(b)[num_uploads].blobID = b
      /\ Updated(b)[num_uploads].file_pointer = file_uploads[num_uploads].file_pointer
      /\ \A i \in (1 .. MAX_FILE_UPLOADS) \ {num_uploads} : Updated(b)[i] = file_uploads[i]
  BY <1>2, <1>4 DEF TableInv
<1>6. \A i \in (1 .. num_uploads) \ {num_uploads} : Updated(b)[i].blobID # b
  <2>1. SUFFICES ASSUME NEW i \in (1 .. num_uploads) \ {num_uploads}
                 PROVE  file_uploads[i].blobID # b
    BY <1>2, <1>5, UploadConstants
  <2>2. i \in (1 .. MAX_FILE_UPLOADS) \ {num_uploads}
    BY <1>2, UploadConstants
  <2>3. CASE file_uploads[i] = Empty
    BY <1>3, <2>3 DEF Empty
  <2>4. CASE ~First /\ i = num_uploads - 1
    <3>1. file_uploads[i].blobID = MD5(Extra, Chunks) /\ Head(files) = Object
      BY <1>1, <2>4 DEF EntriesInv, ExtraSent, Sends, Entry
    <3> QED
      BY <1>1, <3>1, TransferShape, Sums
  <2> QED
    BY <2>2, <2>3, <2>4 DEF EntriesInv, EmptyBut, Entry
<1>7. FilePointer(Updated(b), b) = file_uploads[num_uploads].file_pointer
  BY <1>2, <1>5, <1>6, Found
<1> QED
  BY <1>1, <1>2, <1>3, <1>4, <1>7 DEF EntriesInv, Entry

\* AppendChunkToBlob writes a chunk, or fails.
LEMMA AppendKeeps ==
    ASSUME UploadInv, AppendChunkToBlob
    PROVE  UploadInv'
<1> USE DEF UploadInv
<1>0. PICK n, f, k, b : n = num_uploads /\ f = Head(files) /\ k = sent + 1 /\ b = MD5(Head(files), sent + 1)
  OBVIOUS
<1>1. /\ step = "append" /\ at = "idle"
      /\ UNCHANGED <<num_uploads, open, plc_bin, extra_file, plc_md5, at>>
  BY DEF AppendChunkToBlob
<1>2. PICK fp : fp = file_uploads[n].file_pointer
  OBVIOUS
<1>3. /\ transfer \in Transfers /\ f \in Programs \cup {Extra} /\ sent \in Nat /\ sent + 1 \in 0 .. Chunks
      /\ n \in 1 .. MAX_FILE_UPLOADS /\ b \in IDs
      /\ Updated(b) = [file_uploads EXCEPT ![n].blobID = b] /\ FilePointer(Updated(b), b) = fp
      /\ fp # NULL => InTmp(n, f, sent) /\ Opened(n)
  BY <1>0, <1>1, <1>2, AppendFinds
<1>4. fp # NULL => fp \in open /\ fp \in DOMAIN tmp /\ PartOf(tmp[fp], f, sent) /\ file_uploads[n].filename = fp
  BY <1>2, <1>3 DEF InTmp, Opened, Entry
<1>5. /\ complete_ctx' = b /\ file_uploads' = [file_uploads EXCEPT ![n].blobID = b]
      /\ misused' = (misused \/ (fp # NULL /\ fp \notin open))
      /\ \/ (GiveUp("refused") \/ GiveUp("failed")) /\ UNCHANGED tmp
         \/ fp # NULL /\ Sent /\ \E c \in Kept(Append(tmp[fp], b)) : tmp' = [tmp EXCEPT ![fp] = c]
  BY <1>0, <1>3, <1>4 DEF AppendChunkToBlob
<1>6. /\ \A i \in (1 .. MAX_FILE_UPLOADS) \ {n} : file_uploads'[i] = file_uploads[i]
      /\ file_uploads'[n].blobID = b /\ file_uploads'[n].filename = file_uploads[n].filename
      /\ file_uploads'[n].file_pointer = file_uploads[n].file_pointer
      /\ DOMAIN file_uploads' = DOMAIN file_uploads /\ DOMAIN file_uploads = 1 .. MAX_FILE_UPLOADS
  BY <1>3, <1>5 DEF TableInv
<1>7. misused' = FALSE /\ TableInv'
  <2>1. file_uploads' \in [1 .. MAX_FILE_UPLOADS ->
            [filename : {NULL} \cup Tmp, blobID : {Missing} \cup IDs, file_pointer : {NULL} \cup Tmp]]
    BY <1>3, <1>5 DEF TableInv
  <2> QED
    BY <1>1, <1>3, <1>4, <1>5, <2>1 DEF TableInv
<1>8. DOMAIN tmp' = DOMAIN tmp
  BY <1>5 DEF GiveUp
<1>9. Used' = Used /\ Cardinality(Used) \in Nat
  <2>1. \A i \in DOMAIN file_uploads : file_uploads'[i].filename = file_uploads[i].filename
    BY <1>6
  <2>2. Used' = Used
    BY <1>1, <1>6, <1>8, <2>1 DEF Used
  <2> QED
    BY <2>2, NamesFinite DEF NamesInv
<1>10. CASE (GiveUp("refused") \/ GiveUp("failed")) /\ UNCHANGED tmp
  <2>1. /\ step' = "rest" /\ at' = "idle" /\ result' \in {"none", "refused", "failed"}
        /\ UNCHANGED <<sent, transfer, transfers, tmp>>
    BY <1>1, <1>10 DEF GiveUp
  <2>2. ClientInv' /\ RoomInv' /\ EntriesInv' /\ PlaceInv' /\ Left' = 0
    BY <1>1, <2>1, RestKeeps
  <2>3. NamesInv'
    BY <1>1, <1>9, <2>1, <2>2, LeftIsSmall, UploadConstants DEF NamesInv, ClientInv
  <2>4. DiskInv'
    BY <1>1, <2>1 DEF DiskInv, BinIsProgram
  <2> QED
    BY <1>7, <2>2, <2>3, <2>4
<1>11. CASE fp # NULL /\ Sent /\ \E c \in Kept(Append(tmp[fp], b)) : tmp' = [tmp EXCEPT ![fp] = c]
  <2>1. /\ PartOf(tmp'[fp], f, sent + 1) /\ tmp'[fp] \in Seq(Chunk)
        /\ \A x \in DOMAIN tmp \ {fp} : tmp'[x] = tmp[x]
    <3>1. PICK c \in Kept(Append(tmp[fp], b)) : tmp' = [tmp EXCEPT ![fp] = c]
      BY <1>11
    <3>2. tmp'[fp] = c /\ \A x \in DOMAIN tmp \ {fp} : tmp'[x] = tmp[x]
      BY <1>4, <1>11, <3>1
    <3>3. sent \in 0 .. Chunks /\ sent < Chunks
      BY <1>1 DEF ClientInv
    <3>4. PartOf(Append(tmp[fp], b), f, sent + 1)
      BY <1>0, <1>3, <1>4, <1>11, <3>3, PartAppended
    <3>5. Append(tmp[fp], b) \in Seq(Chunk)
      BY <1>3, <1>4, <1>11 DEF DiskInv, Chunk
    <3> QED
      BY <3>1, <3>2, <3>4, <3>5, PartKept, ChunksKept
  <2>2. /\ UNCHANGED <<transfer, transfers, result>>
        /\ \/ sent + 1 < Chunks /\ step' = "append" /\ sent' = sent + 1 /\ files' = files
           \/ /\ sent + 1 = Chunks /\ Two /\ First /\ f = Extra
              /\ step' = "seed" /\ sent' = 0 /\ files' = <<Object>> /\ ~First'
           \/ /\ sent + 1 = Chunks /\ files = <<Object>>
              /\ step' = "newplc" /\ sent' = sent + 1 /\ files' = files
    <3>1. /\ UNCHANGED <<transfer, transfers, result>>
          /\ \/ sent + 1 < Chunks /\ step' = "append" /\ sent' = sent + 1 /\ files' = files
             \/ sent + 1 = Chunks /\ Len(files) > 1 /\ step' = "seed" /\ sent' = 0 /\ files' = Tail(files)
             \/ sent + 1 = Chunks /\ ~(Len(files) > 1) /\ step' = "newplc" /\ sent' = sent + 1 /\ files' = files
      BY <1>3, <1>11, UploadConstants DEF Sent
    <3>2. files \in {transfer, <<Object>>}
      BY <1>1 DEF ClientInv
    <3>3. Len(files) > 1 => First /\ Two
      <4>1. CASE files = transfer
        BY <1>3, <4>1, TransferShape DEF First
      <4>2. CASE files = <<Object>>
        BY <1>3, <4>2, TransferShape
      <4> QED
        BY <3>2, <4>1, <4>2
    <3>4. ~(Len(files) > 1) => files = <<Object>>
      BY <1>3, <3>2, TransferShape
    <3>5. First /\ Two => f = Extra /\ Tail(files) = <<Object>> /\ transfer # <<Object>>
      BY <1>0, <1>3, TransferShape DEF First, Two
    <3> QED
      BY <3>1, <3>3, <3>4, <3>5 DEF First
  <2>3. Object' = Object /\ (Two <=> Two') /\ (step' # "seed" => (First <=> First'))
    BY <2>2 DEF Object, Two, First
  <2>4. ClientInv'
    <3>1. sent' \in 0 .. Chunks
      BY <1>3, <2>2, UploadConstants
    <3> QED
      BY <1>1, <1>3, <2>2, <2>3, <3>1 DEF ClientInv, First
  <2>5. Left' <= Left /\ Left' \in 0 .. 2 /\ Left \in 0 .. 2
    BY <1>1, <2>2, <2>3 DEF Left
  <2>6. RoomInv'
    BY <1>0, <1>1, <1>3, <2>2, <2>5, UploadConstants DEF RoomInv, ClientInv
  <2>7. NamesInv'
    BY <1>1, <1>8, <1>9, <2>2, <2>5, UploadConstants DEF NamesInv, ClientInv
  <2>8. DiskInv'
    BY <1>1, <1>8, <2>1 DEF DiskInv, BinIsProgram
  <2>9. InTmp(n, f, k)' /\ Opened(n)' /\ Entry(n)'.blobID = MD5(f, k) /\ Entry(n)'.filename # NULL
    <3>1. /\ file_uploads'[n].filename = fp /\ file_uploads'[n].file_pointer = fp
          /\ fp \in open' /\ fp \in DOMAIN tmp' /\ file_uploads'[n].blobID = b
      BY <1>1, <1>2, <1>4, <1>6, <1>8, <1>11
    <3> QED
      BY <1>0, <1>11, <2>1, <3>1 DEF InTmp, Opened, Entry
  <2>10. EntriesInv'
    <3>1. /\ n \in 1 .. MAX_FILE_UPLOADS /\ num_uploads' = n /\ num_uploads = n
      BY <1>0, <1>1, <1>3
    <3>2. First => EmptyBut({n})'
      BY <1>1, <1>6, <3>1 DEF EntriesInv, EmptyBut, Entry
    <3>3. CASE step' = "seed"
      <4>1. f = Extra /\ k = Chunks /\ First /\ ~First'
        BY <1>0, <1>3, <2>2, <3>3
      <4> QED
        BY <2>9, <3>1, <3>2, <3>3, <4>1 DEF EntriesInv, Sends
    <3>4. CASE step' # "seed"
      <4>1. step' \in {"append", "newplc"} /\ sent' = k /\ files' = files /\ (First <=> First') /\ at' = "idle"
        BY <1>0, <1>1, <2>2, <2>3, <3>4
      <4>2. Sends(num_uploads, Head(files), sent)' /\ InTmp(num_uploads, Head(files), sent)' /\ Opened(num_uploads)'
        BY <1>0, <2>9, <3>1, <4>1 DEF Sends, InTmp, Opened, Entry
      <4>3. ASSUME ~First
            PROVE  /\ EmptyBut({num_uploads - 1, num_uploads})' /\ ExtraSent(num_uploads - 1)'
                   /\ InTmp(num_uploads - 1, Extra, Chunks)'
        <5>1. /\ EmptyBut({n - 1, n}) /\ ExtraSent(n - 1) /\ InTmp(n - 1, Extra, Chunks)
          BY <1>1, <3>1, <4>3 DEF EntriesInv
        <5>2. n - 1 # n /\ n - 1 + 1 = n /\ n - 1 \in 1 .. MAX_FILE_UPLOADS
          BY <3>1, <5>1 DEF ExtraSent, Sends
        <5>3. /\ file_uploads'[n - 1] = file_uploads[n - 1]
              /\ file_uploads'[n].filename = file_uploads[n].filename
              /\ file_uploads[n - 1].filename # fp
          BY <1>4, <1>6, <1>11, <5>1, <5>2 DEF ExtraSent, Entry
        <5>4. EmptyBut({n - 1, n})'
          BY <1>6, <5>1 DEF EmptyBut, Entry
        <5>5. InTmp(n - 1, Extra, Chunks)'
          BY <1>8, <2>1, <5>1, <5>3 DEF InTmp, Entry
        <5>6. ExtraSent(n - 1)'
          BY <5>1, <5>2, <5>3 DEF ExtraSent, Sends, Entry
        <5> QED
          BY <3>1, <5>4, <5>5, <5>6 DEF EmptyBut, ExtraSent, InTmp, Sends, Entry
      <4> QED
        BY <3>1, <3>2, <4>1, <4>2, <4>3 DEF EntriesInv, EmptyBut
    <3> QED
      BY <3>3, <3>4
  <2>11. PlaceInv'
    BY <1>1, <2>2 DEF PlaceInv
  <2> QED
    BY <1>7, <2>4, <2>6, <2>7, <2>8, <2>10, <2>11
<1> QED
  BY <1>5, <1>10, <1>11

\* Where a call of NewPLC has come to, its entries are those of the transfer.
LEMMA NewFinds ==
    ASSUME UploadInv, step = "newplc"
    PROVE  /\ transfer \in Transfers /\ Object \in Programs /\ files = <<Object>> /\ Head(files) = Object /\ sent = Chunks
           /\ num_uploads \in 1 .. MAX_FILE_UPLOADS /\ file_uploads[num_uploads].blobID = ObjectID
           /\ FilePointer(file_uploads, ObjectID) = file_uploads[num_uploads].file_pointer
           /\ FileName(file_uploads, ObjectID) = file_uploads[num_uploads].filename
           /\ Two => /\ ~First /\ num_uploads - 1 \in 1 .. MAX_FILE_UPLOADS
                     /\ FileName(file_uploads, ExtraID) = file_uploads[num_uploads - 1].filename
                     /\ file_uploads[num_uploads - 1].filename # file_uploads[num_uploads].filename
<1> USE DEF UploadInv
<1>1. /\ transfer \in Transfers /\ Object \in Programs /\ Object # Extra /\ files = <<Object>>
      /\ Head(files) = Object /\ sent = Chunks /\ (Two <=> ~First)
  BY TransferShape DEF ClientInv, First
<1>2. num_uploads \in 1 .. MAX_FILE_UPLOADS /\ num_uploads \in Nat /\ file_uploads[num_uploads].blobID = ObjectID
  BY <1>1, UploadConstants DEF EntriesInv, Sends, TableInv, ObjectID, Entry
<1>3. ObjectID # ExtraID /\ ObjectID # Missing /\ ExtraID # Missing /\ Empty.blobID = Missing
  BY <1>1, Sums, UploadConstants DEF ObjectID, ExtraID, Empty
<1>4. Two => /\ EmptyBut({num_uploads - 1, num_uploads}) /\ ExtraSent(num_uploads - 1)
             /\ num_uploads - 1 \in 1 .. MAX_FILE_UPLOADS
             /\ file_uploads[num_uploads - 1].blobID = ExtraID
             /\ file_uploads[num_uploads - 1].filename # file_uploads[num_uploads].filename
  BY <1>1, <1>2 DEF EntriesInv, ExtraSent, Sends, Entry, ExtraID
<1>5. ~Two => EmptyBut({num_uploads})
  BY <1>1 DEF EntriesInv
<1>6. \A i \in (1 .. num_uploads) \ {num_uploads} : file_uploads[i].blobID # ObjectID
  <2>1. SUFFICES ASSUME NEW i \in (1 .. num_uploads) \ {num_uploads}
                 PROVE  file_uploads[i].blobID # ObjectID
    OBVIOUS
  <2>2. i \in (1 .. MAX_FILE_UPLOADS) \ {num_uploads}
    BY <1>2, UploadConstants
  <2> QED
    BY <1>3, <1>4, <1>5, <2>2 DEF EmptyBut, Entry
<1>7. ASSUME Two
      PROVE  FileName(file_uploads, ExtraID) = file_uploads[num_uploads - 1].filename
  <2>1. num_uploads - 1 \in 1 .. num_uploads /\ file_uploads[num_uploads - 1].blobID = ExtraID
    BY <1>2, <1>4, <1>7
  <2>2. \A i \in (1 .. num_uploads) \ {num_uploads - 1} : file_uploads[i].blobID # ExtraID
    <3>1. SUFFICES ASSUME NEW i \in (1 .. num_uploads) \ {num_uploads - 1}
                   PROVE  file_uploads[i].blobID # ExtraID
      OBVIOUS
    <3>2. i \in (1 .. MAX_FILE_UPLOADS) \ {num_uploads - 1}
      BY <1>2, UploadConstants
    <3> QED
      BY <1>2, <1>3, <1>4, <1>7, <3>2 DEF EmptyBut, Entry
  <2> QED
    BY <1>2, <2>1, <2>2, Found
<1>8. num_uploads \in 1 .. num_uploads
  BY <1>2
<1> QED
  BY <1>1, <1>2, <1>4, <1>6, <1>7, <1>8, Found

\* NewPLC closes the program and compares the sums.
LEMMA NewKeeps ==
    ASSUME UploadInv, NewPLC
    PROVE  UploadInv'
<1> USE DEF UploadInv
<1>0. PICK n, fp : n = num_uploads /\ fp = file_uploads[num_uploads].file_pointer
  OBVIOUS
<1>1. step = "newplc" /\ at = "idle"
  BY DEF NewPLC
<1>2. /\ transfer \in Transfers /\ Object \in Programs /\ files = <<Object>> /\ Head(files) = Object /\ sent = Chunks
      /\ n \in 1 .. MAX_FILE_UPLOADS /\ file_uploads[n].blobID = ObjectID
      /\ FilePointer(file_uploads, ObjectID) = fp
  BY <1>0, <1>1, NewFinds
<1>3. fp \in open /\ Opened(n) /\ InTmp(n, Object, Chunks)
  BY <1>0, <1>1, <1>2 DEF EntriesInv, Opened, Entry
<1>4. Updated(ObjectID) = file_uploads
  <2>1. n > 0
    BY <1>2
  <2>2. [file_uploads EXCEPT ![n].blobID = ObjectID] = file_uploads
    BY <1>2 DEF TableInv
  <2> QED
    BY <1>0, <2>1, <2>2 DEF Updated
<1>5. /\ file_uploads' = file_uploads /\ open' = open \ {fp} /\ misused' = ClosedTwice(fp) /\ complete_ctx' = Missing
      /\ UNCHANGED <<num_uploads, plc_bin, extra_file, plc_md5, files, sent, transfer, transfers>>
      /\ tmp' \in OnDisk(fp)
      /\ \/ at' = "unlink_bin" /\ UNCHANGED <<step, result>>
         \/ at' = "idle" /\ step' = "rest" /\ result' = "failed"
  BY <1>1, <1>2, <1>4 DEF NewPLC, Closed, GiveUp, client
<1>5a. /\ DOMAIN tmp' = DOMAIN tmp
       /\ \A x \in DOMAIN tmp :
             /\ \A g, j : PartOf(tmp[x], g, j) => PartOf(tmp'[x], g, j)
             /\ tmp[x] \in Seq(Chunk) => tmp'[x] \in Seq(Chunk)
  <2>1. PICK t : t = tmp'
    OBVIOUS
  <2>2. t \in OnDisk(fp)
    BY <1>5, <2>1
  <2>3. /\ DOMAIN t = DOMAIN tmp
        /\ \A x \in DOMAIN tmp :
              /\ \A g, j : PartOf(tmp[x], g, j) => PartOf(t[x], g, j)
              /\ tmp[x] \in Seq(Chunk) => t[x] \in Seq(Chunk)
    BY ONLY <2>2, DiskKept
  <2> QED
    BY ONLY <2>1, <2>3
<1>6. misused' = FALSE /\ TableInv' /\ DiskInv'
  BY <1>3, <1>5, <1>5a DEF ClosedTwice, TableInv, DiskInv, BinIsProgram
<1>7. /\ Cardinality(open') < MaxOpen /\ Cardinality(open') <= MaxOpen
      /\ Cardinality(Used') <= Cardinality(Used) /\ Cardinality(Used') \in Nat /\ Cardinality(Used) \in Nat
  <2>1. IsFiniteSet(open) /\ Cardinality(open) \in Nat /\ IsFiniteSet(Used)
    BY NamesFinite DEF NamesInv
  <2>2. Cardinality(open') = Cardinality(open) - 1
    BY <1>3, <1>5, <2>1, FS_RemoveElement
  <2>3. Used' \subseteq Used
    BY <1>5, <1>5a DEF Used
  <2>4. Cardinality(Used') <= Cardinality(Used) /\ Cardinality(Used') \in Nat /\ Cardinality(Used) \in Nat
    BY <2>1, <2>3, FS_Subset, FS_CardinalityType
  <2> QED
    BY <2>1, <2>2, <2>4, UploadConstants DEF NamesInv
<1>8. CASE at' = "unlink_bin" /\ UNCHANGED <<step, result>>
  <2>1. Left' = 0 /\ Left = 0
    BY <1>1, <1>8 DEF Left
  <2>2. ClientInv' /\ RoomInv'
    BY <1>1, <1>5, <1>8, <2>1 DEF ClientInv, RoomInv, First, Two, Object
  <2>3. NamesInv'
    BY <1>1, <1>5, <1>7, <1>8, <1>5a, <2>1, UploadConstants DEF NamesInv, ClientInv
  <2>4. EntriesInv'
    BY <1>0, <1>1, <1>2, <1>3, <1>5, <1>8, <1>5a DEF EntriesInv, EmptyBut, Sends, InTmp, ExtraSent, Entry, First
  <2>5. PlaceInv'
    BY <1>1, <1>5, <1>8 DEF PlaceInv
  <2> QED
    BY <1>6, <2>2, <2>3, <2>4, <2>5
<1>9. CASE at' = "idle" /\ step' = "rest" /\ result' = "failed"
  <2>1. ClientInv' /\ RoomInv' /\ EntriesInv' /\ PlaceInv' /\ Left' = 0
    BY <1>5, <1>9, RestKeeps
  <2>2. NamesInv'
    BY <1>1, <1>5, <1>7, <1>9, <1>5a, <2>1, LeftIsSmall, UploadConstants DEF NamesInv, ClientInv
  <2> QED
    BY <1>6, <2>1, <2>2
<1> QED
  BY <1>5, <1>8, <1>9

\* The files on disk are replaced one after the other.
LEMMA NewStepKeeps ==
    ASSUME UploadInv, NewUnlinkBin \/ NewRenameBin \/ NewUnlinkMD5
    PROVE  UploadInv'
<1> USE DEF UploadInv
<1>0. PICK n, name, extra : n = num_uploads /\ name = FileName(file_uploads, ObjectID) /\ extra = Two
  OBVIOUS
<1>1. /\ step = "newplc" /\ at \in {"unlink_bin", "rename_bin", "unlink_md5"}
      /\ UNCHANGED <<file_uploads, num_uploads, complete_ctx, open, misused, extra_file,
                     step, files, sent, transfer, transfers, result>>
  BY DEF NewUnlinkBin, NewRenameBin, NewUnlinkMD5, ram, client, ClientInv
<1>2. /\ transfer \in Transfers /\ Object \in Programs /\ files = <<Object>> /\ Head(files) = Object /\ sent = Chunks
      /\ n \in 1 .. MAX_FILE_UPLOADS /\ name = file_uploads[n].filename
      /\ Two => ~First /\ n - 1 \in 1 .. MAX_FILE_UPLOADS /\ file_uploads[n - 1].filename # name
  BY <1>0, <1>1, NewFinds
<1>3. Object' = Object /\ (Two' <=> Two) /\ (First' <=> First) /\ (First <=> ~Two)
  BY <1>1, <1>2, TransferShape DEF Object, Two, First
<1>4. Left' = 0 /\ Left = 0
  BY <1>1 DEF Left
<1>5. TableInv' /\ RoomInv' /\ misused' = FALSE
  BY <1>1, <1>4 DEF TableInv, RoomInv
<1>6. ASSUME DOMAIN tmp' \subseteq DOMAIN tmp, at' # "idle"
      PROVE  NamesInv'
  <2>1. Used' \subseteq Used
    BY <1>1, <1>6 DEF Used
  <2>2. Cardinality(Used') <= Cardinality(Used) /\ Cardinality(Used') \in Nat /\ Cardinality(Used) \in Nat
    BY <2>1, NamesFinite, FS_Subset, FS_CardinalityType DEF NamesInv
  <2> QED
    BY <1>1, <1>4, <1>6, <2>2, UploadConstants DEF NamesInv, ClientInv
<1>7. CASE NewUnlinkBin
  <2>1. at = "unlink_bin" /\ at' = "rename_bin" /\ plc_bin' \in {Missing, plc_bin} /\ UNCHANGED <<tmp, plc_md5>>
    BY <1>7 DEF NewUnlinkBin
  <2>2. ClientInv' /\ DiskInv'
    BY <1>1, <1>3, <2>1 DEF ClientInv, DiskInv, BinIsProgram
  <2>3. EntriesInv'
    BY <1>1, <1>2, <2>1 DEF EntriesInv, EmptyBut, Sends, InTmp, ExtraSent, Entry, First
  <2>4. PlaceInv'
    BY <1>1, <2>1 DEF PlaceInv
  <2> QED
    BY <1>5, <1>6, <2>1, <2>2, <2>3, <2>4
<1>8. CASE NewRenameBin
  <2>1. /\ at = "rename_bin" /\ at' = (IF Two THEN "rename_extra" ELSE "unlink_md5") /\ UNCHANGED plc_md5
        /\ \/ name \in DOMAIN tmp /\ plc_bin' = tmp[name] /\ tmp' = [x \in DOMAIN tmp \ {name} |-> tmp[x]]
           \/ (name \notin DOMAIN tmp \/ "rename_bin" \in Faults) /\ UNCHANGED <<plc_bin, tmp>>
    BY <1>0, <1>8 DEF NewRenameBin, Two
  <2>2. name \in DOMAIN tmp /\ Stored(tmp[name], Object)
    BY <1>0, <1>1, <1>2, <2>1, PartStored DEF EntriesInv, InTmp, Entry
  <2>3. /\ Stored(plc_bin', Object) \/ ("rename_bin" \in Faults /\ plc_bin' = plc_bin)
        /\ DOMAIN tmp' \subseteq DOMAIN tmp /\ \A x \in DOMAIN tmp \ {name} : x \in DOMAIN tmp' /\ tmp'[x] = tmp[x]
        /\ \A x \in DOMAIN tmp' : tmp'[x] = tmp[x]
    BY <2>1, <2>2
  <2>4. ClientInv' /\ DiskInv'
    BY <1>1, <1>2, <1>3, <2>1, <2>3 DEF ClientInv, DiskInv, BinIsProgram
  <2>5. EntriesInv'
    <3>1. Two => InTmp(n - 1, Extra, Chunks)'
      <4>1. Two => InTmp(n - 1, Extra, Chunks) /\ file_uploads[n - 1].filename # name
        BY <1>0, <1>1, <1>2, <2>1 DEF EntriesInv
      <4> QED
        BY <1>0, <1>1, <2>3, <4>1 DEF InTmp, Entry
    <3>2. /\ Sends(num_uploads, Head(files), sent)' /\ (First => EmptyBut({num_uploads})')
          /\ ~First => EmptyBut({num_uploads - 1, num_uploads})' /\ ExtraSent(num_uploads - 1)'
      BY <1>1 DEF EntriesInv, Sends, EmptyBut, ExtraSent, Entry
    <3> QED
      BY <1>0, <1>1, <1>3, <2>1, <3>1, <3>2 DEF EntriesInv, InTmp
  <2>6. PlaceInv'
    BY <1>1, <1>3, <2>1, <2>3 DEF PlaceInv, ClientInv
  <2> QED
    BY <1>5, <1>6, <2>1, <2>3, <2>4, <2>5, <2>6
<1>9. CASE NewUnlinkMD5
  <2>1. at = "unlink_md5" /\ at' = "write_md5" /\ plc_md5' = Missing /\ UNCHANGED <<tmp, plc_bin>>
    BY <1>9 DEF NewUnlinkMD5
  <2>2. ClientInv' /\ DiskInv'
    BY <1>1, <1>3, <2>1 DEF ClientInv, DiskInv, BinIsProgram
  <2>3. EntriesInv'
    BY <1>1, <1>2, <2>1 DEF EntriesInv, EmptyBut, Sends, InTmp, ExtraSent, Entry, First
  <2>4. PlaceInv'
    BY <1>1, <1>3, <2>1 DEF PlaceInv
  <2> QED
    BY <1>5, <1>6, <2>1, <2>2, <2>3, <2>4
<1> QED
  BY <1>7, <1>8, <1>9

\* The extra file is renamed, or the call ends.
LEMMA NewExtraKeeps ==
    ASSUME UploadInv, NewRenameExtra
    PROVE  UploadInv'
<1> USE DEF UploadInv
<1>0. PICK n, name : n = num_uploads /\ name = FileName(file_uploads, ExtraID)
  OBVIOUS
<1>1. /\ step = "newplc" /\ at = "rename_extra" /\ Two
      /\ UNCHANGED <<file_uploads, num_uploads, complete_ctx, open, misused, plc_bin, plc_md5>>
  BY DEF NewRenameExtra, ram, ClientInv
<1>2. /\ transfer \in Transfers /\ Object \in Programs /\ files = <<Object>> /\ Head(files) = Object /\ sent = Chunks
      /\ ~First /\ n - 1 \in 1 .. MAX_FILE_UPLOADS /\ name = file_uploads[n - 1].filename
  BY <1>0, <1>1, NewFinds
<1>3. name \in DOMAIN tmp /\ Stored(tmp[name], Extra)
  BY <1>0, <1>1, <1>2, PartStored DEF EntriesInv, InTmp, Entry
<1>4. TableInv' /\ misused' = FALSE
  BY <1>1 DEF TableInv
<1>5. /\ \/ /\ Stored(extra_file', Extra) /\ tmp' = [x \in DOMAIN tmp \ {name} |-> tmp[x]]
            /\ at' = "unlink_md5" /\ UNCHANGED <<client, result>>
         \/ /\ at' = "idle" /\ step' = "rest" /\ result' = "failed" /\ UNCHANGED <<sent, transfer, transfers>>
            /\ UNCHANGED <<extra_file, tmp>>
      /\ DOMAIN tmp' \subseteq DOMAIN tmp /\ \A x \in DOMAIN tmp' : tmp'[x] = tmp[x]
  BY <1>0, <1>3 DEF NewRenameExtra, GiveUp
<1>6. Cardinality(Used') <= Cardinality(Used) /\ Cardinality(Used') \in Nat /\ Cardinality(Used) \in Nat
  <2>1. Used' \subseteq Used
    BY <1>1, <1>5 DEF Used
  <2> QED
    BY <2>1, NamesFinite, FS_Subset, FS_CardinalityType DEF NamesInv
<1>7. DiskInv'
  BY <1>1, <1>5 DEF DiskInv, BinIsProgram
<1>8. CASE Stored(extra_file', Extra) /\ at' = "unlink_md5" /\ UNCHANGED <<client, result>>
  <2>1. UNCHANGED <<step, files, sent, transfer, transfers, result>>
    BY <1>8 DEF client
  <2>2. Left' = 0 /\ Left = 0
    BY <1>1, <2>1 DEF Left
  <2>3. ClientInv' /\ RoomInv'
    BY <1>1, <1>8, <2>1, <2>2 DEF ClientInv, RoomInv, First, Two, Object
  <2>4. NamesInv'
    BY <1>1, <1>5, <1>6, <1>8, <2>1, <2>2, UploadConstants DEF NamesInv, ClientInv
  <2>5. EntriesInv'
    BY <1>1, <1>8, <2>1 DEF EntriesInv, EmptyBut, Sends, ExtraSent, Entry, First
  <2>6. PlaceInv'
    BY <1>1, <1>8, <2>1 DEF PlaceInv, Object, Two
  <2> QED
    BY <1>4, <1>7, <2>3, <2>4, <2>5, <2>6
<1>9. CASE at' = "idle" /\ step' = "rest" /\ result' = "failed" /\ UNCHANGED <<sent, transfer, transfers, extra_file>>
  <2>1. ClientInv' /\ RoomInv' /\ EntriesInv' /\ PlaceInv' /\ Left' = 0
    BY <1>1, <1>9, RestKeeps
  <2>2. NamesInv'
    BY <1>1, <1>5, <1>6, <1>9, <2>1, LeftIsSmall, UploadConstants DEF NamesInv, ClientInv
  <2> QED
    BY <1>4, <1>7, <2>1, <2>2
<1> QED
  BY <1>5, <1>8, <1>9

\* The sum is written, and the call ends.
LEMMA NewWriteKeeps ==
    ASSUME UploadInv, NewWriteMD5
    PROVE  UploadInv'
<1> USE DEF UploadInv
<1>1. /\ step = "newplc" /\ at = "write_md5" /\ step' = "rest" /\ at' = "idle"
      /\ UNCHANGED <<file_uploads, num_uploads, complete_ctx, misused, tmp, plc_bin, extra_file,
                     files, sent, transfer, transfers>>
  BY DEF NewWriteMD5, table, GiveUp, ClientInv
<1>2. \/ (plc_md5' = Object \/ ("flush" \in Faults /\ plc_md5' = "lost"))
         /\ result' = "success" /\ open' = open
      \/ result' = "failed" /\ UNCHANGED <<open, plc_md5>>
      \/ result' = "failed" /\ plc_md5' = "partial" /\ open' = open \cup {Fresh}
  BY DEF NewWriteMD5, GiveUp
<1>3. transfer \in Transfers /\ Object \in Programs
  BY <1>1, NewFinds
<1>4. Fresh \in Tmp
  BY <1>1, FreshName, LeftIsSmall
<1>5. Left' = 0 /\ Left = 0
  BY <1>1 DEF Left
<1>6. TableInv' /\ misused' = FALSE /\ RoomInv' /\ ClientInv' /\ EntriesInv'
  BY <1>1, <1>2, <1>5 DEF TableInv, RoomInv, ClientInv, EntriesInv
<1>7. DiskInv'
  BY <1>1, <1>2, <1>3 DEF DiskInv, BinIsProgram
<1>8. NamesInv'
  <2>1. IsFiniteSet(Used) /\ IsFiniteSet(open) /\ open' \subseteq open \cup {Fresh}
    BY <1>2, NamesFinite DEF NamesInv
  <2>2. Cardinality(open') <= Cardinality(open) + 1 /\ Cardinality(open) \in Nat /\ Cardinality(open') \in Nat
    BY <2>1, NamesUsed
  <2>3. Used' \subseteq Used \cup {Fresh}
    BY <1>1, <2>1 DEF Used
  <2>4. Cardinality(Used') <= Cardinality(Used) + 1 /\ Cardinality(Used') \in Nat /\ Cardinality(Used) \in Nat
    BY <2>1, <2>3, NamesUsed
  <2>5. Cardinality(open') <= MaxOpen
    BY <1>1, <2>2, UploadConstants DEF NamesInv
  <2>6. Cardinality(Used') + 0 + 0 <= 3 * transfers'
    BY <1>1, <1>5, <2>4, UploadConstants DEF NamesInv, ClientInv
  <2> QED
    BY <1>1, <1>4, <1>5, <2>1, <2>5, <2>6 DEF NamesInv
<1>9. PlaceInv'
  BY <1>1, <1>2 DEF PlaceInv, SumIsObject, Object, Two
<1> QED
  BY <1>6, <1>7, <1>8, <1>9

\* The client goes, or the power.
LEMMA FaultKeeps ==
    ASSUME UploadInv, Disconnect \/ PowerLoss \/ UNCHANGED vars
    PROVE  UploadInv'
<1> USE DEF UploadInv
<1>1. CASE Disconnect
  <2>1. /\ step' = "rest" /\ at' = "idle" /\ result' = "none"
        /\ UNCHANGED <<sent, transfer, transfers>>
    BY <1>1 DEF Disconnect, GiveUp
  <2>2. UNCHANGED <<file_uploads, num_uploads, complete_ctx, open, misused, tmp, plc_bin, extra_file, plc_md5>>
    BY <1>1 DEF Disconnect, ram, disk
  <2>3. ClientInv' /\ RoomInv' /\ EntriesInv' /\ PlaceInv' /\ Left' = 0
    BY <2>1, <2>2, RestKeeps
  <2>4. Used' = Used /\ Cardinality(Used) \in Nat
    BY <2>2, NamesFinite DEF NamesInv, Used
  <2>5. NamesInv'
    BY <2>1, <2>2, <2>3, <2>4, LeftIsSmall, UploadConstants DEF NamesInv, ClientInv
  <2> QED
    BY <2>2, <2>3, <2>5 DEF TableInv, DiskInv, BinIsProgram
<1>2. CASE PowerLoss
  <2>1. /\ step' = "rest" /\ at' = "idle" /\ open' = {} /\ misused' = FALSE /\ num_uploads' = 0 /\ complete_ctx' = Missing
        /\ file_uploads' = [i \in 1 .. MAX_FILE_UPLOADS |-> Empty]
        /\ UNCHANGED <<files, sent, transfer, transfers, result>>
    BY <1>2 DEF PowerLoss
  <2>2. UNCHANGED <<tmp, plc_bin, extra_file, plc_md5>>
    BY <1>2 DEF PowerLoss, disk
  <2>3. Left' = 0
    BY <2>1 DEF Left
  <2>4. ClientInv' /\ EntriesInv' /\ DiskInv'
    BY <2>1, <2>2 DEF ClientInv, EntriesInv, DiskInv, BinIsProgram
  <2>5. TableInv' /\ RoomInv'
    BY <2>1, <2>3, UploadConstants DEF TableInv, RoomInv, ClientInv, Empty
  <2>6. NamesInv'
    <3>1. \A i \in DOMAIN file_uploads' : file_uploads'[i].filename = NULL
      BY <2>1 DEF Empty
    <3>2. Used' \subseteq Used
      BY <2>1, <2>2, <3>1 DEF Used
    <3>3. Cardinality(Used') <= Cardinality(Used) /\ Cardinality(Used') \in Nat /\ Cardinality(Used) \in Nat
      BY <3>2, NamesFinite, FS_Subset, FS_CardinalityType DEF NamesInv
    <3>4. Cardinality(open') = 0
      BY <2>1, FS_EmptySet
    <3> QED
      BY <2>1, <2>2, <2>3, <3>3, <3>4, LeftIsSmall, UploadConstants DEF NamesInv, ClientInv
  <2>7. PlaceInv'
    BY <2>1, <2>2 DEF PlaceInv, SumIsObject, Object, Two
  <2> QED
    BY <2>1, <2>4, <2>5, <2>6, <2>7
<1>3. CASE UNCHANGED vars
  <2>1. UNCHANGED <<file_uploads, num_uploads, complete_ctx, open, misused, tmp, plc_bin, extra_file, plc_md5, at,
                    step, files, sent, transfer, transfers, result>>
    BY <1>3 DEF vars, ram, disk, client
  <2>2. Left' = Left /\ Used' = Used /\ First' = First /\ Two' = Two /\ Object' = Object
    BY <2>1 DEF Left, Used, First, Two, Object
  <2>3. ClientInv' /\ TableInv' /\ RoomInv' /\ NamesInv' /\ DiskInv' /\ PlaceInv' /\ misused' = FALSE
    BY <2>1, <2>2 DEF ClientInv, TableInv, RoomInv, NamesInv, DiskInv, BinIsProgram, PlaceInv, SumIsObject
  <2>4. EntriesInv'
    BY <2>1, <2>2 DEF EntriesInv, EmptyBut, Sends, InTmp, Opened, ExtraSent, Entry
  <2> QED
    BY <2>3, <2>4
<1> QED
  BY <1>1, <1>2, <1>3

-----------------------------------------------------------------------------
(* The theorems.                                                           *)

\* The device boots with nothing uploaded.
LEMMA StartEmpty ==
    ASSUME Init
    PROVE  UploadInv
<1>1. /\ at = "idle" /\ step = "rest" /\ sent = 0 /\ transfers = 0 /\ transfer = <<>> /\ result = "none"
      /\ num_uploads = 0 /\ open = {} /\ misused = FALSE /\ DOMAIN tmp = {} /\ complete_ctx = Missing
      /\ file_uploads = [i \in 1 .. MAX_FILE_UPLOADS |-> Empty]
  BY DEF Init
<1>2. ClientInv /\ TableInv /\ EntriesInv /\ PlaceInv
  BY <1>1, UploadConstants DEF ClientInv, TableInv, EntriesInv, PlaceInv, Empty
<1>3. Left = 0 /\ RoomInv
  BY <1>1 DEF Left, RoomInv
<1>4. NamesInv
  <2>1. Used = {}
    BY <1>1 DEF Used, Empty
  <2>2. Cardinality(Used) = 0 /\ Cardinality(open) = 0
    BY <1>1, <2>1, FS_EmptySet
  <2> QED
    BY <1>1, <1>3, <2>2, UploadConstants DEF NamesInv
<1>5. DiskInv
  BY <1>1 DEF Init, DiskInv, BinIsProgram
<1> QED
  BY <1>1, <1>2, <1>3, <1>4, <1>5 DEF UploadInv

\* Every step keeps the invariant, as long as the table has room.
LEMMA UploadKept ==
    ASSUME Room
    PROVE  Spec => []UploadInv
<1>1. UploadInv /\ [Next]_vars => UploadInv'
  BY BeginKeeps, PurgeKeeps, SeedKeeps, AppendKeeps, NewKeeps, NewStepKeeps, NewExtraKeeps, NewWriteKeeps, FaultKeeps
     DEF Next
<1> QED
  BY StartEmpty, <1>1, PTL DEF Spec

\* The table stays within its entries, no more files are open than can be, and every
\* file on disk is made of chunks that were sent or lost (plc_rpc.c), for every fault.
THEOREM TypesKept ==
    ASSUME Room
    PROVE  Spec => []TypeOK
<1>1. ASSUME UploadInv
      PROVE  TypeOK
  <2>2. plc_bin = Missing \/ plc_bin \in Seq(Chunk)
    BY <1>1, PartStored DEF UploadInv, DiskInv, BinIsProgram
  <2>3. extra_file = Missing \/ extra_file \in Seq(Chunk)
    BY <1>1, PartStored DEF UploadInv, DiskInv
  <2>4. plc_md5 \in {Missing, "partial", "lost"} \cup Programs /\ \A n \in DOMAIN tmp : tmp[n] \in Seq(Chunk)
    BY <1>1 DEF UploadInv, DiskInv
  <2>5. /\ file_uploads \in [1 .. MAX_FILE_UPLOADS ->
              [filename : {NULL} \cup Tmp, blobID : {Missing} \cup IDs, file_pointer : {NULL} \cup Tmp]]
        /\ num_uploads \in 0 .. MAX_FILE_UPLOADS /\ complete_ctx \in {Missing} \cup IDs
    BY <1>1 DEF UploadInv, TableInv
  <2>6. open \subseteq Tmp /\ DOMAIN tmp \subseteq Tmp /\ Cardinality(open) <= MaxOpen /\ misused \in BOOLEAN
    BY <1>1 DEF UploadInv, NamesInv
  <2>7. /\ at \in {"idle", "unlink_bin", "rename_bin", "rename_extra", "unlink_md5", "write_md5"}
        /\ step \in {"rest", "purge", "seed", "append", "newplc"}
        /\ sent \in 0 .. Chunks /\ transfers \in 0 .. MaxTransfers /\ transfer \in {<<>>} \cup Transfers
        /\ result \in {"none", "refused", "failed", "success"}
    BY <1>1 DEF UploadInv, ClientInv
  <2> QED
    BY <2>2, <2>3, <2>4, <2>5, <2>6, <2>7 DEF TypeOK
<1> QED
  BY UploadKept, <1>1, PTL

\* PLC_BIN_FILE is not there or holds the chunks of one program, each in its place
\* (NewPLC), but for those whose fflush or fclose failed, which the code does not
\* check (plc_rpc.c:431, 624); all of them when "flush" is not one of the faults.  The
\* table has room for the files sent since boot.
THEOREM ProgramStored ==
    ASSUME Room
    PROVE  Spec => []BinIsProgram
<1>1. UploadInv => BinIsProgram
  BY DEF UploadInv, DiskInv
<1> QED
  BY UploadKept, <1>1, PTL

\* A success of NewPLC means that program, extra file and sum were put in place, with
\* what their fflush and fclose did not lose, unless the rename of the program fails,
\* which NewPLC only logs.
THEOREM SuccessInstalls ==
    ASSUME Room, "rename_bin" \notin Faults
    PROVE  Spec => []SuccessMeansInstalled
<1>1. UploadInv => SuccessMeansInstalled
  BY DEF UploadInv, PlaceInv, SumIsObject, SuccessMeansInstalled, Two
<1> QED
  BY UploadKept, <1>1, PTL

\* No FILE is closed twice or written to after its close (prepare_fileUpload,
\* finish_fileUpload), though the table keeps the pointers of closed files.
THEOREM FilesUsedOpen ==
    ASSUME Room
    PROVE  Spec => []NoFileMisuse
<1>1. UploadInv => NoFileMisuse
  BY DEF UploadInv, NoFileMisuse
<1> QED
  BY UploadKept, <1>1, PTL

\* A chunk is refused (AppendChunkToBlob) only when no file could be opened for it: what
\* an abandoned transfer left in the table is no obstacle.
THEOREM RefusedOnlyWhenFull ==
    ASSUME Room
    PROVE  Spec => ChunksAccepted
<1>1. ASSUME UploadInv, [Next]_vars, result' = "refused", result' # result
      PROVE  Cardinality(open) = MaxOpen
  <2>1. ~UNCHANGED vars /\ ~NewWriteMD5 /\ ~NewPLC /\ ~NewRenameExtra /\ ~Disconnect /\ ~Begin
    BY <1>1 DEF vars, NewWriteMD5, NewPLC, NewRenameExtra, Disconnect, Begin, GiveUp
  <2>2. ~PurgeBlobs /\ ~SeedBlob /\ ~NewUnlinkBin /\ ~NewRenameBin /\ ~NewUnlinkMD5 /\ ~PowerLoss
    BY <1>1 DEF PurgeBlobs, SeedBlob, NewUnlinkBin, NewRenameBin, NewUnlinkMD5, PowerLoss
  <2>3. AppendChunkToBlob
    BY <1>1, <2>1, <2>2 DEF Next
  <2>4. PICK b : b = MD5(Head(files), sent + 1)
    OBVIOUS
  <2>5. step = "append" /\ at = "idle" /\ FilePointer(Updated(b), b) = NULL
    BY <1>1, <2>3, <2>4 DEF AppendChunkToBlob, GiveUp, Sent
  <2>6. file_uploads[num_uploads].file_pointer = NULL /\ NULL \notin Tmp
    BY <1>1, <2>4, <2>5, AppendFinds DEF NULL, Tmp
  <2> QED
    BY <1>1, <2>5, <2>6 DEF UploadInv, EntriesInv, Opened, NamesInv, Entry
<1>2. UploadInv /\ [Next]_vars => [result' = "refused" => UNCHANGED result \/ Cardinality(open) = MaxOpen]_vars
  BY <1>1
<1> QED
  BY UploadKept, <1>2, PTL DEF Spec, ChunksAccepted
=============================================================================
