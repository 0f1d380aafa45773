------------------------------- MODULE PlcUpload -------------------------------
(***************************************************************************)
(* The upload of a program (plc_rpc.c): PurgeBlobs, SeedBlob and           *)
(* AppendChunkToBlob for every file, the program last, and NewPLC, one     *)
(* after the other in the RPC server thread, for a client that disconnects *)
(* and begins anew, on a file system that fails, and with power loss.      *)
(*                                                                         *)
(* A file is a model value sent in Chunks chunks; [file |-> f, sent |-> k] *)
(* stands for the MD5 of its seed and first k chunks, and the content of a *)
(* file on disk is the sequence of the chunks in it, Missing where a chunk *)
(* was lost.                                                               *)
(***************************************************************************)
EXTENDS Naturals, Sequences, FiniteSets

CONSTANTS
    Programs, Extra,        \* PLC programs; a file that may come with one
    Missing,                \* a file, an entry or a chunk that is not there
    Chunks,                 \* chunks of a file
    MAX_FILE_UPLOADS,       \* entries of the table file_uploads
    MaxOpen,                \* files the file system can have open
    MaxTransfers,           \* bound on the transfers begun
    Faults                  \* what may fail

FaultNames == {"disconnect", "power", "write", "flush", "rename_bin", "rename_extra", "md5"}

\* The sums a blob can have.
IDs == [file : Programs \cup {Extra}, sent : 0 .. Chunks]

ASSUME UploadConstants ==
    /\ Extra \notin Programs /\ Missing \notin Programs \cup IDs
    /\ Chunks \in Nat \ {0} /\ MAX_FILE_UPLOADS \in Nat \ {0}
    /\ MaxOpen \in Nat \ {0} /\ MaxTransfers \in Nat
    /\ Faults \subseteq FaultNames

VARIABLES
    file_uploads,   \* the table
    num_uploads,
    complete_ctx,   \* MD5 over the chunks of the file being sent
    open,           \* the temporary files that are open
    misused,        \* a FILE was used after it was closed
    tmp,            \* the temporary files on disk: their chunks
    plc_bin,        \* the content of PLC_BIN_FILE,
    extra_file,     \*   of the extra file,
    plc_md5,        \*   and the program whose sum PLC_MD5_FILE holds
    at,             \* the statement of NewPLC the server is at, or "idle"
    step, files, sent,  \* the client: its next call, the files of its transfer
                        \*   (head first), the chunks of the first one it sent
    transfer,       \* the whole transfer, for the properties
    result,         \* the last answer
    transfers       \* the transfers begun

table == <<file_uploads, num_uploads>>
ram == <<file_uploads, num_uploads, complete_ctx, open, misused>>
disk == <<tmp, plc_bin, extra_file, plc_md5>>
client == <<step, files, sent, transfer, transfers>>
vars == <<ram, disk, at, client, result>>

MD5(f, k) == [file |-> f, sent |-> k]
Chunk == IDs \cup {Missing}
Transfers == {<<p>> : p \in Programs} \cup {<<Extra, p>> : p \in Programs}

\* Temporary files get a fresh name each; a FILE is the file it was opened for.
NULL == 0
Tmp == 1 .. 3 * MaxTransfers
Fresh == CHOOSE n \in Tmp : n \notin DOMAIN tmp \cup open \cup {file_uploads[i].filename : i \in DOMAIN file_uploads}

\* init_file_upload
Empty == [filename |-> NULL, blobID |-> Missing, file_pointer |-> NULL]

-----------------------------------------------------------------------------
(* The table.                                                              *)

\* add_file_upload(name, b, fp) to table t of n entries: nothing when it is full
Added(t, n, name, b, fp) ==
    IF n < MAX_FILE_UPLOADS
    THEN [t EXCEPT ![n + 1] = [filename |-> name, blobID |-> b, file_pointer |-> fp]]
    ELSE t

\* update_last_blobID
Updated(b) ==
    IF num_uploads > 0 THEN [file_uploads EXCEPT ![num_uploads].blobID = b] ELSE file_uploads

\* Mutant: the last entry is not looked at.
MatchAllButLast(t, b) == {i \in 1 .. (num_uploads - 1) : t[i].blobID = b /\ \A j \in 1 .. (i - 1) : t[j].blobID # b}

\* get_filename_from_blobID, get_file_pointer_from_blobID: the first match
Match(t, b) == {i \in 1 .. num_uploads : t[i].blobID = b /\ \A j \in 1 .. (i - 1) : t[j].blobID # b}

FilePointer(t, b) == IF Match(t, b) = {} THEN NULL ELSE t[CHOOSE i \in Match(t, b) : TRUE].file_pointer
FileName(t, b) == IF Match(t, b) = {} THEN NULL ELSE t[CHOOSE i \in Match(t, b) : TRUE].filename

\* is_last_file_pointer_valid
LastFilePointer == IF num_uploads > 0 THEN file_uploads[num_uploads].file_pointer ELSE NULL

\* What is on disk of content c when the FILE was flushed or closed: the writes
\* that fail there, which nobody looks at, are lost.
Kept(c) ==
    {[k \in DOMAIN c |-> IF k \in lost THEN Missing ELSE c[k]] :
        lost \in SUBSET (IF "flush" \in Faults THEN DOMAIN c ELSE {})}

\* fclose(fp), fp # NULL or nothing
OnDisk(fp) ==
    IF fp \in open \cap DOMAIN tmp THEN {[tmp EXCEPT ![fp] = c] : c \in Kept(tmp[fp])} ELSE {tmp}
Closed(fp) == open \ {fp}
ClosedTwice(fp) == misused \/ (fp # NULL /\ fp \notin open)

-----------------------------------------------------------------------------
(* The client begins a transfer and calls one function after the other.    *)

Begin ==
    /\ step = "rest" /\ at = "idle" /\ transfers < MaxTransfers
    /\ files' \in Transfers /\ transfer' = files'
    /\ step' = "purge" /\ sent' = 0 /\ transfers' = transfers + 1
    /\ result' = "none"
    /\ UNCHANGED <<ram, disk, at>>

\* Mutant: the entries are initialised up to and including MAX_FILE_UPLOADS.
PurgeBlobsOneMore ==
    /\ step = "purge" /\ at = "idle"
    /\ \E kept \in SUBSET (open \cap DOMAIN tmp) : tmp' = [n \in kept |-> tmp[n]]
    /\ file_uploads' = [i \in 1 .. (MAX_FILE_UPLOADS + 1) |-> Empty]
    /\ step' = "seed"
    /\ UNCHANGED <<num_uploads, complete_ctx, open, misused, plc_bin, extra_file, plc_md5,
                   at, files, sent, transfer, transfers, result>>

\* Mutant: the table keeps its entries.
PurgeBlobsKept ==
    /\ step = "purge" /\ at = "idle"
    /\ \E kept \in SUBSET (open \cap DOMAIN tmp) : tmp' = [n \in kept |-> tmp[n]]
    /\ step' = "seed"
    /\ UNCHANGED <<table, complete_ctx, open, misused, plc_bin, extra_file, plc_md5,
                   at, files, sent, transfer, transfers, result>>

\* delete_tmp_files cannot be relied on for a file that is open.
PurgeBlobs ==
    /\ step = "purge" /\ at = "idle"
    /\ \E kept \in SUBSET (open \cap DOMAIN tmp) : tmp' = [n \in kept |-> tmp[n]]
    /\ file_uploads' = [i \in 1 .. MAX_FILE_UPLOADS |-> Empty]
    /\ step' = "seed"
    /\ UNCHANGED <<num_uploads, complete_ctx, open, misused, plc_bin, extra_file, plc_md5,
                   at, files, sent, transfer, transfers, result>>

\* prepare_fileUpload closes the last file first, without clearing its pointer.
SeedBlob ==
    /\ step = "seed" /\ at = "idle"
    /\ LET b == MD5(Head(files), 0)
           fp == LastFilePointer
           last == IF fp = NULL THEN NULL ELSE FilePointer(file_uploads, file_uploads[num_uploads].blobID)
           opens == Cardinality(Closed(last)) < MaxOpen
       IN  /\ complete_ctx' = b
           /\ misused' = ClosedTwice(last)
           /\ open' = Closed(last) \cup (IF opens THEN {Fresh} ELSE {})
           /\ \E t \in OnDisk(last) :
                 tmp' = IF opens THEN [n \in DOMAIN t \cup {Fresh} |-> IF n = Fresh THEN <<>> ELSE t[n]]
                        ELSE t
           /\ file_uploads' = Added(file_uploads, num_uploads, Fresh, b, IF opens THEN Fresh ELSE NULL)
           /\ num_uploads' = IF num_uploads < MAX_FILE_UPLOADS THEN num_uploads + 1 ELSE num_uploads
    /\ step' = "append" /\ sent' = 0
    /\ UNCHANGED <<plc_bin, extra_file, plc_md5, at, files, transfer, transfers, result>>

\* The client goes on to its next call, or gives up the transfer on an error.
Sent ==
    /\ IF sent + 1 < Chunks THEN step' = "append" /\ sent' = sent + 1 /\ files' = files
       ELSE IF Len(files) > 1 THEN step' = "seed" /\ sent' = 0 /\ files' = Tail(files)
       ELSE step' = "newplc" /\ sent' = sent + 1 /\ files' = files
    /\ UNCHANGED <<transfer, transfers, result>>

GiveUp(answer) ==
    /\ step' = "rest" /\ result' = answer
    /\ UNCHANGED <<files, sent, transfer, transfers>>

\* Mutant: the number of bytes written is not looked at.
AppendUnchecked ==
    /\ step = "append" /\ at = "idle"
    /\ LET b == MD5(Head(files), sent + 1)
           fp == FilePointer(Updated(b), b)
       IN  /\ complete_ctx' = b
           /\ file_uploads' = Updated(b)
           /\ \/ fp = NULL /\ GiveUp("refused") /\ UNCHANGED tmp
              \/ /\ fp # NULL /\ Sent
                 /\ tmp' \in {tmp, [tmp EXCEPT ![fp] = Append(@, b)]}
    /\ UNCHANGED <<num_uploads, open, misused, plc_bin, extra_file, plc_md5, at>>

\* A write that fwrite does not report is lost in the fflush.  The memory of a
\* closed FILE may belong to a file opened since.
AppendChunkToBlob ==
    /\ step = "append" /\ at = "idle"
    /\ LET b == MD5(Head(files), sent + 1)
           fp == FilePointer(Updated(b), b)
           targets == IF fp \in open THEN {fp} ELSE open
       IN  /\ complete_ctx' = b
           /\ file_uploads' = Updated(b)
           /\ misused' = (misused \/ (fp # NULL /\ fp \notin open))
           /\ \/ fp = NULL /\ GiveUp("refused") /\ UNCHANGED tmp
              \/ fp # NULL /\ (fp \notin open \/ "write" \in Faults) /\ GiveUp("failed") /\ UNCHANGED tmp
              \/ /\ fp # NULL /\ Sent
                 /\ \E n \in targets :
                       IF n \in DOMAIN tmp
                       THEN \E c \in Kept(Append(tmp[n], b)) : tmp' = [tmp EXCEPT ![n] = c]
                       ELSE UNCHANGED tmp
    /\ UNCHANGED <<num_uploads, open, plc_bin, extra_file, plc_md5, at>>

-----------------------------------------------------------------------------
(* NewPLC, up to each change of a file.                                    *)

Object == transfer[Len(transfer)]
ObjectID == MD5(Object, Chunks)
ExtraID == MD5(Extra, Chunks)

\* finish_fileUpload and the comparison of the sums
NewPLC ==
    /\ step = "newplc" /\ at = "idle"
    /\ LET t == Updated(ObjectID)
           fp == FilePointer(t, ObjectID)
       IN  /\ file_uploads' = t
           /\ open' = Closed(fp) /\ misused' = ClosedTwice(fp) /\ tmp' \in OnDisk(fp)
    /\ complete_ctx' = Missing
    /\ \/ complete_ctx = ObjectID /\ at' = "unlink_bin" /\ UNCHANGED <<client, result>>
       \/ complete_ctx # ObjectID /\ GiveUp("failed") /\ UNCHANGED at
    /\ UNCHANGED <<num_uploads, plc_bin, extra_file, plc_md5>>

\* PLC_BIN_FILE is removed if there is a PLC_MD5_FILE.
NewUnlinkBin ==
    /\ at = "unlink_bin" /\ at' = "rename_bin"
    /\ plc_bin' = IF plc_md5 # Missing THEN Missing ELSE plc_bin
    /\ UNCHANGED <<ram, tmp, extra_file, plc_md5, client, result>>

\* A rename that fails is logged.
NewRenameBin ==
    /\ at = "rename_bin"
    /\ LET name == FileName(file_uploads, ObjectID)
       IN  \/ /\ name \in DOMAIN tmp
              /\ plc_bin' = tmp[name]
              /\ tmp' = [n \in DOMAIN tmp \ {name} |-> tmp[n]]
           \/ /\ name \notin DOMAIN tmp \/ "rename_bin" \in Faults
              /\ UNCHANGED <<plc_bin, tmp>>
    /\ at' = IF Head(transfer) = Extra THEN "rename_extra" ELSE "unlink_md5"
    /\ UNCHANGED <<ram, extra_file, plc_md5, client, result>>

\* Mutant: a failing rename of the extra file is only logged.
NewRenameExtraOn ==
    /\ at = "rename_extra" /\ at' = "unlink_md5"
    /\ LET name == FileName(file_uploads, ExtraID)
       IN  \/ /\ name \in DOMAIN tmp
              /\ extra_file' = tmp[name]
              /\ tmp' = [n \in DOMAIN tmp \ {name} |-> tmp[n]]
           \/ "rename_extra" \in Faults /\ UNCHANGED <<extra_file, tmp>>
    /\ UNCHANGED <<ram, plc_bin, plc_md5, client, result>>

NewRenameExtra ==
    /\ at = "rename_extra"
    /\ LET name == FileName(file_uploads, ExtraID)
       IN  \/ /\ name \in DOMAIN tmp
              /\ extra_file' = tmp[name]
              /\ tmp' = [n \in DOMAIN tmp \ {name} |-> tmp[n]]
              /\ at' = "unlink_md5" /\ UNCHANGED <<client, result>>
           \/ /\ name \notin DOMAIN tmp \/ "rename_extra" \in Faults
              /\ at' = "idle" /\ GiveUp("failed") /\ UNCHANGED <<extra_file, tmp>>
    /\ UNCHANGED <<ram, plc_bin, plc_md5>>

NewUnlinkMD5 ==
    /\ at = "unlink_md5" /\ at' = "write_md5"
    /\ plc_md5' = Missing
    /\ UNCHANGED <<ram, tmp, plc_bin, extra_file, client, result>>

\* The sum is written, or lost in the fclose; the file cannot be opened, or is
\* written in part and left open.  There is room for it: NewPLC has just closed
\* the program.
NewWriteMD5 ==
    /\ at = "write_md5" /\ at' = "idle"
    /\ \/ plc_md5' = Object /\ GiveUp("success") /\ UNCHANGED open
       \/ "flush" \in Faults /\ plc_md5' = "lost" /\ GiveUp("success") /\ UNCHANGED open
       \/ "md5" \in Faults /\ GiveUp("failed") /\ UNCHANGED <<open, plc_md5>>
       \/ "md5" \in Faults /\ GiveUp("failed") /\ plc_md5' = "partial" /\ open' = open \cup {Fresh}
    /\ UNCHANGED <<table, complete_ctx, misused, tmp, plc_bin, extra_file>>

-----------------------------------------------------------------------------
(* The client disconnects between two calls; the power fails anywhere.     *)

Disconnect ==
    /\ "disconnect" \in Faults /\ at = "idle" /\ step # "rest"
    /\ GiveUp("none")
    /\ UNCHANGED <<ram, disk, at>>

PowerLoss ==
    /\ "power" \in Faults
    /\ file_uploads' = [i \in 1 .. MAX_FILE_UPLOADS |-> Empty]
    /\ num_uploads' = 0 /\ complete_ctx' = Missing
    /\ open' = {} /\ misused' = FALSE
    /\ at' = "idle" /\ step' = "rest"
    /\ UNCHANGED <<disk, files, sent, transfer, transfers, result>>

Init ==
    /\ file_uploads = [i \in 1 .. MAX_FILE_UPLOADS |-> Empty]
    /\ num_uploads = 0 /\ complete_ctx = Missing /\ open = {} /\ misused = FALSE
    /\ tmp = <<>> /\ plc_bin = Missing /\ extra_file = Missing /\ plc_md5 = Missing
    /\ at = "idle" /\ step = "rest" /\ files = <<>> /\ sent = 0 /\ transfer = <<>>
    /\ result = "none" /\ transfers = 0

Next ==
    \/ Begin \/ PurgeBlobs \/ SeedBlob \/ AppendChunkToBlob
    \/ NewPLC \/ NewUnlinkBin \/ NewRenameBin \/ NewRenameExtra \/ NewUnlinkMD5 \/ NewWriteMD5
    \/ Disconnect \/ PowerLoss

Spec == Init /\ [][Next]_vars

-----------------------------------------------------------------------------
(* Properties                                                              *)

\* Every variable stays in its range, the table within MAX_FILE_UPLOADS entries
\* and the open files within MaxOpen.
TypeOK ==
    /\ file_uploads \in [1 .. MAX_FILE_UPLOADS ->
          [filename : {NULL} \cup Tmp, blobID : {Missing} \cup IDs, file_pointer : {NULL} \cup Tmp]]
    /\ num_uploads \in 0 .. MAX_FILE_UPLOADS
    /\ complete_ctx \in {Missing} \cup IDs
    /\ open \subseteq Tmp /\ Cardinality(open) <= MaxOpen /\ misused \in BOOLEAN
    /\ DOMAIN tmp \subseteq Tmp /\ \A n \in DOMAIN tmp : tmp[n] \in Seq(Chunk)
    /\ plc_bin = Missing \/ plc_bin \in Seq(Chunk)
    /\ extra_file = Missing \/ extra_file \in Seq(Chunk)
    /\ plc_md5 \in {Missing, "partial", "lost"} \cup Programs
    /\ at \in {"idle", "unlink_bin", "rename_bin", "rename_extra", "unlink_md5", "write_md5"}
    /\ step \in {"rest", "purge", "seed", "append", "newplc"}
    /\ sent \in 0 .. Chunks /\ transfers \in 0 .. MaxTransfers
    /\ transfer \in {<<>>} \cup Transfers
    /\ result \in {"none", "refused", "failed", "success"}

\* c is the content of file f, every chunk in its place but those whose write
\* failed in an fflush or fclose, which the code does not see.
Stored(c, f) ==
    /\ c \in [1 .. Chunks -> Chunk]
    /\ \A k \in 1 .. Chunks : c[k] = MD5(f, k) \/ ("flush" \in Faults /\ c[k] = Missing)

\* PLC_BIN_FILE holds one program, all of it that was flushed, or nothing, whatever
\* fails and whenever (plc_rpc.c:632, "If the checksums match, it proceeds to update
\* the PLC program with the uploaded file").  The sums are those of the chunks that
\* came in, not of the file: what an fflush or fclose loses goes unnoticed.
BinIsProgram == plc_bin = Missing \/ \E p \in Programs : Stored(plc_bin, p)

\* When NewPLC reports success the program, the extra file and the sum are those
\* of the transfer, but for what an fflush or fclose lost, until the next begins.
SuccessMeansInstalled ==
    result = "success" =>
        /\ Stored(plc_bin, Object)
        /\ plc_md5 = Object \/ ("flush" \in Faults /\ plc_md5 = "lost")
        /\ Head(transfer) = Extra => Stored(extra_file, Extra)

\* No FILE is closed twice or written to after it was closed.
NoFileMisuse == ~misused

\* A chunk is refused only when its file could not be opened: what an abandoned
\* transfer left in the table is no obstacle (plc_rpc.c:521, "effectively
\* resetting the file upload environment"), only the files it left open are.
ChunksAccepted ==
    [][result' = "refused" => UNCHANGED result \/ Cardinality(open) = MaxOpen]_vars
=============================================================================
