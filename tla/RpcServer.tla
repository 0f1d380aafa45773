------------------------------- MODULE RpcServer -------------------------------
(***************************************************************************)
(* The eRPC server (rpc_server_task of plc_rpc.c and the generated shims   *)
(* of src/app/erpc): the server is set up, polls for calls, decodes the    *)
(* request into allocated structs, invokes the handler, encodes the reply, *)
(* frees the structs, and is torn down and set up again after any error.   *)
(* The client is the generated client of the same interface.               *)
(*                                                                         *)
(* A message is the sequence of the fields in it, each a <<type, value>>;  *)
(* the value of a field is the path of the datum it carries.  A path       *)
(* <<p, k, f>> names member f of element k (0: not of a list) of the       *)
(* struct of parameter p, and <<p, 0, "">> parameter p itself.  What the   *)
(* handlers do to the PLC is in PlcRun, PlcDebug and PlcUpload; here is    *)
(* what they do to the memory and to the reply.                            *)
(***************************************************************************)
EXTENDS Naturals, Sequences, FiniteSets, SequencesExt

CONSTANTS
    MaxList,        \* bound on the elements of a list
    MaxFaults,      \* bound on the faults of a behaviour
    Failing         \* the <<method, site>> that may fail

Sites == {"struct", "content", "elements", "handler", "nofile", "buffer", "overrun"}

ASSUME RpcBounds == MaxList \in Nat \ {0} /\ MaxFaults \in Nat

VARIABLES
    task,       \* where rpc_server_task is
    held,       \* what it has created
    connected,  \* a client is connected
    call,       \* the call being made, or Idle
    request, reply, \* the fields of the messages
    todo,       \* the fields the shim has still to read
    status,     \* of the codec, and of the call
    mem,        \* pointer members that exist: "unset", "null" or "live"
    count,      \* elementsCount of the lists in memory
    seen,       \* the arguments the shim has decoded: <<path, value>>
    given,      \* the paths the handler has set
    answer,     \* what the client's call returned
    faults      \* how many may still happen

messages == <<request, reply, todo, status>>
memory == <<mem, count, seen, given>>
vars == <<task, held, connected, call, messages, memory, answer, faults>>

Idle == [method |-> "none", n |-> 0, full |-> FALSE]

-----------------------------------------------------------------------------
(* Layout of the types on the wire: the members of a struct in the order   *)
(* they are written or read, and for a list those of its elements.         *)

Leaf(type, member) == [type |-> type, member |-> member]
Struct(leaves) == [head |-> leaves, each |-> <<>>]
List(leaves) == [head |-> <<>>, each |-> leaves]
Scalar(type) == Struct(<<Leaf(type, "")>>)

IsList(layout) == layout.each # <<>>

\* The server's functions.
read_binary_t_struct == <<Leaf("binary", "data")>>
read_extra_file_struct == <<Leaf("string", "fname"), Leaf("binary", "blobID")>>

read_list_extra_file_1_t_struct == List(read_extra_file_struct)
read_trace_order_struct == <<Leaf("u32", "idx"), Leaf("binary", "force")>>
read_list_trace_order_1_t_struct == List(read_trace_order_struct)
write_binary_t_struct == <<Leaf("binary", "data")>>
write_log_message_struct ==
    <<Leaf("string", "msg"), Leaf("u32", "tick"), Leaf("u32", "sec"), Leaf("u32", "nsec")>>
write_PSKID_struct == <<Leaf("string", "ID"), Leaf("string", "PSK")>>
write_PLCstatus_struct == <<Leaf("i32", "PLCstatus")>> \o [i \in 1 .. 4 |-> Leaf("u32", "logcounts")]
write_trace_sample_struct == <<Leaf("u32", "tick"), Leaf("binary", "TraceBuffer")>>
write_list_trace_sample_1_t_struct == List(write_trace_sample_struct)
write_TraceVariables_struct ==
    [write_list_trace_sample_1_t_struct EXCEPT !.head = <<Leaf("i32", "PLCstatus")>>]

\* The client's.
client_write_binary_t == <<Leaf("binary", "data")>>
client_write_extra_file == <<Leaf("string", "fname"), Leaf("binary", "blobID")>>
client_write_list_extra_file == List(client_write_extra_file)
client_write_trace_order == <<Leaf("u32", "idx"), Leaf("binary", "force")>>
client_write_list_trace_order == List(client_write_trace_order)
client_read_binary_t == <<Leaf("binary", "data")>>
client_read_log_message ==
    <<Leaf("string", "msg"), Leaf("u32", "tick"), Leaf("u32", "sec"), Leaf("u32", "nsec")>>
client_read_PSKID == <<Leaf("string", "ID"), Leaf("string", "PSK")>>
client_read_PLCstatus == <<Leaf("i32", "PLCstatus")>> \o [i \in 1 .. 4 |-> Leaf("u32", "logcounts")]
client_read_trace_sample == <<Leaf("u32", "tick"), Leaf("binary", "TraceBuffer")>>
client_read_list_trace_sample == List(client_read_trace_sample)
client_read_TraceVariables ==
    [client_read_list_trace_sample EXCEPT !.head = <<Leaf("i32", "PLCstatus")>>]

\* What the free functions free of a struct, besides the struct itself.
free_binary_t_struct == Struct(<<"data">>)
free_log_message_struct == Struct(<<"msg">>)
free_PSKID_struct == Struct(<<"ID", "PSK">>)
free_trace_sample_struct == <<"TraceBuffer">>
free_list_trace_sample_1_t_struct == List(free_trace_sample_struct)
free_TraceVariables_struct == free_list_trace_sample_1_t_struct
free_extra_file_name == <<"fname">>
free_extra_file_struct == <<"fname", "blobID">>

free_list_extra_file_1_t_struct == List(free_extra_file_struct)
free_trace_order_struct == <<"force">>
free_list_trace_order_1_t_struct == List(free_trace_order_struct)
free_nothing == Struct(<<>>)

-----------------------------------------------------------------------------
(* The shims: the structs allocated before the request is read, what is    *)
(* read, the structs allocated for the results, what is written before the *)
(* result code, and what is freed.                                         *)

Param(name, layout) == [name |-> name, layout |-> layout]

Shim(before, reads, after, writes, frees) ==
    [before |-> before, reads |-> reads, after |-> after, writes |-> writes, frees |-> frees]

AppendChunkToBlob_swapped ==
    Shim(<<"data", "blobID">>,
         <<Param("blobID", Struct(read_binary_t_struct)), Param("data", Struct(read_binary_t_struct))>>,
         <<"newBlobID">>, <<Param("newBlobID", Struct(write_binary_t_struct))>>,
         <<Param("data", free_binary_t_struct), Param("blobID", free_binary_t_struct),
           Param("newBlobID", free_binary_t_struct)>>)

AppendChunkToBlob_shim ==
    Shim(<<"data", "blobID">>,
         <<Param("data", Struct(read_binary_t_struct)), Param("blobID", Struct(read_binary_t_struct))>>,
         <<"newBlobID">>, <<Param("newBlobID", Struct(write_binary_t_struct))>>,
         <<Param("data", free_binary_t_struct), Param("blobID", free_binary_t_struct),
           Param("newBlobID", free_binary_t_struct)>>)

GetLogMessage_shim ==
    Shim(<<>>, <<Param("level", Scalar("u8")), Param("msgID", Scalar("u32"))>>, <<"message">>,
         <<Param("message", Struct(write_log_message_struct))>>, <<Param("message", free_log_message_struct)>>)

GetPLCID_shim ==
    Shim(<<>>, <<>>, <<"plcID">>, <<Param("plcID", Struct(write_PSKID_struct))>>, <<Param("plcID", free_PSKID_struct)>>)

GetPLCstatus_shim ==
    Shim(<<>>, <<>>, <<"status">>, <<Param("status", Struct(write_PLCstatus_struct))>>, <<Param("status", free_nothing)>>)

GetTraceVariables_shim ==
    Shim(<<>>, <<Param("debugToken", Scalar("u32"))>>, <<"traces">>,
         <<Param("traces", write_TraceVariables_struct)>>, <<Param("traces", free_TraceVariables_struct)>>)

MatchMD5_shim ==
    Shim(<<>>, <<Param("MD5", Scalar("string"))>>, <<>>, <<Param("match", Scalar("bool"))>>, <<Param("MD5", free_nothing)>>)

NewPLC_shim ==
    Shim(<<"plcObjectBlobID", "extrafiles">>,
         <<Param("md5sum", Scalar("string")), Param("plcObjectBlobID", Struct(read_binary_t_struct)),
           Param("extrafiles", read_list_extra_file_1_t_struct)>>,
         <<>>, <<Param("success", Scalar("bool"))>>,
         <<Param("md5sum", free_nothing), Param("plcObjectBlobID", free_binary_t_struct),
           Param("extrafiles", free_list_extra_file_1_t_struct)>>)

SeedBlob_shim ==
    Shim(<<"seed">>, <<Param("seed", Struct(read_binary_t_struct))>>, <<"blobID">>,
         <<Param("blobID", Struct(write_binary_t_struct))>>,
         <<Param("seed", free_binary_t_struct), Param("blobID", free_binary_t_struct)>>)

SetTraceVariablesList_shim ==
    Shim(<<"orders">>, <<Param("orders", read_list_trace_order_1_t_struct)>>, <<>>,
         <<Param("debugtoken", Scalar("u32"))>>, <<Param("orders", free_list_trace_order_1_t_struct)>>)

PurgeBlobs_shim == Shim(<<>>, <<>>, <<>>, <<>>, <<>>)
RepairPLC_shim == Shim(<<>>, <<>>, <<>>, <<>>, <<>>)
ResetLogCount_shim == Shim(<<>>, <<>>, <<>>, <<>>, <<>>)
StartPLC_shim == Shim(<<>>, <<>>, <<>>, <<>>, <<>>)
StopPLC_shim == Shim(<<>>, <<>>, <<>>, <<Param("success", Scalar("bool"))>>, <<>>)

handleInvocation ==
    [AppendChunkToBlob |-> AppendChunkToBlob_shim, GetLogMessage |-> GetLogMessage_shim,
     GetPLCID |-> GetPLCID_shim, GetPLCstatus |-> GetPLCstatus_shim,
     GetTraceVariables |-> GetTraceVariables_shim, MatchMD5 |-> MatchMD5_shim, NewPLC |-> NewPLC_shim,
     PurgeBlobs |-> PurgeBlobs_shim, RepairPLC |-> RepairPLC_shim, ResetLogCount |-> ResetLogCount_shim,
     SeedBlob |-> SeedBlob_shim, SetTraceVariablesList |-> SetTraceVariablesList_shim,
     StartPLC |-> StartPLC_shim, StopPLC |-> StopPLC_shim]

Methods == DOMAIN handleInvocation

ASSUME FailingSites == Failing \subseteq Methods \X Sites

(* The client's side of each method: what it writes, what it reads before  *)
(* the result code.                                                        *)

Client(writes, reads) == [writes |-> writes, reads |-> reads]

AppendChunkToBlob_client ==
    Client(<<Param("data", Struct(client_write_binary_t)), Param("blobID", Struct(client_write_binary_t))>>,
           <<Param("newBlobID", Struct(client_read_binary_t))>>)
GetLogMessage_client ==
    Client(<<Param("level", Scalar("u8")), Param("msgID", Scalar("u32"))>>,
           <<Param("message", Struct(client_read_log_message))>>)
GetPLCID_client == Client(<<>>, <<Param("plcID", Struct(client_read_PSKID))>>)
GetPLCstatus_client == Client(<<>>, <<Param("status", Struct(client_read_PLCstatus))>>)
GetTraceVariables_client ==
    Client(<<Param("debugToken", Scalar("u32"))>>, <<Param("traces", client_read_TraceVariables)>>)
MatchMD5_client == Client(<<Param("MD5", Scalar("string"))>>, <<Param("match", Scalar("bool"))>>)
NewPLC_client ==
    Client(<<Param("md5sum", Scalar("string")), Param("plcObjectBlobID", Struct(client_write_binary_t)),
             Param("extrafiles", client_write_list_extra_file)>>,
           <<Param("success", Scalar("bool"))>>)
PurgeBlobs_client == Client(<<>>, <<>>)
RepairPLC_client == Client(<<>>, <<>>)
ResetLogCount_client == Client(<<>>, <<>>)
SeedBlob_client ==
    Client(<<Param("seed", Struct(client_write_binary_t))>>, <<Param("blobID", Struct(client_read_binary_t))>>)
SetTraceVariablesList_client ==
    Client(<<Param("orders", client_write_list_trace_order)>>, <<Param("debugtoken", Scalar("u32"))>>)
StartPLC_client == Client(<<>>, <<>>)
StopPLC_client == Client(<<>>, <<Param("success", Scalar("bool"))>>)

BeremizPLCObjectService_client ==
    [AppendChunkToBlob |-> AppendChunkToBlob_client, GetLogMessage |-> GetLogMessage_client,
     GetPLCID |-> GetPLCID_client, GetPLCstatus |-> GetPLCstatus_client,
     GetTraceVariables |-> GetTraceVariables_client, MatchMD5 |-> MatchMD5_client, NewPLC |-> NewPLC_client,
     PurgeBlobs |-> PurgeBlobs_client, RepairPLC |-> RepairPLC_client, ResetLogCount |-> ResetLogCount_client,
     SeedBlob |-> SeedBlob_client, SetTraceVariablesList |-> SetTraceVariablesList_client,
     StartPLC |-> StartPLC_client, StopPLC |-> StopPLC_client]

-----------------------------------------------------------------------------
(* Encoding: every leaf of a parameter with its path, element by element.  *)

At(p, k, leaf) == [type |-> leaf.type, path |-> <<p, k, leaf.member>>]
Elements(p) == <<p, 0, "elements">>

Leaves(param, n) ==
    LET Head0 == [i \in DOMAIN param.layout.head |-> At(param.name, 0, param.layout.head[i])]
        Each(k) == [i \in DOMAIN param.layout.each |-> At(param.name, k, param.layout.each[i])]
    IN  IF ~IsList(param.layout) THEN Head0
        ELSE Head0 \o <<[type |-> "list", path |-> Elements(param.name)]>> \o FlattenSeq([k \in 1 .. n |-> Each(k)])

AllLeaves(params, n) == FlattenSeq([i \in DOMAIN params |-> Leaves(params[i], n)])

\* The value of a leaf in a message with lists of n elements whose binaries are
\* full or of length 0.
Value(leaf, n, full) ==
    IF leaf.type = "list" THEN <<n>> ELSE IF leaf.type = "binary" /\ ~full THEN <<>> ELSE leaf.path

Junk == <<"junk", 0, "">>

\* The fields of the request of call c, and what its arguments are.
Request(c) ==
    LET leaves == AllLeaves(BeremizPLCObjectService_client[c.method].writes, c.n)
    IN  [i \in DOMAIN leaves |-> <<leaves[i].type, Value(leaves[i], c.n, c.full)>>]

Arguments(c) ==
    {<<l.path, Value(l, c.n, c.full)>> : l \in Range(AllLeaves(BeremizPLCObjectService_client[c.method].writes, c.n))}

-----------------------------------------------------------------------------
(* The memory of a call.                                                   *)

Self(p) == <<p, 0, "">>

\* The pointers in the struct of parameter p, and in the elements of its list.
Bytes(leaves) == {l.member : l \in {l \in Range(leaves) : l.type \in {"string", "binary"}}}
Layouts(shim, p) == {q.layout : q \in {q \in Range(shim.reads \o shim.writes) : q.name = p}}

Pointers(shim, p) ==
    UNION {{<<p, 0, f>> : f \in Bytes(l.head)} \cup (IF IsList(l) THEN {Elements(p)} ELSE {}) : l \in Layouts(shim, p)}

ElementPointers(shim, p, n) ==
    UNION {{<<p, k, f>> : k \in 1 .. n, f \in Bytes(l.each)} : l \in Layouts(shim, p)}

Unset(paths) == [q \in paths |-> "unset"]

\* The function f, and g where f is not defined: the @@ of TLC, which has no definition to
\* expand in a proof.
Over(f, g) == [q \in DOMAIN f \cup DOMAIN g |-> IF q \in DOMAIN f THEN f[q] ELSE g[q]]

\* erpc_malloc of the structs of the parameters ps, failing for some: the members of
\* the others are not set.
Structs(shim, ps, failed) ==
    Over([q \in {Self(p) : p \in ps} |-> IF q \in {Self(p) : p \in failed} THEN "null" ELSE "live"],
         Unset(UNION {Pointers(shim, p) : p \in ps \ failed}))

-----------------------------------------------------------------------------
(* The handlers, as far as their memory and their results go: the members  *)
(* of the result's struct each sets, those of the elements of its list,    *)
(* and what a fault leaves at NULL and unset instead.                      *)

May(site) == faults > 0 /\ <<call.method, site>> \in Failing

Sets(p, members) == {<<p, 0, f>> : f \in members}
SetsEach(p, n, members) == {<<p, k, f>> : k \in 1 .. n, f \in members}
Blank(null, unset) == [null |-> null, unset |-> unset]
Fine == Blank({}, {})

AppendChunkToBlob_sets == Sets("newBlobID", {"data"})
AppendChunkToBlob_faults == {Blank(AppendChunkToBlob_sets, AppendChunkToBlob_sets)}

SeedBlob_sets == Sets("blobID", {"data"})
SeedBlob_faults == {Blank(SeedBlob_sets, SeedBlob_sets)}

GetPLCID_sets == Sets("plcID", {"ID", "PSK"})
GetPLCID_faults == {Blank(Sets("plcID", {f}), Sets("plcID", {f})) : f \in {"ID", "PSK"}}

\* Without a log file only msg is set, to NULL.
GetLogMessage_sets == Sets("message", {"msg", "tick", "sec", "nsec"})
GetLogMessage_faults ==
    (IF May("handler") THEN {Blank(Sets("message", {"msg"}), Sets("message", {"msg"}))} ELSE {})
    \cup (IF May("nofile") THEN {Blank(Sets("message", {"msg"}), GetLogMessage_sets)} ELSE {})

GetPLCstatus_sets == Sets("status", {"PLCstatus", "logcounts"})

GetTraceVariables_sets(n) ==
    Sets("traces", {"PLCstatus", "elements"}) \cup SetsEach("traces", n, {"tick", "TraceBuffer"})

\* Without memory there are no elements and no elementsCount, or a sample without its bytes.
GetTraceVariables_faults(n) ==
    {Blank({Elements("traces")}, GetTraceVariables_sets(n) \ Sets("traces", {"PLCstatus"}))}
    \cup {Blank({<<"traces", k, "TraceBuffer">>}, {<<"traces", k, f>> : f \in {"tick", "TraceBuffer"}}) : k \in 1 .. n}

MatchMD5_sets == {Self("match")}
NewPLC_sets == {Self("success")}
SetTraceVariablesList_sets == {Self("debugtoken")}
StopPLC_sets == {Self("success")}

ResultsSet(n) ==
    [AppendChunkToBlob |-> AppendChunkToBlob_sets, SeedBlob |-> SeedBlob_sets, GetPLCID |-> GetPLCID_sets,
     GetLogMessage |-> GetLogMessage_sets, GetPLCstatus |-> GetPLCstatus_sets,
     GetTraceVariables |-> GetTraceVariables_sets(n), MatchMD5 |-> MatchMD5_sets, NewPLC |-> NewPLC_sets,
     SetTraceVariablesList |-> SetTraceVariablesList_sets, StopPLC |-> StopPLC_sets,
     PurgeBlobs |-> {}, RepairPLC |-> {}, ResetLogCount |-> {}, StartPLC |-> {}][call.method]

Faulty(n) ==
    IF call.method = "GetLogMessage" THEN GetLogMessage_faults
    ELSE IF ~May("handler") THEN {}
    ELSE IF call.method = "AppendChunkToBlob" THEN AppendChunkToBlob_faults
    ELSE IF call.method = "SeedBlob" THEN SeedBlob_faults
    ELSE IF call.method = "GetPLCID" THEN GetPLCID_faults
    ELSE IF call.method = "GetTraceVariables" THEN GetTraceVariables_faults(n)
    ELSE {}

\* A list of n samples; the single sample that tells of a wrong token has length 0.
Lengths == IF call.method = "GetTraceVariables" THEN (1 .. MaxList) \X {TRUE} \cup {<<1, FALSE>>} ELSE {<<0, TRUE>>}

\* NewPLC allocates a block for every extra file it comes to, and loses it.
ExtraFiles == IF call.method = "NewPLC" THEN 0 .. call.n ELSE {0}
LostBlocks(n) == [q \in SetsEach("extra_files_blob", n, {"data"}) |-> "live"]

Handle(n, full, blank, extra) ==
    LET shim == handleInvocation[call.method]
        leaves == Range(AllLeaves(shim.writes, n))
        set == ResultsSet(n) \ blank.unset
        points == (UNION {Pointers(shim, p) \cup ElementPointers(shim, p, n) : p \in Range(shim.after)})
                  \cap (set \cup blank.null)
    IN  /\ given' = {<<l.path, Value(l, n, full)>> : l \in {l \in leaves : l.path \in set}}
        /\ mem' = Over([q \in points |-> IF q \in blank.null THEN "null" ELSE "live"],
                       Over(LostBlocks(extra), mem))
        /\ count' = Over([p \in {q[1] : q \in {q \in set : q[3] = "elements"}} |-> n], count)

-----------------------------------------------------------------------------
(* rpc_server_task: setting up                                             *)

\* A step of the set-up creates what, or fails and cleans up.
Create(from, what, to, cleanup) ==
    /\ task = from
    /\ \/ held' = held \cup {what} /\ task' = to /\ UNCHANGED faults
       \/ /\ faults > 0 /\ faults' = faults - 1
          /\ held' = held \ cleanup /\ task' = "transport"
    /\ UNCHANGED <<connected, call, messages, memory, answer>>

InitTransport == Create("transport", "transport", "factory", {})
InitFactory == Create("factory", "factory", "server", {"transport"})
InitServer == Create("server", "server", "service", {"factory", "transport"})
InitService == Create("service", "service", "poll", {"server", "factory", "transport"})

Failed == IF answer.at = "waiting" THEN [at |-> "error", got |-> {}] ELSE answer

StopForGood ==
    /\ task = "stop"
    /\ held' = held \ {"service", "server", "factory", "transport"}
    /\ connected' = FALSE
    /\ answer' = Failed
    /\ UNCHANGED <<task, call, messages, memory, faults>>

\* Error of a call or of the transport: everything is torn down, the connection with it.
Stop ==
    /\ task = "stop"
    /\ held' = held \ {"service", "server", "factory", "transport"}
    /\ connected' = FALSE
    /\ answer' = Failed
    /\ task' = "transport"
    /\ UNCHANGED <<call, messages, memory, faults>>

-----------------------------------------------------------------------------
(* A call *)

FailedStructs(ps) == {{}} \cup (IF May("struct") THEN {{p} : p \in Range(ps)} ELSE {})
Spent(failed) == faults' = IF failed = {} THEN faults ELSE faults - 1

\* A parameter whose struct could not be allocated is not read.
Readable(params, failed) ==
    [i \in DOMAIN params |->
        IF params[i].name \in failed THEN Param(params[i].name, Struct(<<>>)) ELSE params[i]]

\* The structs of the arguments are allocated, and those that could be will be read.
\* A string argument is a pointer that is NULL until it is read.
Receive ==
    /\ task = "poll" /\ answer.at = "waiting"
    /\ LET shim == handleInvocation[call.method]
           strings == {p \in Range(shim.reads) : p.layout = Scalar("string")}
       IN  \E failed \in FailedStructs(shim.before) :
              /\ mem' = Over([q \in {Self(p.name) : p \in strings} |-> "null"],
                           Structs(shim, Range(shim.before), failed))
              /\ status' = IF failed = {} THEN "ok" ELSE "memory"
              /\ todo' = AllLeaves(Readable(shim.reads, failed), 0)
              /\ Spent(failed)
    /\ task' = "decode"
    /\ count' = <<>> /\ seen' = {} /\ given' = {} /\ reply' = <<>>
    /\ UNCHANGED <<held, connected, call, request, answer>>

\* The next field of the request, which after an error, or if it is not what is wanted,
\* is empty.
Field == Head(todo)
Wanted == status = "ok" /\ request # <<>> /\ Head(request)[1] = Field.type
Got == IF Wanted THEN Head(request)[2] ELSE <<>>

\* The status after the field has been read and, if failed, not stored.
Outcome(failed) == IF failed \/ (status = "ok" /\ ~Wanted) THEN IF failed THEN "memory" ELSE "overrun" ELSE status

PointerKept(copied, failed) == IF copied THEN (IF failed THEN "null" ELSE "live") ELSE "unset"

Pointer(copied, failed) == IF copied /\ ~failed THEN "live" ELSE "null"

\* A field is taken from the request.  A string is copied to an allocated buffer, also
\* when it is empty, a binary when it is not.
ReadField ==
    /\ task = "decode" /\ todo # <<>> /\ Field.type # "list"
    /\ LET copied == Field.type = "string" \/ (Field.type = "binary" /\ Got # <<>>)
       IN  \E failed \in {FALSE} \cup (IF copied /\ May("content") THEN {TRUE} ELSE {}) :
              /\ mem' = IF Field.path \in DOMAIN mem
                        THEN [mem EXCEPT ![Field.path] = Pointer(copied, failed)] ELSE mem
              /\ status' = Outcome(failed)
              /\ Spent(IF failed THEN {Field} ELSE {})
    /\ seen' = seen \cup {<<Field.path, Got>>}
    /\ request' = IF Wanted THEN Tail(request) ELSE request
    /\ todo' = Tail(todo)
    /\ UNCHANGED <<task, held, connected, call, reply, count, given, answer>>

AnnouncedOneMore == IF Wanted THEN Got[1] + 1 ELSE 0

Announced == IF Wanted THEN Got[1] ELSE 0

\* The length of a list, and the array of its elements, which are read next.
ReadList ==
    /\ task = "decode" /\ todo # <<>> /\ Field.type = "list"
    /\ LET shim == handleInvocation[call.method]
           p == Field.path[1]
           n == Announced
           param == CHOOSE q \in Range(shim.reads) : q.name = p
       IN  \E failed \in {FALSE} \cup (IF n > 0 /\ May("elements") THEN {TRUE} ELSE {}) :
              /\ mem' = Over([q \in {Elements(p)} |-> IF failed THEN "null" ELSE "live"],
                             Over(Unset(IF failed THEN {} ELSE ElementPointers(shim, p, n)), mem))
              /\ count' = Over([q \in {p} |-> n], count)
              /\ todo' = Tail(Leaves(param, n)) \o Tail(todo)
              /\ status' = Outcome(failed)
              /\ Spent(IF failed THEN {Field} ELSE {})
    /\ seen' = seen \cup {<<Field.path, Got>>}
    /\ request' = IF Wanted THEN Tail(request) ELSE request
    /\ UNCHANGED <<task, held, connected, call, reply, given, answer>>

\* The structs of the results are allocated, and the handler is called unless something failed.
Decoded ==
    /\ task = "decode" /\ todo = <<>>
    /\ LET shim == handleInvocation[call.method]
       IN  \E failed \in FailedStructs(shim.after) :
              /\ mem' = Over(Structs(shim, Range(shim.after), failed), mem)
              /\ status' = IF failed = {} THEN status ELSE "memory"
              /\ Spent(failed)
    /\ task' = IF status' = "ok" THEN "invoke" ELSE "release"
    /\ UNCHANGED <<held, connected, call, request, reply, todo, count, seen, given, answer>>

Invoke ==
    /\ task = "invoke"
    /\ \E l \in Lengths, extra \in ExtraFiles : \E blank \in {Fine} \cup Faulty(l[1]) :
          /\ Handle(l[1], l[2], blank, extra)
          /\ faults' = IF blank = Fine THEN faults ELSE faults - 1
    /\ task' = "encode"
    /\ UNCHANGED <<held, connected, call, messages, seen, answer>>

\* The fields of the reply, from what is in memory.
ListLength(p) == IF p \in DOMAIN count THEN count[p] ELSE MaxList
Written ==
    LET params == handleInvocation[call.method].writes
    IN  FlattenSeq([i \in DOMAIN params |-> Leaves(params[i], IF IsList(params[i].layout) THEN ListLength(params[i].name) ELSE 0)])

Stored(path) == IF \E v \in given : v[1] = path THEN (CHOOSE v \in given : v[1] = path)[2] ELSE Junk

\* There is no buffer for the reply, or the reply does not fit into it.
Encode ==
    /\ task = "encode"
    /\ \/ /\ reply' = [i \in DOMAIN Written |-> <<Written[i].type, Stored(Written[i].path)>>]
          /\ UNCHANGED <<status, faults>>
       \/ /\ \E site \in {"buffer", "overrun"} :
                May(site) /\ status' = IF site = "buffer" THEN "memory" ELSE "overrun"
          /\ faults' = faults - 1
          /\ UNCHANGED reply
    /\ task' = "release"
    /\ UNCHANGED <<held, connected, call, request, todo, memory, answer>>

\* What the shim passes to erpc_free, in order.  A parameter whose struct was not allocated
\* when the shim gave up is NULL.
FreesOf(param) ==
    LET p == param.name
        head == [i \in DOMAIN param.layout.head |-> <<p, 0, param.layout.head[i]>>]
        each(k) == [i \in DOMAIN param.layout.each |-> <<p, k, param.layout.each[i]>>]
        list == FlattenSeq([k \in 1 .. ListLength(p) |-> each(k)]) \o <<Elements(p)>>
    IN  IF Self(p) \notin DOMAIN mem THEN <<>>
        ELSE IF mem[Self(p)] = "null" THEN <<Self(p)>>
        ELSE head \o (IF IsList(param.layout) THEN list ELSE <<>>) \o <<Self(p)>>

Frees ==
    LET params == handleInvocation[call.method].frees
    IN  FlattenSeq([i \in DOMAIN params |-> FreesOf(params[i])])

Release ==
    /\ task = "release"
    /\ mem' = [q \in DOMAIN mem \ Range(Frees) |-> mem[q]]
    /\ task' = IF status = "ok" THEN "send" ELSE "stop"
    /\ UNCHANGED <<held, connected, call, messages, count, seen, given, answer, faults>>

\* What the client reads from the reply.
Answer ==
    LET n == IF \E i \in DOMAIN reply : reply[i][1] = "list" THEN (CHOOSE f \in Range(reply) : f[1] = "list")[2][1] ELSE 0
        leaves == AllLeaves(BeremizPLCObjectService_client[call.method].reads, n)
    IN  IF Len(reply) = Len(leaves) /\ \A i \in DOMAIN leaves : leaves[i].type = reply[i][1]
        THEN [at |-> "ok", got |-> {<<leaves[i].path, reply[i][2]>> : i \in DOMAIN leaves}]
        ELSE [at |-> "error", got |-> {}]

\* With the client gone, the transport reports that it could not send or that the
\* connection was closed.
Send ==
    /\ task = "send"
    /\ \/ connected /\ answer' = Answer /\ task' = "poll"
       \/ ~connected /\ task' \in {"poll", "stop"} /\ UNCHANGED answer
    /\ UNCHANGED <<held, connected, call, messages, memory, faults>>

Server ==
    \/ InitTransport \/ InitFactory \/ InitServer \/ InitService
    \/ Receive \/ ReadField \/ ReadList \/ Decoded \/ Invoke \/ Encode \/ Release \/ Send \/ Stop

-----------------------------------------------------------------------------
(* The client and the network *)

Connect ==
    /\ task = "poll" /\ ~connected
    /\ connected' = TRUE
    /\ UNCHANGED <<task, held, call, messages, memory, answer, faults>>

Call(m, n, full) ==
    /\ task = "poll" /\ connected /\ answer.at # "waiting"
    /\ call' = [method |-> m, n |-> n, full |-> full]
    /\ request' = Request(call')
    /\ answer' = [at |-> "waiting", got |-> {}]
    /\ UNCHANGED <<task, held, connected, reply, todo, status, memory, faults>>

Disconnect ==
    /\ connected /\ faults > 0
    /\ connected' = FALSE
    /\ faults' = faults - 1
    /\ answer' = Failed
    /\ task' \in IF task = "poll" THEN {"poll", "stop"} ELSE {task}
    /\ UNCHANGED <<held, call, messages, memory>>

Init ==
    /\ task = "transport" /\ held = {} /\ connected = FALSE
    /\ call = Idle /\ request = <<>> /\ reply = <<>> /\ todo = <<>> /\ status = "ok"
    /\ mem = <<>> /\ count = <<>> /\ seen = {} /\ given = {}
    /\ answer = [at |-> "none", got |-> {}]
    /\ faults = MaxFaults

Next ==
    \/ Server \/ Connect \/ Disconnect
    \/ \E m \in Methods, n \in 0 .. MaxList, full \in BOOLEAN : Call(m, n, full)

Spec == Init /\ [][Next]_vars /\ WF_vars(Server) /\ WF_vars(Connect)

-----------------------------------------------------------------------------
(* Properties *)

\* What the shims and the handlers may fail at without being prepared for it: a handler that
\* allocates a result and gets no memory, or no log file; a result that was allocated
\* before the request failed is freed unset; the elements of a list that was not
\* allocated are read and freed.
NotHandled ==
    {<<m, "handler">> : m \in Methods} \cup {<<"GetLogMessage", "nofile">>}
    \cup ({"AppendChunkToBlob", "SeedBlob"} \X {"struct", "content"})
    \cup ({"NewPLC", "SetTraceVariablesList"} \X {"elements"})

Tasks == {"transport", "factory", "server", "service", "poll", "decode", "invoke", "encode", "release", "send", "stop"}

\* The variables have their types, and the server polls only when all is set up.
TypeOK ==
    /\ task \in Tasks
    /\ held \subseteq {"transport", "factory", "server", "service"}
    /\ connected \in BOOLEAN
    /\ call = Idle \/ call \in [method : Methods, n : 0 .. MaxList, full : BOOLEAN]
    /\ status \in {"ok", "memory", "overrun"}
    /\ \A p \in DOMAIN count : count[p] \in 0 .. MaxList
    /\ \A q \in DOMAIN mem : mem[q] \in {"unset", "null", "live"}
    /\ answer.at \in {"none", "waiting", "ok", "error"}
    /\ faults \in 0 .. MaxFaults

\* A handler is called with the arguments its caller sent, every member where the
\* handler expects it, and the caller gets the results the handler set.
CallsFaithful ==
    /\ task \in {"invoke", "encode"} => seen = Arguments(call)
    /\ answer.at = "ok" => seen = Arguments(call) /\ answer.got = given

\* A shim frees only what was allocated or is NULL, never a member that nobody set,
\* nor anything twice.
FreesAreSound ==
    task = "release" =>
        /\ \A i \in DOMAIN Frees : Frees[i] \in DOMAIN mem /\ mem[Frees[i]] # "unset"
        /\ \A i, j \in DOMAIN Frees : i # j /\ mem[Frees[i]] = "live" => Frees[i] # Frees[j]

\* Whatever fails, a call gives back all the memory it took, except the block that
\* NewPLC loses for every extra file, and the server all it created before it is
\* set up again.
NothingKept ==
    /\ task \notin {"decode", "invoke", "encode", "release"} =>
          \A q \in DOMAIN mem : mem[q] = "live" => q[1] = "extra_files_blob"
    /\ task = "transport" => held = {}
    /\ task = "poll" => held = {"transport", "factory", "server", "service"}

\* After any faults the server is there again and can be connected to, and every
\* call returns.
ServesAgain ==
    /\ []<>(task = "poll" /\ connected)
    /\ (answer.at = "waiting") ~> (answer.at # "waiting")
=============================================================================
