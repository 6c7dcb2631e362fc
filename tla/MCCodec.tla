------------------------------ MODULE MCCodec -------------------------------
(***************************************************************************)
(* The arguments of a fence on their way.  Either one upcall is followed   *)
(* from the server thread (fence_server_cb) to the shell thread            *)
(* (fence_shell_cb): its procs, its infos and the pointer to call back.    *)
(* Or the data of a whole exchange is: shells contribute blobs one after   *)
(* the other, and their strings are decoded into one buffer at the end.    *)
(* The two have no state in common.                                        *)
(***************************************************************************)
EXTENDS Codec

CONSTANTS UpcallTypes,  \* types of the values in the infos
          MaxInfo,      \* bound: infos of an upcall
          Bytes,        \* bytes of the short blobs
          MaxShort,     \* bound: longest blob with any contents
          MaxLong,      \* bound: longest blob with fixed contents
          MaxBlobs      \* bound: contributions to the exchange

ASSUME UpcallAssumption == UpcallTypes \subseteq Types /\ MaxInfo \in Nat
ASSUME BlobAssumption == /\ Bytes \subseteq Byte
                         /\ MaxShort \in Nat /\ MaxLong \in Nat /\ MaxBlobs \in Nat

VARIABLES at,           \* where the upcall is, or the exchange
          args,         \* what the server called with
          msg,          \* the message, Failed before and if it cannot be made
          call,         \* what the handler decoded, Failed before
          heap,         \* blocks allocated on the shell thread
          blobs,        \* what was contributed, in order
          data_out,     \* the encoded contributions
          refused,      \* length of the latest blob that could not be encoded, or -1
          result        \* what the caller is given, Failed before

upcall == <<args, msg, call, heap>>
gather == <<blobs, data_out, refused, result>>
vars == <<at, args, msg, call, heap, blobs, data_out, refused, result>>

Procs == [nspace : {0, NameMax}, rank : Edges("PMIX_PROC_RANK")]

\* The values of a type that the code could treat differently.
Data(t) == CASE t \in IntTypes -> Edges(t)
             [] t = "PMIX_BOOL" -> BOOLEAN
             [] t = "PMIX_STRING" -> {"text"} \cup NotText
             [] t \in {"PMIX_FLOAT", "PMIX_DOUBLE"} -> {"1.5"} \cup NotReal
             [] t = "PMIX_PROC" -> Procs
             [] OTHER -> {"opaque"}

\* With the longest key and all flags set.
Info(t, d) == [key |-> NameMax, flags |-> Unsigned(-1, 4), value |-> [type |-> t, data |-> d]]
Infos == UNION {{Info(t, d) : d \in Data(t)} : t \in UpcallTypes}

Blobs == UNION {[1 .. n -> Bytes] : n \in 0 .. MaxShort}
            \cup {[i \in 1 .. n |-> i] : n \in MaxShort + 1 .. MaxLong}

Init == /\ at \in {"client", "exchange"}
        /\ \E proc \in Procs, cbdata \in {0, Unsigned(-1, 8)} :
              /\ at = "exchange" => proc.nspace = 0 /\ proc.rank = 0 /\ cbdata = 0
              /\ args = [procs |-> <<proc>>, cbdata |-> cbdata, info |-> <<>>]
        /\ msg = Failed
        /\ call = Failed
        /\ heap = 0
        /\ blobs = <<>>
        /\ data_out = <<>>
        /\ refused = -1
        /\ result = Failed

-----------------------------------------------------------------------------
\* External: the server gathers the infos of the upcall.
AddInfo(info) == /\ at = "client"
                 /\ Len(args.info) < MaxInfo
                 /\ args' = [args EXCEPT !.info = Append(@, info)]
                 /\ UNCHANGED <<gather, at, msg, call, heap>>

\* fence_server_cb: encode everything or return an error.
Encode ==
    LET xinfo == codec_info_array_encode(args.info)
    IN  /\ at = "client"
        /\ \/ /\ xinfo.ok
              /\ msg' = Result([procs |-> codec_proc_array_encode(args.procs),
                                cbdata |-> codec_pointer_encode(args.cbdata),
                                info |-> xinfo.value])
              /\ at' = "channel"
           \/ ~xinfo.ok /\ at' = "refused" /\ UNCHANGED msg
        /\ UNCHANGED <<gather, args, call, heap>>

\* fence_shell_cb: decode everything, or drop the message and destroy the call
\* with what it holds.
Decode ==
    /\ at = "channel"
    /\ \E procs \in codec_proc_array_decode(msg.value.procs),
          info \in codec_info_array_decode(msg.value.info) :
          \/ /\ procs.ok /\ info.ok
             /\ call' = Result([procs |-> procs.value,
                                cbdata |-> codec_pointer_decode(msg.value.cbdata),
                                info |-> info.value])
             /\ heap' = heap + procs.allocated + info.allocated
             /\ at' = "handler"
          \/ /\ procs.ok /\ ~info.ok
             /\ heap' = heap + info.leaked
             /\ at' = IF info.why = "memory" THEN "no memory" ELSE "dropped"
             /\ UNCHANGED call
          \/ ~procs.ok /\ at' = "no memory" /\ UNCHANGED <<call, heap>>
    /\ UNCHANGED <<gather, args, msg>>

\* fence_call_destroy, when the call has been answered.
Release == /\ at = "handler"
           /\ heap' = heap - 1 - codec_info_array_destroy(call.value.info)
           /\ at' = "done"
           /\ UNCHANGED <<gather, args, msg, call>>

-----------------------------------------------------------------------------
\* fence_server_cb: the blob of an upcall is encoded, or the upcall fails.
Contribute(data) ==
    LET o == codec_data_encode(data)
    IN  /\ at = "exchange"
        /\ Len(blobs) < MaxBlobs
        /\ \/ /\ o.ok
              /\ blobs' = Append(blobs, data)
              /\ data_out' = Append(data_out, o.value)
              /\ UNCHANGED refused
           \/ /\ ~o.ok
              /\ refused' = Len(data)
              /\ UNCHANGED <<blobs, data_out>>
        /\ UNCHANGED <<upcall, at, result>>

\* exchange_exit_cb asks for the data.
GetData == /\ at = "exchange"
           /\ result' = exchange_get_data(data_out)
           /\ at' = "gathered"
           /\ UNCHANGED <<upcall, blobs, data_out, refused>>

Next == \/ \E info \in Infos : AddInfo(info)
        \/ Encode
        \/ Decode
        \/ Release
        \/ \E data \in Blobs : Contribute(data)
        \/ GetData

Spec == Init /\ [][Next]_vars

-----------------------------------------------------------------------------
\* The handler is called with what the server passed: "encode/decode functions
\* betwen pmix data structures and json" are inverse to each other on the
\* extreme values of every type, although json knows one signed integer type
\* only and ranks and flags go through an int.  What was sent is dropped only
\* when memory runs out.
DecodeUndoesEncode ==
    /\ at \in {"handler", "done"} => call.value = args
    /\ at # "dropped"

\* What decoding allocated is freed exactly once by the time the upcall is over:
\* "memory is allocated and assigned to value->data that must be freed with
\* codec_value_release()".  Nothing is claimed when memory runs out half-way
\* through the infos: codec_info_array_decode leaks then.
NothingLeft == at \in {"done", "dropped", "refused"} => heap = 0

\* The callers of a fence get exactly the bytes that were contributed, each
\* blob behind the other: exchange_get_data's one buffer, sized from the
\* encoded strings, always has room for the blob that is decoded next.  A blob
\* is left out only if its encoding does not fit an int: for lengths where
\* xlength wraps around the encoder notices, and refuses instead of cutting.
DataSurvives == [][/\ GetData => /\ result'.ok
                                 /\ result'.value = FlattenSeq(blobs)
                   /\ refused' >= 0 => base64_encoded_length(refused') + 1 >= 2 ^ (IntBits - 1)]_vars

=============================================================================
