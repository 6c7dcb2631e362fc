------------------------------- MODULE Codec --------------------------------
(***************************************************************************)
(* src/shell/plugins/codec.c: how the arguments of an upcall, pointers,    *)
(* procs and infos with their typed values, become json on the server      *)
(* thread and C structures again on the shell thread.                      *)
(*                                                                         *)
(* An integer keeps its width: a byte has ByteValues values, a parameter so *)
(* that the model checker's numbers stay small.  Text that is only         *)
(* copied is a token.  A name in a fixed array, nspace or key, is its      *)
(* length.  A decoder returns a set of outcomes, as memory may run out     *)
(* and one type is decoded with undefined behaviour.                       *)
(***************************************************************************)
EXTENDS Base64, FiniteSets

CONSTANTS ByteValues,   \* values of a byte, 256 in the builds of the code
          NameMax,      \* PMIX_MAX_NSLEN and PMIX_MAX_KEYLEN
          AllocFails    \* memory may run out while decoding

ASSUME CodecAssumption == /\ ByteValues \in Nat \ {0} /\ ByteValues % 2 = 0
                          /\ NameMax \in Nat
                          /\ AllocFails \in BOOLEAN

\* A decoder succeeds with v and the blocks it has allocated for it, or fails
\* for want of memory or because it cannot read the json.
Holding(v, n) == [ok |-> TRUE, value |-> v, allocated |-> n]
NoMemory == [ok |-> FALSE, why |-> "memory"]
Unreadable == [ok |-> FALSE, why |-> "json"]

\* A block is allocated for v, unless memory runs out.
Allocated(v) == {Holding(v, 1)} \cup (IF AllocFails THEN {NoMemory} ELSE {})

\* The values of an integer of this many bytes.
Values(bytes) ==
    LET two  == ByteValues * ByteValues
        four == two * two
    IN  CASE bytes = 1 -> ByteValues [] bytes = 2 -> two
          [] bytes = 4 -> four       [] bytes = 8 -> four * four
Half(bytes) == Values(bytes) \div 2

\* What a C integer of this many bytes keeps of n.
Unsigned(n, bytes) == n % Values(bytes)
Signed(n, bytes) == ((n + Half(bytes)) % Values(bytes)) - Half(bytes)

\* The integer members of pmix_value_t: their bytes, and which are signed.
SignedTypes == {"PMIX_PID", "PMIX_INT", "PMIX_INT8", "PMIX_INT16", "PMIX_INT32",
                "PMIX_INT64", "PMIX_TIME", "PMIX_STATUS"}
IntTypes == SignedTypes \cup {"PMIX_BYTE", "PMIX_SIZE", "PMIX_UINT", "PMIX_UINT8", "PMIX_UINT16",
                              "PMIX_UINT32", "PMIX_UINT64", "PMIX_PROC_RANK"}
Width(t) == CASE t \in {"PMIX_BYTE", "PMIX_INT8", "PMIX_UINT8"} -> 1
              [] t \in {"PMIX_INT16", "PMIX_UINT16"} -> 2
              [] t \in {"PMIX_SIZE", "PMIX_INT64", "PMIX_UINT64", "PMIX_TIME"} -> 8
              [] OTHER -> 4

\* n assigned to the member of type t.
Store(t, n) == IF t \in SignedTypes THEN Signed(n, Width(t)) ELSE Unsigned(n, Width(t))

\* The least and the greatest value of type t, and the ones around zero.
Edges(t) == LET half == Half(Width(t))
            IN  {Store(t, n) : n \in {-half, -1, 0, 1, half - 1}}

-----------------------------------------------------------------------------
\* External: jansson.  json_int_t is a signed integer of eight bytes, and the
\* format "i" goes through an int.
json_integer(n) == Signed(n, 8)
json_pack_i(n) == Signed(n, 4)
json_unpack_i(n) == Signed(n, 4)

\* strlcpy, on lengths: at most siz - 1 characters are copied.
strlcpy(len, siz) == IF len < siz THEN len ELSE siz - 1

codec_pointer_encode(ptr) == json_integer(ptr)
codec_pointer_decode(o) == Unsigned(o, 8)

codec_proc_encode(proc) == [nspace |-> proc.nspace, rank |-> json_pack_i(proc.rank)]

\* Mutant: the rank is kept as the int it was read into.
codec_proc_decode_signed(o) ==
    [nspace |-> strlcpy(o.nspace, NameMax + 1), rank |-> json_unpack_i(o.rank)]

codec_proc_decode(o) ==
    [nspace |-> strlcpy(o.nspace, NameMax + 1),
     rank |-> Unsigned(json_unpack_i(o.rank), 4)]

codec_proc_array_encode(procs) == [i \in DOMAIN procs |-> codec_proc_encode(procs[i])]

\* The array is one block.
codec_proc_array_decode(o) ==
    Allocated([i \in DOMAIN o |-> codec_proc_decode(o[i])])

-----------------------------------------------------------------------------
\* Types without a case in codec_value_encode, PMIX_BYTE_OBJECT for one.
OtherTypes == {"PMIX_BYTE_OBJECT"}

Types == IntTypes \cup OtherTypes
            \cup {"PMIX_BOOL", "PMIX_STRING", "PMIX_FLOAT", "PMIX_DOUBLE",
                  "PMIX_TIMEVAL", "PMIX_PROC"}

\* External: what json_string and json_real do not represent.
NotText == {"NULL", "not utf8"}
NotReal == {"nan", "inf"}

\* The json a value becomes, with its type beside it, or Failed.
codec_value_encode(value) ==
    LET t == value.type
        d == value.data
        o(data) == Result([type |-> t, data |-> data])
    IN  CASE t \in IntTypes -> o(json_integer(d))
          [] t = "PMIX_STRING" -> IF d \in NotText THEN Failed ELSE o(d)
          [] t \in {"PMIX_FLOAT", "PMIX_DOUBLE"} -> IF d \in NotReal THEN Failed ELSE o(d)
          [] t \in {"PMIX_BOOL", "PMIX_TIMEVAL"} -> o(d)
          [] t = "PMIX_PROC" -> o(codec_proc_encode(d))
          [] t \in OtherTypes -> Failed

\* The types whose values own a block (codec_value_release frees it).
Owning == {"PMIX_STRING", "PMIX_PROC"}

(***************************************************************************)
(* For PMIX_TIMEVAL, json_unpack is given no keys: it takes the address of *)
(* sec, which is not initialized, for a string and looks for a member of   *)
(* that name, which fails unless it crashes.                               *)
(***************************************************************************)
codec_value_decode(o) ==
    LET t == o.type
        value(data) == [type |-> t, data |-> data]
    IN  CASE t \in IntTypes -> {Holding(value(Store(t, o.data)), 0)}
          [] t \in {"PMIX_BOOL", "PMIX_FLOAT", "PMIX_DOUBLE"} -> {Holding(value(o.data), 0)}
          [] t = "PMIX_STRING" -> Allocated(value(o.data))
          [] t = "PMIX_PROC" -> Allocated(value(codec_proc_decode(o.data)))
          [] t = "PMIX_TIMEVAL" -> {Unreadable}

codec_info_encode(info) ==
    LET v == codec_value_encode(info.value)
    IN  IF ~v.ok THEN Failed
        ELSE Result([key |-> info.key, flags |-> json_pack_i(info.flags),
                     value |-> v.value])

codec_info_decode(o) ==
    {IF ~v.ok THEN v
     ELSE Holding([key |-> strlcpy(o.key, NameMax + 1),
                   flags |-> Unsigned(json_unpack_i(o.flags), 4),
                   value |-> v.value], v.allocated) : v \in codec_value_decode(o.value)}

codec_info_array_encode(info) ==
    LET entry == [i \in DOMAIN info |-> codec_info_encode(info[i])]
    IN  IF \E i \in DOMAIN info : ~entry[i].ok THEN Failed
        ELSE Result([i \in DOMAIN info |-> entry[i].value])

(***************************************************************************)
(* The entries are decoded in order, each of which may hold a block.  If   *)
(* one fails, the array is freed but what the entries before it hold is    *)
(* not: outcome.leaked blocks stay.                                        *)
(***************************************************************************)
codec_info_array_decode(o) ==
    LET decoded == {e \in [DOMAIN o -> UNION {codec_info_decode(o[i]) : i \in DOMAIN o}] :
                       \A i \in DOMAIN o : e[i] \in codec_info_decode(o[i])}
        failing(e) == {i \in DOMAIN o : ~e[i].ok}
        holding(e, n) == Cardinality({i \in 1 .. n : e[i].allocated = 1})
        first(e) == Min(failing(e))
    IN  {IF failing(e) = {}
         THEN Holding([i \in DOMAIN o |-> e[i].value], 1 + holding(e, Len(o)))
         ELSE [ok |-> FALSE, why |-> e[first(e)].why, leaked |-> holding(e, first(e) - 1)] :
            e \in decoded}
        \cup IF AllocFails THEN {[ok |-> FALSE, why |-> "memory", leaked |-> 0]} ELSE {}

\* Mutant: only strings are released.
codec_info_array_destroy_strings(info) ==
    1 + Cardinality({i \in DOMAIN info : info[i].value.type = "PMIX_STRING"})

\* codec_info_array_destroy: the number of blocks it frees.
codec_info_array_destroy(info) ==
    1 + Cardinality({i \in DOMAIN info : info[i].value.type \in Owning})

=============================================================================
