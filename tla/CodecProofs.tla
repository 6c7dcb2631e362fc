---------------------------- MODULE CodecProofs -----------------------------
(***************************************************************************)
(* The arguments of an upcall survive the codec and what decoding them     *)
(* allocates is freed, for bytes of any even number of values, any number  *)
(* of infos, names of any length and whichever allocation fails, as long   *)
(* as no info is a PMIX_TIMEVAL.                                           *)
(***************************************************************************)
EXTENDS MCCodec, FiniteSetTheorems, WellFoundedInduction, TLAPS

-----------------------------------------------------------------------------
(* Integers of some width.                                                 *)

Widths == {1, 2, 4, 8}

LEMMA ModUnique ==
  ASSUME NEW m \in Nat \ {0}, NEW x \in Int, NEW k \in Int, NEW r \in 0 .. m - 1, x = k * m + r
  PROVE  x % m = r
<1>1. /\ x % m \in 0 .. m - 1 /\ x \div m \in Int
      /\ x = (x \div m) * m + (x % m)
  OBVIOUS
<1> DEFINE q == x \div m
           s == x % m
<1> HIDE DEF q, s
<1>2. q \in Int /\ s \in 0 .. m - 1 /\ q * m + s = k * m + r
  BY <1>1 DEF q, s
<1>3. (q - k) * m = r - s
  BY <1>2
<1>4. CASE q - k >= 1
  <2>1. (q - k) * m >= m
    BY <1>2, <1>4
  <2> QED
    BY <1>2, <1>3, <2>1
<1>5. CASE q - k <= -1
  <2>1. (q - k) * m <= -m
    BY <1>2, <1>5
  <2> QED
    BY <1>2, <1>3, <2>1
<1>6. CASE q = k
  BY <1>2, <1>3, <1>6 DEF s
<1> QED
  BY <1>2, <1>4, <1>5, <1>6

LEMMA ModRange ==
  ASSUME NEW m \in Nat \ {0}, NEW x \in Int
  PROVE  x % m \in 0 .. m - 1
  OBVIOUS

\* Every width has an even number of values, and the fewer bytes the fewer.
LEMMA Sizes ==
  /\ \A b \in Widths : Half(b) \in Nat \ {0} /\ Values(b) = 2 * Half(b)
  /\ \A b \in Widths \ {8} : Values(b) <= Half(8)
<1> DEFINE v == ByteValues
           h == v \div 2
           two == v * v
           four == two * two
           eight == four * four
<1>1. v \in Nat \ {0} /\ v % 2 = 0
  BY CodecAssumption
<1>2. h \in Nat \ {0} /\ v = 2 * h
  BY <1>1
<1> HIDE DEF v
<1>3. /\ Values(1) = v /\ Values(2) = two
      /\ Values(4) = four /\ Values(8) = eight
  BY DEF Values, v
<1> HIDE DEF h
<1>4. two \in Nat \ {0} /\ two = 2 * (h * v) /\ h * v \in Nat \ {0} /\ v <= two
  BY <1>1, <1>2
<1> HIDE DEF two
<1>5. four \in Nat \ {0} /\ four = 2 * ((h * v) * two) /\ (h * v) * two \in Nat \ {0} /\ two <= four
  <2> DEFINE hv == h * v
  <2> HIDE DEF hv
  <2>1. two \in Nat \ {0} /\ two = 2 * hv /\ hv \in Nat \ {0}
    BY <1>4 DEF hv
  <2>2. hv * two \in Nat \ {0}
    BY <2>1
  <2>3. two * two = 2 * (hv * two)
    BY <2>1
  <2>4. two <= two * two
    BY <2>1
  <2> QED
    BY <2>1, <2>2, <2>3, <2>4 DEF hv
<1> DEFINE quarter == (h * v) * two
<1> HIDE DEF four, quarter
<1>6. eight = 2 * (quarter * four) /\ quarter * four \in Nat \ {0} /\ four <= quarter * four
  <2>1. four \in Nat \ {0} /\ four = 2 * quarter /\ quarter \in Nat \ {0}
    BY <1>5 DEF quarter
  <2>2. quarter * four \in Nat \ {0} /\ four <= quarter * four
    BY <2>1
  <2>3. four * four = 2 * (quarter * four)
    BY <2>1
  <2> QED
    BY <2>2, <2>3
<1> DEFINE half == quarter * four
<1> HIDE DEF half, eight
<1>7. Half(8) = half /\ half \in Nat \ {0} /\ Values(8) = 2 * half
  BY <1>3, <1>6 DEF half, Half
<1>8. Half(4) = quarter /\ quarter \in Nat \ {0} /\ Values(4) = 2 * quarter
  BY <1>3, <1>5 DEF quarter, Half
<1>9. Half(2) = h * v /\ h * v \in Nat \ {0} /\ Values(2) = 2 * (h * v)
  <2> DEFINE hv == h * v
  <2> HIDE DEF hv
  <2>1. two = 2 * hv /\ hv \in Nat \ {0}
    BY <1>4 DEF hv
  <2> QED
    BY <2>1, <1>3 DEF hv, Half
<1>10. Half(1) = h /\ Values(1) = 2 * h
  BY <1>2, <1>3 DEF Half
<1>11. v <= two /\ two <= four /\ four <= half
  BY <1>4, <1>5, <1>6 DEF half
<1> QED
  BY <1>1, <1>2, <1>3, <1>4, <1>5, <1>7, <1>8, <1>9, <1>10, <1>11 DEF Widths
LEMMA SignedInRange ==
  ASSUME NEW n \in Int, NEW b \in Widths
  PROVE  Signed(n, b) \in -Half(b) .. Half(b) - 1
<1>1. Half(b) \in Nat \ {0} /\ Values(b) = 2 * Half(b)
  BY Sizes
<1>0. Values(b) \in Nat \ {0} /\ n + Half(b) \in Int
  BY <1>1
<1>2. (n + Half(b)) % Values(b) \in 0 .. Values(b) - 1
  BY <1>0, ModRange
<1> QED
  BY <1>1, <1>2 DEF Signed

LEMMA UnsignedInRange ==
  ASSUME NEW n \in Int, NEW b \in Widths
  PROVE  Unsigned(n, b) \in 0 .. Values(b) - 1
<1>1. Half(b) \in Nat \ {0} /\ Values(b) = 2 * Half(b)
  BY Sizes
<1>2. Values(b) \in Nat \ {0}
  BY <1>1
<1> QED
  BY <1>2, ModRange DEF Unsigned

\* An integer keeps what fits.
LEMMA SignedKeeps ==
  ASSUME NEW b \in Widths, NEW n \in -Half(b) .. Half(b) - 1
  PROVE  Signed(n, b) = n
<1>1. Half(b) \in Nat \ {0} /\ Values(b) = 2 * Half(b)
  BY Sizes
<1> DEFINE r == n + Half(b)
<1>2. r \in 0 .. Values(b) - 1 /\ r \in Int /\ r = 0 * Values(b) + r /\ Values(b) \in Nat \ {0}
  BY <1>1
<1> HIDE DEF r
<1>3. r % Values(b) = r
  BY <1>2, ModUnique
<1> QED
  BY <1>1, <1>3 DEF Signed, r

LEMMA UnsignedKeeps ==
  ASSUME NEW b \in Widths, NEW n \in 0 .. Values(b) - 1
  PROVE  Unsigned(n, b) = n
<1>1. Half(b) \in Nat \ {0} /\ Values(b) = 2 * Half(b)
  BY Sizes
<1>2. n \in Int /\ n = 0 * Values(b) + n /\ Values(b) \in Nat \ {0}
  BY <1>1
<1> QED
  BY <1>2, ModUnique DEF Unsigned

\* An unsigned integer survives a signed one of the same width.
LEMMA UnsignedAgain ==
  ASSUME NEW b \in Widths, NEW n \in 0 .. Values(b) - 1
  PROVE  Signed(n, b) \in Int /\ Unsigned(Signed(n, b), b) = n
<1> DEFINE V == Values(b)
           H == Half(b)
<1>1. H \in Nat \ {0} /\ V = 2 * H /\ V \in Nat \ {0}
  BY Sizes
<1> HIDE DEF V, H
<1>2. CASE n < H
  <2>1. n \in -H .. H - 1
    BY <1>1, <1>2 DEF V
  <2>2. Signed(n, b) = n
    BY <2>1, SignedKeeps DEF H
  <2> QED
    BY <1>1, <2>1, <2>2, UnsignedKeeps
<1>3. CASE n >= H
  <2>1. /\ n - H \in 0 .. V - 1 /\ n + H \in Int
        /\ n + H = 1 * V + (n - H)
    BY <1>1, <1>3 DEF V
  <2>2. (n + H) % V = n - H
    BY <1>1, <2>1, ModUnique
  <2>3. Signed(n, b) = n - V
    BY <1>1, <2>1, <2>2 DEF Signed, V, H
  <2>4. n - V \in Int /\ n - V = (-1) * V + n /\ n \in 0 .. V - 1
    BY <1>1 DEF V
  <2>5. (n - V) % V = n
    BY <1>1, <2>4, ModUnique
  <2> QED
    BY <2>3, <2>4, <2>5 DEF Unsigned, V
<1> QED
  BY <1>1, <1>2, <1>3 DEF V

-----------------------------------------------------------------------------
(* Values of the integer types.                                            *)

LEMMA WidthsOf == \A t \in IntTypes : Width(t) \in Widths
  BY DEF Width, Widths

\* A number that the member of type t can hold.
Holds(t, n) == LET b == Width(t)
               IN  IF t \in SignedTypes THEN n \in -Half(b) .. Half(b) - 1 ELSE n \in 0 .. Values(b) - 1

\* The edges of a type are values of it.
LEMMA EdgesHold ==
  ASSUME NEW t \in IntTypes, NEW n \in Edges(t)
  PROVE  Holds(t, n)
<1> DEFINE b == Width(t)
<1>1. b \in Widths
  BY WidthsOf
<1>2. Half(b) \in Int
  BY <1>1, Sizes
<1> HIDE DEF b
<1>3. PICK m \in {-Half(b), -1, 0, 1, Half(b) - 1} : n = Store(t, m)
  BY DEF Edges, b
<1>4. m \in Int
  BY <1>2, <1>3
<1>5. Signed(m, b) \in -Half(b) .. Half(b) - 1 /\ Unsigned(m, b) \in 0 .. Values(b) - 1
  BY <1>1, <1>4, SignedInRange, UnsignedInRange
<1> QED
  BY <1>1, <1>3, <1>5 DEF Holds, Store, b

\* json's one integer type, signed and of eight bytes, brings back every value of
\* every integer type of pmix_value_t, PMIX_SIZE and PMIX_UINT64 included.
THEOREM IntegersReturn ==
  ASSUME NEW t \in IntTypes, NEW n, Holds(t, n)
  PROVE  Store(t, json_integer(n)) = n
<1> DEFINE b == Width(t)
<1>1. b \in Widths /\ 8 \in Widths
  BY WidthsOf DEF Widths
<1>2. /\ Half(b) \in Nat \ {0} /\ Values(b) = 2 * Half(b)
      /\ Half(8) \in Nat \ {0} /\ Values(8) = 2 * Half(8)
      /\ b # 8 => Values(b) <= Half(8)
  BY <1>1, Sizes
<1> HIDE DEF b
<1>3. CASE t \in SignedTypes
  <2>1. n \in -Half(b) .. Half(b) - 1
    BY <1>3 DEF Holds, b
  <2>2. n \in -Half(8) .. Half(8) - 1
    BY <1>2, <2>1
  <2>3. json_integer(n) = n /\ Signed(n, b) = n
    BY <1>1, <2>1, <2>2, SignedKeeps DEF json_integer
  <2> QED
    BY <1>3, <2>3 DEF Store, b
<1>4. CASE t \notin SignedTypes
  <2>1. n \in 0 .. Values(b) - 1
    BY <1>4 DEF Holds, b
  <2>2. Unsigned(json_integer(n), b) = n
    <3>1. CASE b = 8
      BY <1>1, <2>1, <3>1, UnsignedAgain DEF json_integer
    <3>2. CASE b # 8
      <4>1. n \in -Half(8) .. Half(8) - 1
        BY <1>2, <2>1, <3>2
      <4>2. json_integer(n) = n /\ Unsigned(n, b) = n
        BY <1>1, <2>1, <4>1, SignedKeeps, UnsignedKeeps DEF json_integer
      <4> QED
        BY <4>2
    <3> QED
      BY <3>1, <3>2
  <2> QED
    BY <1>4, <2>2 DEF Store, b
<1> QED
  BY <1>1, <1>3, <1>4

-----------------------------------------------------------------------------
(* Procs and values.                                                       *)

\* An unsigned int that goes through an int of json's format.
LEMMA IntReturns ==
  ASSUME NEW n \in 0 .. Values(4) - 1
  PROVE  Unsigned(json_unpack_i(json_pack_i(n)), 4) = n
<1>1. 4 \in Widths
  BY DEF Widths
<1>2. Half(4) \in Nat \ {0} /\ Values(4) = 2 * Half(4)
  BY <1>1, Sizes
<1>3. n \in Int
  BY <1>2
<1>4. Signed(n, 4) \in -Half(4) .. Half(4) - 1
  BY <1>1, <1>3, SignedInRange
<1>5. Signed(Signed(n, 4), 4) = Signed(n, 4)
  BY <1>1, <1>4, SignedKeeps
<1>6. Unsigned(Signed(n, 4), 4) = n
  BY <1>1, UnsignedAgain
<1> QED
  BY <1>5, <1>6 DEF json_pack_i, json_unpack_i

LEMMA NameReturns ==
  ASSUME NEW n \in {0, NameMax}
  PROVE  strlcpy(n, NameMax + 1) = n
  BY CodecAssumption DEF strlcpy

LEMMA ProcReturns ==
  ASSUME NEW proc \in Procs
  PROVE  codec_proc_decode(codec_proc_encode(proc)) = proc
<1>1. /\ proc = [nspace |-> proc.nspace, rank |-> proc.rank]
      /\ proc.nspace \in {0, NameMax} /\ proc.rank \in Edges("PMIX_PROC_RANK")
  BY DEF Procs
<1>2. proc.rank \in 0 .. Values(4) - 1
  <2>1. /\ "PMIX_PROC_RANK" \in IntTypes /\ "PMIX_PROC_RANK" \notin SignedTypes
        /\ Width("PMIX_PROC_RANK") = 4
    BY DEF IntTypes, SignedTypes, Width
  <2> QED
    BY <1>1, <2>1, EdgesHold DEF Holds
<1>3. Unsigned(json_unpack_i(json_pack_i(proc.rank)), 4) = proc.rank
  BY <1>2, IntReturns
<1>4. strlcpy(proc.nspace, NameMax + 1) = proc.nspace
  BY <1>1, NameReturns
<1> QED
  BY <1>1, <1>3, <1>4 DEF codec_proc_decode, codec_proc_encode

LEMMA PointerReturns ==
  ASSUME NEW ptr \in {0, Unsigned(-1, 8)}
  PROVE  codec_pointer_decode(codec_pointer_encode(ptr)) = ptr
<1>1. 8 \in Widths
  BY DEF Widths
<1>2. Half(8) \in Nat \ {0} /\ Values(8) = 2 * Half(8)
  BY <1>1, Sizes
<1>3. Unsigned(-1, 8) \in 0 .. Values(8) - 1
  BY <1>1, UnsignedInRange
<1>4. ptr \in 0 .. Values(8) - 1
  BY <1>2, <1>3
<1> QED
  BY <1>1, <1>4, UnsignedAgain DEF codec_pointer_decode, codec_pointer_encode, json_integer

\* What comes of decoding v with some blocks, or of running out of memory.
Returns(out, v, blocks) ==
    /\ out.ok => out.value = v /\ out.allocated = blocks
    /\ ~out.ok => out.why = "memory"

LEMMA HoldingReturns ==
  ASSUME NEW v, NEW n
  PROVE  Returns(Holding(v, n), v, n)
  BY DEF Returns, Holding

LEMMA AllocatedReturns ==
  ASSUME NEW v, NEW out \in Allocated(v)
  PROVE  Returns(out, v, 1)
  BY DEF Returns, Allocated, Holding, NoMemory

BlocksOf(t) == IF t \in Owning THEN 1 ELSE 0

LEMMA ValueReturns ==
  ASSUME NEW t \in Types \ {"PMIX_TIMEVAL"}, NEW d \in Data(t),
         codec_value_encode([type |-> t, data |-> d]).ok,
         NEW out \in codec_value_decode(codec_value_encode([type |-> t, data |-> d]).value)
  PROVE  Returns(out, [type |-> t, data |-> d], BlocksOf(t))
<1> DEFINE value == [type |-> t, data |-> d]
           x == codec_value_encode(value)
<1>1. value.type = t /\ value.data = d
  OBVIOUS
<1>0. x.ok /\ out \in codec_value_decode(x.value) /\ ~Failed.ok
  BY DEF Failed
<1>2. ASSUME NEW data, x = Result([type |-> t, data |-> data])
      PROVE  x.value.type = t /\ x.value.data = data
  BY <1>2 DEF Result
<1>3. CASE t \in IntTypes
  <2>0. /\ t \notin {"PMIX_BOOL", "PMIX_FLOAT", "PMIX_DOUBLE"}
        /\ t # "PMIX_BOOL" /\ t # "PMIX_STRING" /\ t # "PMIX_PROC" /\ t # "PMIX_TIMEVAL"
        /\ t \notin {"PMIX_FLOAT", "PMIX_DOUBLE"} /\ t \notin {"PMIX_BOOL", "PMIX_TIMEVAL"}
        /\ t \notin OtherTypes
    BY <1>3 DEF IntTypes, SignedTypes, OtherTypes
  <2>1. x = Result([type |-> t, data |-> json_integer(d)])
    BY <1>1, <1>3, <2>0 DEF codec_value_encode
  <2>2. x.value.type = t /\ x.value.data = json_integer(d)
    BY <1>2, <2>1
  <2>3. d \in Edges(t)
    BY <1>3, <2>0 DEF Data
  <2>4. Store(t, json_integer(d)) = d
    BY <1>3, <2>3, EdgesHold, IntegersReturn
  <2> HIDE DEF x
  <2>5. out = Holding([type |-> t, data |-> d], 0)
    BY <1>0, <1>3, <2>0, <2>2, <2>4 DEF codec_value_decode
  <2>6. BlocksOf(t) = 0
    BY <2>0, <1>3 DEF BlocksOf, Owning
  <2> QED
    BY <2>5, <2>6, HoldingReturns
<1>4. CASE t \in {"PMIX_BOOL", "PMIX_FLOAT", "PMIX_DOUBLE"}
  <2>0. /\ t \notin IntTypes /\ t # "PMIX_STRING" /\ t # "PMIX_PROC" /\ t # "PMIX_TIMEVAL"
        /\ t \notin OtherTypes
        /\ t = "PMIX_BOOL" <=> t \notin {"PMIX_FLOAT", "PMIX_DOUBLE"}
        /\ t = "PMIX_BOOL" <=> t \in {"PMIX_BOOL", "PMIX_TIMEVAL"}
    BY <1>4 DEF IntTypes, SignedTypes, OtherTypes
  <2>1. x = Result([type |-> t, data |-> d])
    <3>1. CASE t = "PMIX_BOOL"
      BY <1>1, <2>0, <3>1 DEF codec_value_encode
    <3>2. CASE t # "PMIX_BOOL"
      <4>1. x = IF d \in NotReal THEN Failed ELSE Result([type |-> t, data |-> d])
        BY <1>1, <2>0, <3>2 DEF codec_value_encode
      <4> HIDE DEF x
      <4> QED
        BY <1>0, <4>1
    <3> QED
      BY <3>1, <3>2
  <2>2. x.value.type = t /\ x.value.data = d
    BY <1>2, <2>1
  <2> HIDE DEF x
  <2>5. out = Holding([type |-> t, data |-> d], 0)
    BY <1>0, <1>4, <2>0, <2>2 DEF codec_value_decode
  <2>6. BlocksOf(t) = 0
    BY <2>0, <1>4 DEF BlocksOf, Owning
  <2> QED
    BY <2>5, <2>6, HoldingReturns
<1>5. CASE t = "PMIX_STRING"
  <2>0. /\ t \notin IntTypes /\ t \notin {"PMIX_BOOL", "PMIX_FLOAT", "PMIX_DOUBLE"}
        /\ t \notin {"PMIX_FLOAT", "PMIX_DOUBLE"} /\ t \notin {"PMIX_BOOL", "PMIX_TIMEVAL"}
        /\ t \notin OtherTypes
    BY <1>5 DEF IntTypes, SignedTypes, OtherTypes
  <2>1. x = IF d \in NotText THEN Failed ELSE Result([type |-> t, data |-> d])
    BY <1>1, <1>5, <2>0 DEF codec_value_encode
  <2> HIDE DEF x
  <2>2. x = Result([type |-> t, data |-> d])
    BY <1>0, <2>1
  <2>3. x.value.type = t /\ x.value.data = d
    BY <1>2, <2>2
  <2>4. out \in Allocated([type |-> t, data |-> d])
    BY <1>0, <1>5, <2>0, <2>3 DEF codec_value_decode
  <2>5. BlocksOf(t) = 1
    BY <1>5 DEF BlocksOf, Owning
  <2> QED
    BY <2>4, <2>5, AllocatedReturns
<1>6. CASE t = "PMIX_PROC"
  <2>0. /\ t \notin IntTypes /\ t \notin {"PMIX_BOOL", "PMIX_FLOAT", "PMIX_DOUBLE"}
        /\ t \notin {"PMIX_FLOAT", "PMIX_DOUBLE"} /\ t \notin {"PMIX_BOOL", "PMIX_TIMEVAL"}
        /\ t \notin OtherTypes
    BY <1>6 DEF IntTypes, SignedTypes, OtherTypes
  <2>1. x = Result([type |-> t, data |-> codec_proc_encode(d)])
    BY <1>1, <1>6, <2>0 DEF codec_value_encode
  <2>2. x.value.type = t /\ x.value.data = codec_proc_encode(d)
    BY <1>2, <2>1
  <2> HIDE DEF x
  <2>3. d \in Procs
    BY <1>6, <2>0 DEF Data
  <2>4. codec_proc_decode(codec_proc_encode(d)) = d
    BY <2>3, ProcReturns
  <2>5. out \in Allocated([type |-> t, data |-> d])
    BY <1>0, <1>6, <2>0, <2>2, <2>4 DEF codec_value_decode
  <2>6. BlocksOf(t) = 1
    BY <1>6 DEF BlocksOf, Owning
  <2> QED
    BY <2>5, <2>6, AllocatedReturns
<1>7. CASE t \in OtherTypes
  <2>0. /\ t \notin IntTypes /\ t \notin {"PMIX_BOOL", "PMIX_FLOAT", "PMIX_DOUBLE"}
        /\ t \notin {"PMIX_FLOAT", "PMIX_DOUBLE"} /\ t \notin {"PMIX_BOOL", "PMIX_TIMEVAL"}
        /\ t # "PMIX_STRING" /\ t # "PMIX_PROC"
    BY <1>7 DEF IntTypes, SignedTypes, OtherTypes
  <2>1. x = Failed
    BY <1>1, <1>7, <2>0 DEF codec_value_encode
  <2> QED
    BY <1>0, <2>1
<1> QED
  BY <1>3, <1>4, <1>5, <1>6, <1>7 DEF Types
LEMMA LeastNat ==
  ASSUME NEW T, T \subseteq Nat, T # {}
  PROVE  \E x \in T : \A y \in T : x <= y
<1> DEFINE R == {ss \in Nat \X Nat : ss[1] < ss[2]}
<1>1. IsWellFoundedOn(R, Nat)
  BY NatLessThanWellFounded DEF OpToRel
<1>2. \E x \in T : \A y \in T : ~ (<<y, x>> \in R)
  <2> HIDE DEF R
  <2> QED
    BY <1>1, WFMin
<1>3. PICK x \in T : \A y \in T : ~ (<<y, x>> \in R)
  BY <1>2
<1>4. \A y \in T : ~ (y < x)
  BY <1>3
<1> QED
  BY <1>4

-----------------------------------------------------------------------------
(* Infos.                                                                  *)

NoTimeval == "PMIX_TIMEVAL" \notin UpcallTypes

LEMMA InfoShape ==
  ASSUME NoTimeval, NEW info \in Infos
  PROVE  \E t \in Types \ {"PMIX_TIMEVAL"} : \E d \in Data(t) : info = Info(t, d)
  BY UpcallAssumption DEF Infos, NoTimeval

LEMMA InfoReturns ==
  ASSUME NoTimeval, NEW info \in Infos, codec_info_encode(info).ok,
         NEW out \in codec_info_decode(codec_info_encode(info).value)
  PROVE  Returns(out, info, BlocksOf(info.value.type))
<1>0. PICK t \in Types \ {"PMIX_TIMEVAL"} : \E d \in Data(t) : info = Info(t, d)
  BY InfoShape
<1>1. PICK d \in Data(t) : info = Info(t, d)
  BY <1>0
<1> DEFINE value == [type |-> t, data |-> d]
           flags == Unsigned(-1, 4)
           v == codec_value_encode(value)
           x == codec_info_encode(info)
<1>2. info.key = NameMax /\ info.flags = flags /\ info.value = value /\ info.value.type = t
  BY <1>1 DEF Info
<1>3. info = [key |-> NameMax, flags |-> flags, value |-> value]
  BY <1>1 DEF Info
<1> HIDE DEF value, flags
<1>4. x = IF ~v.ok THEN Failed
          ELSE Result([key |-> NameMax, flags |-> json_pack_i(flags), value |-> v.value])
  BY <1>2 DEF codec_info_encode
<1> HIDE DEF v
<1>5. v.ok /\ x = Result([key |-> NameMax, flags |-> json_pack_i(flags), value |-> v.value])
  BY <1>4 DEF Failed
<1>6. x.value.key = NameMax /\ x.value.flags = json_pack_i(flags) /\ x.value.value = v.value
  BY <1>5 DEF Result
<1> HIDE DEF x
<1>7. PICK w \in codec_value_decode(v.value) :
         out = IF ~w.ok THEN w
               ELSE Holding([key |-> strlcpy(NameMax, NameMax + 1),
                             flags |-> Unsigned(json_unpack_i(json_pack_i(flags)), 4),
                             value |-> w.value], w.allocated)
  <2>1. out \in codec_info_decode(x.value)
    BY DEF x
  <2> QED
    BY <1>6, <2>1 DEF codec_info_decode
<1>8. Returns(w, value, BlocksOf(t))
  BY <1>5, <1>7, ValueReturns DEF v, value
<1>9. strlcpy(NameMax, NameMax + 1) = NameMax
  BY NameReturns
<1>10. Unsigned(json_unpack_i(json_pack_i(flags)), 4) = flags
  <2>1. 4 \in Widths
    BY DEF Widths
  <2>2. flags \in 0 .. Values(4) - 1
    BY <2>1, UnsignedInRange DEF flags
  <2> QED
    BY <2>2, IntReturns
<1>11. CASE w.ok
  <2>1. w.value = value /\ w.allocated = BlocksOf(t)
    BY <1>8, <1>11 DEF Returns
  <2>2. out = Holding(info, BlocksOf(t))
    BY <1>3, <1>7, <1>9, <1>10, <1>11, <2>1
  <2> QED
    BY <1>2, <2>2, HoldingReturns
<1>12. CASE ~w.ok
  BY <1>7, <1>8, <1>12 DEF Returns
<1> QED
  BY <1>11, <1>12

\* The infos come back in their places, with the blocks that releasing them frees.
LEMMA InfosReturn ==
  ASSUME NoTimeval, NEW info \in Seq(Infos), codec_info_array_encode(info).ok,
         NEW out \in codec_info_array_decode(codec_info_array_encode(info).value)
  PROVE  /\ Returns(out, info, codec_info_array_destroy(info))
         /\ codec_info_array_destroy(info) \in Nat
<1> DEFINE entry == [i \in DOMAIN info |-> codec_info_encode(info[i])]
           x == codec_info_array_encode(info)
           o == [i \in DOMAIN info |-> entry[i].value]
<1>1. /\ DOMAIN info = 1 .. Len(info) /\ Len(info) \in Nat
      /\ \A i \in DOMAIN info : info[i] \in Infos
  OBVIOUS
<1>2. x = IF \E i \in DOMAIN info : ~entry[i].ok THEN Failed ELSE Result(o)
  BY DEF codec_info_array_encode
<1> HIDE DEF entry
<1>3. (\A i \in DOMAIN info : entry[i].ok) /\ x = Result(o)
  <2> HIDE DEF o
  <2> QED
    BY <1>2 DEF Failed
<1>4. x.value = o
  BY <1>3 DEF Result
<1>5. DOMAIN o = DOMAIN info /\ Len(o) = Len(info)
  BY <1>1
<1>6. \A i \in DOMAIN info : codec_info_encode(info[i]).ok /\ o[i] = codec_info_encode(info[i]).value
  BY <1>3 DEF entry
<1> HIDE DEF o, x
<1> DEFINE failing(e) == {i \in DOMAIN o : ~e[i].ok}
           holding(e, n) == Cardinality({i \in 1 .. n : e[i].allocated = 1})
           first(e) == Min(failing(e))
           outcome(e) == IF failing(e) = {}
                         THEN Holding([i \in DOMAIN o |-> e[i].value], 1 + holding(e, Len(o)))
                         ELSE [ok |-> FALSE, why |-> e[first(e)].why,
                               leaked |-> holding(e, first(e) - 1)]
<1>7. out \in codec_info_array_decode(o)
  BY <1>4 DEF x
<1>8. \/ out = [ok |-> FALSE, why |-> "memory", leaked |-> 0]
      \/ \E e : (\A i \in DOMAIN o : e[i] \in codec_info_decode(o[i])) /\ out = outcome(e)
  BY <1>7 DEF codec_info_array_decode
<1>9. codec_info_array_destroy(info) \in Nat
  <2>0. IsFiniteSet(DOMAIN info)
    BY <1>1, FS_Interval
  <2>1. IsFiniteSet({i \in DOMAIN info : info[i].value.type \in Owning})
    BY <2>0, FS_Subset
  <2> QED
    BY <2>1, FS_CardinalityType DEF codec_info_array_destroy
<1>10. CASE out = [ok |-> FALSE, why |-> "memory", leaked |-> 0]
  BY <1>9, <1>10 DEF Returns
<1>11. ASSUME NEW e, \A i \in DOMAIN o : e[i] \in codec_info_decode(o[i]), out = outcome(e)
       PROVE  Returns(out, info, codec_info_array_destroy(info))
  <2>1. \A i \in DOMAIN info : Returns(e[i], info[i], BlocksOf(info[i].value.type))
    <3> TAKE i \in DOMAIN info
    <3>1. info[i] \in Infos /\ codec_info_encode(info[i]).ok
      BY <1>1, <1>6
    <3>2. e[i] \in codec_info_decode(codec_info_encode(info[i]).value)
      BY <1>5, <1>6, <1>11
    <3> QED
      BY <3>1, <3>2, InfoReturns
  <2>2. CASE failing(e) = {}
    <3>1. \A i \in DOMAIN info : e[i].value = info[i] /\ e[i].allocated = BlocksOf(info[i].value.type)
      BY <1>5, <2>1, <2>2 DEF Returns
    <3>2. [i \in DOMAIN o |-> e[i].value] = info
      BY <1>5, <3>1
    <3>3. {i \in 1 .. Len(o) : e[i].allocated = 1} = {i \in DOMAIN info : info[i].value.type \in Owning}
      BY <1>1, <1>5, <3>1 DEF BlocksOf
    <3>4. out = Holding(info, codec_info_array_destroy(info))
      BY <1>11, <2>2, <3>2, <3>3 DEF codec_info_array_destroy
    <3> QED
      BY <3>4, HoldingReturns
  <2>3. CASE failing(e) # {}
    <3>1. first(e) \in failing(e)
      <4>1. failing(e) \subseteq Nat
        BY <1>1, <1>5
      <4>2. \E i \in failing(e) : \A j \in failing(e) : i <= j
        BY <2>3, <4>1, LeastNat
      <4> QED
        BY <4>2 DEF Min
    <3>2. ~e[first(e)].ok /\ first(e) \in DOMAIN info
      BY <1>5, <3>1
    <3>3. e[first(e)].why = "memory"
      BY <2>1, <3>2 DEF Returns
    <3> HIDE DEF failing, holding, first
    <3>4. ~out.ok /\ out.why = e[first(e)].why
      BY <1>11, <2>3
    <3> QED
      BY <3>3, <3>4 DEF Returns
  <2> QED
    BY <2>2, <2>3
<1> QED
  BY <1>8, <1>9, <1>10, <1>11

-----------------------------------------------------------------------------
(* The way of an upcall.                                                   *)

Args == [procs : {<<proc>> : proc \in Procs}, cbdata : {0, Unsigned(-1, 8)}, info : Seq(Infos)]

\* The message that args become.
Message(a) == [procs |-> codec_proc_array_encode(a.procs),
               cbdata |-> codec_pointer_encode(a.cbdata),
               info |-> codec_info_array_encode(a.info).value]

CodecInv ==
    /\ args \in Args
    /\ at = "channel" => /\ codec_info_array_encode(args.info).ok
                         /\ msg = Result(Message(args))
    /\ at \in {"handler", "done"} => call = Result(args)
    /\ at = "handler" => heap = 1 + codec_info_array_destroy(args.info)
    /\ at \notin {"handler", "no memory"} => heap = 0
    /\ at # "dropped"
    /\ codec_info_array_destroy(args.info) \in Nat

\* The blocks that codec_info_array_destroy frees are a number of them.
LEMMA DestroyCounts ==
  ASSUME NEW info \in Seq(Infos)
  PROVE  codec_info_array_destroy(info) \in Nat
<1>1. DOMAIN info = 1 .. Len(info) /\ Len(info) \in Nat
  OBVIOUS
<1>2. IsFiniteSet(DOMAIN info)
  BY <1>1, FS_Interval
<1>3. IsFiniteSet({i \in DOMAIN info : info[i].value.type \in Owning})
  BY <1>2, FS_Subset
<1> QED
  BY <1>3, FS_CardinalityType DEF codec_info_array_destroy

LEMMA CodecInvInit == Init => CodecInv
<1> SUFFICES ASSUME Init PROVE CodecInv
  OBVIOUS
<1>1. PICK proc \in Procs, cbdata \in {0, Unsigned(-1, 8)} :
         args = [procs |-> <<proc>>, cbdata |-> cbdata, info |-> <<>>]
  BY DEF Init
<1>2. args \in Args /\ args.info \in Seq(Infos)
  BY <1>1 DEF Args
<1>3. codec_info_array_destroy(args.info) \in Nat
  BY <1>2, DestroyCounts
<1> QED
  BY <1>2, <1>3 DEF Init, CodecInv

\* The server's thread.
LEMMA AddInfoInv ==
  ASSUME CodecInv, NEW info \in Infos, AddInfo(info)
  PROVE  CodecInv'
<1>1. /\ args.procs \in {<<proc>> : proc \in Procs} /\ args.cbdata \in {0, Unsigned(-1, 8)}
      /\ args.info \in Seq(Infos) /\ args \in Args
  BY DEF CodecInv, Args
<1>2. Append(args.info, info) \in Seq(Infos)
  BY <1>1
<1>3. args' \in Args /\ args'.info \in Seq(Infos)
  BY <1>1, <1>2 DEF AddInfo, Args
<1>4. codec_info_array_destroy(args'.info) \in Nat
  BY <1>3, DestroyCounts
<1>5. at = "client" /\ UNCHANGED <<at, msg, call, heap>>
  BY DEF AddInfo
<1> QED
  BY <1>3, <1>4, <1>5 DEF CodecInv

LEMMA EncodeInv == CodecInv /\ Encode => CodecInv'
<1> SUFFICES ASSUME CodecInv, Encode PROVE CodecInv'
  OBVIOUS
<1>1. at = "client" /\ UNCHANGED <<args, call, heap>>
  BY DEF Encode
<1>2. CASE /\ codec_info_array_encode(args.info).ok
           /\ msg' = Result(Message(args))
           /\ at' = "channel"
  BY <1>1, <1>2 DEF CodecInv
<1>3. CASE at' = "refused"
  BY <1>1, <1>3 DEF CodecInv
<1> QED
  BY <1>2, <1>3 DEF Encode, Message

\* The shell's thread decodes what was encoded.
LEMMA DecodeInv == NoTimeval /\ CodecInv /\ Decode => CodecInv'
<1> SUFFICES ASSUME NoTimeval, CodecInv, Decode PROVE CodecInv'
  OBVIOUS
<1>1. /\ args.procs \in {<<proc>> : proc \in Procs} /\ args.cbdata \in {0, Unsigned(-1, 8)}
      /\ args.info \in Seq(Infos) /\ args \in Args
      /\ args = [procs |-> args.procs, cbdata |-> args.cbdata, info |-> args.info]
  BY DEF CodecInv, Args
<1>2. /\ at = "channel" /\ heap = 0 /\ UNCHANGED <<args, msg>>
      /\ codec_info_array_encode(args.info).ok /\ msg = Result(Message(args))
  BY DEF CodecInv, Decode
<1>3. /\ msg.value.procs = codec_proc_array_encode(args.procs)
      /\ msg.value.cbdata = codec_pointer_encode(args.cbdata)
      /\ msg.value.info = codec_info_array_encode(args.info).value
  BY <1>2 DEF Result, Message
<1>4. PICK procs \in codec_proc_array_decode(msg.value.procs),
           info \in codec_info_array_decode(msg.value.info) :
         \/ /\ procs.ok /\ info.ok
            /\ call' = Result([procs |-> procs.value,
                               cbdata |-> codec_pointer_decode(msg.value.cbdata),
                               info |-> info.value])
            /\ heap' = heap + procs.allocated + info.allocated
            /\ at' = "handler"
         \/ /\ procs.ok /\ ~info.ok
            /\ at' = IF info.why = "memory" THEN "no memory" ELSE "dropped"
         \/ ~procs.ok /\ at' = "no memory"
  BY DEF Decode
<1>5. Returns(procs, args.procs, 1)
  <2>1. PICK proc \in Procs : args.procs = <<proc>>
    BY <1>1
  <2>2. [i \in DOMAIN codec_proc_array_encode(args.procs) |->
            codec_proc_decode(codec_proc_array_encode(args.procs)[i])] = args.procs
    <3>1. codec_proc_decode(codec_proc_encode(proc)) = proc
      BY ProcReturns
    <3> QED
      BY <2>1, <3>1 DEF codec_proc_array_encode
  <2>3. procs \in Allocated(args.procs)
    BY <1>3, <1>4, <2>2 DEF codec_proc_array_decode
  <2> QED
    BY <2>3, AllocatedReturns
<1>6. /\ Returns(info, args.info, codec_info_array_destroy(args.info))
      /\ codec_info_array_destroy(args.info) \in Nat
  BY <1>1, <1>2, <1>3, <1>4, InfosReturn
<1>7. CASE /\ procs.ok /\ info.ok
           /\ call' = Result([procs |-> procs.value,
                              cbdata |-> codec_pointer_decode(msg.value.cbdata),
                              info |-> info.value])
           /\ heap' = heap + procs.allocated + info.allocated
           /\ at' = "handler"
  <2>1. procs.value = args.procs /\ info.value = args.info
    BY <1>5, <1>6, <1>7 DEF Returns
  <2>2. codec_pointer_decode(msg.value.cbdata) = args.cbdata
    BY <1>1, <1>3, PointerReturns
  <2>3. call' = Result(args)
    BY <1>1, <1>7, <2>1, <2>2
  <2>4. heap' = 1 + codec_info_array_destroy(args.info)
    BY <1>2, <1>5, <1>6, <1>7 DEF Returns
  <2> QED
    BY <1>1, <1>2, <1>6, <1>7, <2>3, <2>4 DEF CodecInv
<1>8. CASE at' = "no memory"
  BY <1>1, <1>2, <1>6, <1>8 DEF CodecInv
<1> QED
  BY <1>4, <1>6, <1>7, <1>8 DEF Returns

LEMMA ReleaseInv == CodecInv /\ Release => CodecInv'
<1> SUFFICES ASSUME CodecInv, Release PROVE CodecInv'
  OBVIOUS
<1>1. call = Result(args) /\ call' = call /\ args' = args /\ at = "handler" /\ at' = "done"
  BY DEF CodecInv, Release
<1>2. call.value = args
  BY <1>1 DEF Result
<1>3. heap' = 0
  BY <1>1, <1>2 DEF CodecInv, Release
<1> QED
  BY <1>1, <1>3 DEF CodecInv

LEMMA CodecInvHolds == ASSUME NoTimeval PROVE Spec => []CodecInv
<1>1. CodecInv /\ [Next]_vars => CodecInv'
  <2> SUFFICES ASSUME CodecInv, [Next]_vars PROVE CodecInv'
    OBVIOUS
  <2>1. CASE \E info \in Infos : AddInfo(info)
    BY <2>1, AddInfoInv
  <2>2. CASE Encode
    BY <2>2, EncodeInv
  <2>3. CASE Decode
    BY <2>3, DecodeInv
  <2>4. CASE Release
    BY <2>4, ReleaseInv
  <2>5. CASE \E data \in Blobs : Contribute(data)
    BY <2>5 DEF Contribute, CodecInv, upcall
  <2>6. CASE GetData
    BY <2>6 DEF GetData, CodecInv, upcall
  <2>7. CASE UNCHANGED vars
    BY <2>7 DEF vars, CodecInv
  <2> QED
    BY <2>1, <2>2, <2>3, <2>4, <2>5, <2>6, <2>7 DEF Next
<1> QED
  BY <1>1, CodecInvInit, PTL DEF Spec

-----------------------------------------------------------------------------
\* The handler of a fence gets what the server passed, whatever the width of a
\* byte, on the edges of every integer type and for any number of infos; and what
\* was sent is dropped only when memory runs out.  A PMIX_TIMEVAL is the
\* exception: codec_value_decode cannot read it.
THEOREM DecodingUndoesEncoding ==
  ASSUME NoTimeval
  PROVE  Spec => []DecodeUndoesEncode
<1>1. CodecInv => DecodeUndoesEncode
  <2>1. Result(args).value = args
    BY DEF Result
  <2> QED
    BY <2>1 DEF CodecInv, DecodeUndoesEncode
<1>2. Spec => []CodecInv
  BY CodecInvHolds
<1> QED
  BY <1>1, <1>2, PTL

\* codec_info_array_destroy frees exactly what codec_info_array_decode allocated.
THEOREM DecodedIsFreed ==
  ASSUME NoTimeval
  PROVE  Spec => []NothingLeft
<1>1. CodecInv => NothingLeft
  BY DEF CodecInv, NothingLeft
<1>2. Spec => []CodecInv
  BY CodecInvHolds
<1> QED
  BY <1>1, <1>2, PTL


=============================================================================
