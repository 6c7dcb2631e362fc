------------------------------ MODULE Infovec -------------------------------
(***************************************************************************)
(* infovec.c: growing arrays of attributes that own their strings and      *)
(* nested arrays.  Every operation takes the heap and gives the set of its *)
(* possible outcomes [ok, p, h, iv], one for each allocation that may fail.*)
(***************************************************************************)
EXTENDS Naturals, Sequences, Functions

CONSTANTS INFOVEC_CHUNK,  \* slots added when a vector is full
          AllocFails      \* whether malloc may return NULL

ASSUME InfovecAssumption == /\ INFOVEC_CHUNK \in Nat \ {0}
                            /\ AllocFails \in BOOLEAN

NULL == 0

\* The allocator: the live blocks, the next block, and whether some block was
\* freed or reallocated that was not live.
EmptyHeap == [live |-> {}, next |-> 1, bad |-> FALSE]

free(h, p) == IF p = NULL THEN h
              ELSE [h EXCEPT !.live = @ \ {p}, !.bad = @ \/ p \notin h.live]

malloc(h, iv) ==
    {[ok |-> TRUE, p |-> h.next, iv |-> iv,
      h |-> [h EXCEPT !.live = @ \cup {h.next}, !.next = @ + 1]]}
    \cup IF AllocFails THEN {[ok |-> FALSE, p |-> NULL, iv |-> iv, h |-> h]} ELSE {}

\* a && b: b runs in the outcomes where a succeeded.
Then(outcomes, op(_)) ==
    UNION {IF o.ok THEN op(o) ELSE {o} : o \in outcomes}

\* What runs when a fails, which stays a failure.
OrElse(outcomes, cleanup(_)) ==
    {IF o.ok THEN o ELSE [o EXCEPT !.h = cleanup(o.h)] : o \in outcomes}

-----------------------------------------------------------------------------
\* struct infovec: its own block, the block of its array, and the entries in use.
NoVector == [self |-> NULL, array |-> NULL, length |-> 0, info |-> <<>>]

infovec_create(h) ==
    {[o EXCEPT !.iv = [NoVector EXCEPT !.self = o.p]] : o \in malloc(h, NoVector)}

\* The entry's own pointer, and the array of a vector, among the places that
\* point to a block.
PointerPlace == <<0, 1>>
ArrayPlace == <<0, 0>>

\* An entry: own gives the block each of its places points to.
Entry(key, type, val, own) == [key |-> key, type |-> type, val |-> val, own |-> own]

\* A number owns nothing, a string its block.
Plain == <<>>
PointsTo(block) == [q \in {PointerPlace} |-> block]

\* The types destroy_info_array has a case for.
FreedTypes == {"PMIX_STRING", "PMIX_BYTE_OBJECT", "PMIX_DATA_ARRAY"}

\* The blocks destroy_info_array frees, each at its place: what the entries own,
\* place q of entry i being <<i, q>>, and the array.
Places(info) == UNION {{<<i, q>> : q \in DOMAIN info[i].own} :
                          i \in {j \in DOMAIN info : info[j].type \in FreedTypes}}

Blocks(array, info) ==
    IF array = NULL THEN Plain
    ELSE [q \in Places(info) \cup {ArrayPlace} |->
             IF q = ArrayPlace THEN array ELSE info[q[1]].own[q[2]]]

\* realloc moves the array to block p when it is full.
Moved(iv, p) == [iv EXCEPT !.array = p, !.length = @ + INFOVEC_CHUNK]

alloc_slot(h, iv) ==
    IF Len(iv.info) # iv.length
    THEN {[ok |-> TRUE, p |-> NULL, iv |-> iv, h |-> h]}
    ELSE {IF o.ok THEN [o EXCEPT !.h = free(o.h, iv.array), !.iv = Moved(@, o.p)] ELSE o :
             o \in malloc(h, iv)}

\* The code every setter shares: a slot, then its key, type and value.
Stored(iv, entry) == [iv EXCEPT !.info = Append(@, entry)]

Put(h, iv, entry) ==
    {IF o.ok THEN [o EXCEPT !.iv = Stored(@, entry)] ELSE o : o \in alloc_slot(h, iv)}

infovec_set_u32(h, iv, key, val) == Put(h, iv, Entry(key, "PMIX_UINT32", val, Plain))
infovec_set_u16(h, iv, key, val) == Put(h, iv, Entry(key, "PMIX_UINT16", val % 2 ^ 16, Plain))
infovec_set_bool(h, iv, key, val) == Put(h, iv, Entry(key, "PMIX_BOOL", val, Plain))
infovec_set_rank(h, iv, key, val) == Put(h, iv, Entry(key, "PMIX_PROC_RANK", val, Plain))

\* Mutant: the string is freed on failure too.
infovec_set_str_new_frees(h, iv, key, val, block) ==
    OrElse(Put(h, iv, Entry(key, "PMIX_STRING", val, PointsTo(block))), LAMBDA g : free(g, block))

\* Takes over the block of the string, unless it fails.
infovec_set_str_new(h, iv, key, val, block) == Put(h, iv, Entry(key, "PMIX_STRING", val, PointsTo(block)))

infovec_set_str(h, iv, key, val) ==
    LET strdup(o) == OrElse(infovec_set_str_new(o.h, iv, key, val, o.p),
                            LAMBDA g : free(g, o.p))
    IN  Then(malloc(h, iv), strdup)

\* The entry of a nested array: with a block for the pmix_data_array_t the entry
\* owns that and what val did, with none it has no array.
Nested(key, val, c) ==
    LET blocks == Blocks(val.array, val.info)
    IN  IF c.ok THEN Entry(key, "PMIX_DATA_ARRAY", val,
                           [q \in DOMAIN blocks \cup {PointerPlace} |->
                               IF q = PointerPlace THEN c.p ELSE blocks[q]])
        ELSE Entry(key, "PMIX_DATA_ARRAY", NoVector, Plain)

\* Mutant: val itself is forgotten when its array is taken over.
infovec_set_infovec_new_kept(h, iv, key, val) ==
    LET slot(o) == {[c EXCEPT !.iv = Stored(@, Nested(key, val, c))] :
                       c \in malloc(o.h, o.iv)}
    IN  Then(alloc_slot(h, iv), slot)

\* Takes over the array of val and frees val, unless it fails: then the slot may
\* be in use all the same, with no array.
infovec_set_infovec_new(h, iv, key, val) ==
    LET slot(o)  == {[c EXCEPT !.iv = Stored(@, Nested(key, val, c))] :
                        c \in malloc(o.h, o.iv)}
        steal(o) == {[o EXCEPT !.h = free(@, val.self)]}
    IN  Then(Then(alloc_slot(h, iv), slot), steal)

\* Frees what every place points to: a block two places point to is freed twice.
destroy_info_array(h, array, info) ==
    LET blocks == Blocks(array, info)
        freed  == Range(blocks) \ {NULL}
        twice  == \E q, r \in DOMAIN blocks :
                      q # r /\ blocks[q] = blocks[r] /\ blocks[q] # NULL
    IN  [h EXCEPT !.live = @ \ freed, !.bad = @ \/ twice \/ ~(freed \subseteq h.live)]

infovec_destroy(h, iv) == free(destroy_info_array(h, iv.array, iv.info), iv.self)

=============================================================================
