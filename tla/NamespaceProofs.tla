-------------------------- MODULE NamespaceProofs ---------------------------
(***************************************************************************)
(* The attributes of a job's namespace, for every task map and node list,  *)
(* every INFOVEC_CHUNK and whichever allocations fail.  First ownership:   *)
(* at any time a live block is owned by the vector, by exactly one of its  *)
(* places, or it is in the hands of the function that runs.  Then          *)
(* lookup_shell_rank.  Last, what the attributes say: the vector tells as  *)
(* many of them as px_init has come to, each with its right value.         *)
(***************************************************************************)
EXTENDS Namespace, FiniteSetTheorems, WellFoundedInduction, TLAPS

-----------------------------------------------------------------------------
(* Ownership.                                                              *)

\* An allocator that has not been misused.
Heaps == [live : SUBSET Nat, next : Nat, bad : BOOLEAN]
IsHeap(g) == /\ g \in Heaps /\ g.next > 0 /\ ~g.bad
             /\ \A p \in g.live : 0 < p /\ p < g.next

\* What the entries of a vector own, by place.
Own(info) == [q \in Places(info) |-> info[q[1]].own[q[2]]]

\* A vector that points to each of its blocks once.
IsVector(v) ==
    /\ v \in [self : Nat, array : Nat, length : Nat, info : Seq(Range(v.info))]
    /\ Len(v.info) <= v.length
    /\ v.array = NULL => v.length = 0
    /\ IsInjective(Own(v.info))
    /\ {NULL, v.array, v.self} \cap Range(Own(v.info)) = {}
    /\ v.array = v.self => v.self = NULL

Owned(v) == (Range(Own(v.info)) \cup {v.array, v.self}) \ {NULL}

\* The live blocks are those of the vector and those in hand.
Held(g, v, hand) ==
    /\ IsHeap(g)
    /\ IsVector(v)
    /\ hand \cap Owned(v) = {}
    /\ g.live = Owned(v) \cup hand

-----------------------------------------------------------------------------
(* The allocator.                                                          *)

\* What malloc and the operations on vectors return.
IsOutcome(o) == DOMAIN o = {"ok", "p", "iv", "h"}

\* malloc leaves the vector alone.
LEMMA MallocShape ==
  ASSUME NEW g, NEW w, NEW o \in malloc(g, w)
  PROVE  IsOutcome(o) /\ o.iv = w
  BY DEF malloc, IsOutcome

\* A block that malloc returns is not in use by anyone, and failing changes
\* nothing.
LEMMA MallocHeld ==
  ASSUME NEW g, NEW v, NEW hand, Held(g, v, hand), NEW w, NEW o \in malloc(g, w)
  PROVE  /\ o.ok => /\ Held(o.h, v, hand \cup {o.p})
                    /\ o.p \in Nat \ {0} /\ o.p \notin g.live
         /\ ~o.ok => o.h = g
  <1>1. CASE o = [ok |-> TRUE, p |-> g.next, iv |-> w,
                  h |-> [g EXCEPT !.live = @ \cup {g.next}, !.next = @ + 1]]
    <2>1. /\ o.p = g.next /\ o.iv = w /\ o.ok = TRUE
          /\ o.h = [g EXCEPT !.live = @ \cup {g.next}, !.next = @ + 1]
      BY <1>1
    <2>2. g \in Heaps /\ g.next \in Nat \ {0} /\ g.next \notin g.live
      BY DEF Held, IsHeap, Heaps
    <2>3. /\ o.h \in Heaps
          /\ o.h.live = g.live \cup {g.next}
          /\ o.h.next = g.next + 1
      <3> DEFINE new == [g EXCEPT !.live = @ \cup {g.next}, !.next = @ + 1]
      <3>0. g.live \cup {g.next} \in SUBSET Nat /\ g.next + 1 \in Nat
        BY <2>2 DEF Heaps
      <3>1. new \in Heaps
        BY <2>2, <3>0 DEF Heaps
      <3>2. new.live = g.live \cup {g.next} /\ new.next = g.next + 1
        BY <2>2 DEF Heaps
      <3> QED
        BY <2>1, <3>1, <3>2
    <2>4. ~o.h.bad
      BY <2>1, <2>2 DEF Heaps, Held, IsHeap
    <2>7. IsHeap(o.h)
      BY <2>2, <2>3, <2>4 DEF Held, IsHeap, Heaps
    <2>5. (hand \cup {g.next}) \cap Owned(v) = {}
      BY <2>2 DEF Held
    <2>6. Held(o.h, v, hand \cup {o.p})
      BY <2>1, <2>3, <2>7, <2>5 DEF Held
    <2> QED
      BY <1>1, <2>1, <2>2, <2>6
  <1>2. CASE o = [ok |-> FALSE, p |-> NULL, iv |-> w, h |-> g]
    BY <1>2
  <1> QED
    BY <1>1, <1>2 DEF malloc

\* A live block can be freed.
LEMMA FreeLive ==
  ASSUME NEW g, IsHeap(g), NEW p \in g.live
  PROVE  IsHeap(free(g, p)) /\ free(g, p).live = g.live \ {p}
  <1>1. p # NULL /\ g \in Heaps
    BY DEF IsHeap, NULL
  <1>2. free(g, p) = [g EXCEPT !.live = @ \ {p}, !.bad = @ \/ p \notin g.live]
    BY <1>1 DEF free
  <1>3. /\ free(g, p) \in Heaps
        /\ free(g, p).live = g.live \ {p} /\ free(g, p).next = g.next
    BY <1>1, <1>2 DEF Heaps
  <1>4. ~free(g, p).bad
    BY <1>1, <1>2 DEF Heaps, IsHeap
  <1> QED
    BY <1>3, <1>4 DEF IsHeap

\* So can a block in hand.
LEMMA FreeHeld ==
  ASSUME NEW g, NEW v, NEW hand, Held(g, v, hand), NEW p \in hand
  PROVE  Held(free(g, p), v, hand \ {p})
  <1>1. p \in g.live /\ IsHeap(g) /\ p \notin Owned(v)
    BY DEF Held
  <1>2. IsHeap(free(g, p)) /\ free(g, p).live = g.live \ {p}
    BY <1>1, FreeLive
  <1> QED
    BY <1>1, <1>2 DEF Held

-----------------------------------------------------------------------------
(* Entries.                                                                *)

\* An entry whose places point to different blocks in hand can be stored.
Fits(e, hand) == /\ e.type \in FreedTypes \/ DOMAIN e.own = {}
                 /\ IsInjective(e.own)
                 /\ Range(e.own) \subseteq hand

\* A place is an entry and a place in it.
LEMMA PlaceShape ==
  ASSUME NEW info, NEW a
  PROVE  a \in Places(info) <=> \E i \in DOMAIN info : /\ info[i].type \in FreedTypes
                                                       /\ \E q \in DOMAIN info[i].own : a = <<i, q>>
  BY DEF Places

\* Storing an entry leaves the others where they are.
LEMMA AppendShape ==
  ASSUME NEW T, NEW info \in Seq(T), NEW e
  PROVE  /\ Append(info, e) \in Seq(T \cup {e})
         /\ Len(Append(info, e)) = Len(info) + 1
         /\ DOMAIN Append(info, e) = DOMAIN info \cup {Len(info) + 1}
         /\ Len(info) + 1 \notin DOMAIN info
         /\ \A i \in DOMAIN info : Append(info, e)[i] = info[i]
         /\ Append(info, e)[Len(info) + 1] = e
  <1>1. info \in Seq(T \cup {e}) /\ e \in T \cup {e}
    OBVIOUS
  <1> DEFINE U == T \cup {e}
  <1> HIDE DEF U
  <1> QED
    BY <1>1 DEF U

\* A sequence is one of its own elements.
LEMMA OfItsRange ==
  ASSUME NEW T, NEW s \in Seq(T)
  PROVE  s \in Seq(Range(s))
  <1>1. Len(s) \in Nat /\ DOMAIN s = 1 .. Len(s) /\ s \in [1 .. Len(s) -> Range(s)]
    BY DEF Range
  <1> QED
    BY <1>1

\* What the entries own after one more has been stored.
LEMMA OwnAppend ==
  ASSUME NEW T, NEW info \in Seq(T), NEW e, NEW hand, Fits(e, hand)
  PROVE  LET new == Own(Append(info, e))
         IN  /\ \A a \in Places(info) : a \in DOMAIN new /\ new[a] = Own(info)[a]
             /\ \A a \in DOMAIN new \ Places(info) :
                   \E q \in DOMAIN e.own : a = <<Len(info) + 1, q>> /\ new[a] = e.own[q]
             /\ \A q \in DOMAIN e.own :
                   /\ <<Len(info) + 1, q>> \in DOMAIN new
                   /\ new[<<Len(info) + 1, q>>] = e.own[q]
  <1> DEFINE n == Len(info) + 1
             longer == Append(info, e)
  <1>1. /\ DOMAIN longer = DOMAIN info \cup {n} /\ n \notin DOMAIN info
        /\ \A i \in DOMAIN info : longer[i] = info[i]
        /\ longer[n] = e
    BY AppendShape
  <1>2. /\ Own(longer) = [a \in Places(longer) |-> longer[a[1]].own[a[2]]]
        /\ Own(info) = [a \in Places(info) |-> info[a[1]].own[a[2]]]
    BY DEF Own
  <1> HIDE DEF n, longer
  <1>3. ASSUME NEW a \in Places(info)
        PROVE  a \in Places(longer) /\ Own(longer)[a] = Own(info)[a]
    <2>1. PICK i \in DOMAIN info : /\ info[i].type \in FreedTypes
                                   /\ \E q \in DOMAIN info[i].own : a = <<i, q>>
      BY <1>3, PlaceShape
    <2>2. PICK q \in DOMAIN info[i].own : a = <<i, q>>
      BY <2>1
    <2>3. i \in DOMAIN longer /\ longer[i] = info[i]
      BY <1>1
    <2>4. a \in Places(longer)
      BY <2>1, <2>2, <2>3, PlaceShape
    <2>5. a[1] = i /\ a[2] = q
      BY <2>2
    <2> QED
      BY <1>2, <1>3, <2>3, <2>4, <2>5
  <1>4. ASSUME NEW a \in Places(longer), a \notin Places(info)
        PROVE  \E q \in DOMAIN e.own : a = <<n, q>> /\ Own(longer)[a] = e.own[q]
    <2>1. PICK i \in DOMAIN longer : /\ longer[i].type \in FreedTypes
                                     /\ \E q \in DOMAIN longer[i].own : a = <<i, q>>
      BY <1>4, PlaceShape
    <2>2. PICK q \in DOMAIN longer[i].own : a = <<i, q>>
      BY <2>1
    <2>3. i = n
      BY <1>1, <1>4, <2>1, <2>2, PlaceShape
    <2>4. a[1] = n /\ a[2] = q
      BY <2>2, <2>3
    <2> QED
      BY <1>1, <1>2, <1>4, <2>2, <2>3, <2>4
  <1>5. ASSUME NEW q \in DOMAIN e.own
        PROVE  <<n, q>> \in Places(longer) /\ Own(longer)[<<n, q>>] = e.own[q]
    <2>1. e.type \in FreedTypes
      BY <1>5 DEF Fits
    <2>2. <<n, q>> \in Places(longer)
      BY <1>1, <2>1, PlaceShape
    <2> QED
      BY <1>1, <1>2, <2>2
  <1>6. DOMAIN Own(longer) = Places(longer)
    BY <1>2
  <1> QED
    BY <1>3, <1>4, <1>5, <1>6 DEF n, longer

\* The blocks that a stored entry owns are the vector's.
LEMMA StoreHeld ==
  ASSUME NEW g, NEW v, NEW hand, Held(g, v, hand), v.array # NULL, Len(v.info) < v.length,
         NEW e, Fits(e, hand)
  PROVE  Held(g, Stored(v, e), hand \ Range(e.own)) /\ Stored(v, e).self = v.self
  <1> DEFINE w == Stored(v, e)
             T == Range(v.info)
             old == Own(v.info)
             new == Own(Append(v.info, e))
  <1>1. v \in [self : Nat, array : Nat, length : Nat, info : Seq(T)]
    BY DEF Held, IsVector
  <1>2. v.info \in Seq(T)
    BY <1>1
  <1>3. Append(v.info, e) \in Seq(T \cup {e}) /\ Len(Append(v.info, e)) = Len(v.info) + 1
    BY <1>2, AppendShape
  <1>4. Append(v.info, e) \in Seq(Range(Append(v.info, e)))
    BY <1>3, OfItsRange
  <1> HIDE DEF T
  <1>5. /\ w \in [self : Nat, array : Nat, length : Nat, info : Seq(Range(Append(v.info, e)))]
        /\ w.self = v.self /\ w.array = v.array /\ w.length = v.length
        /\ w.info = Append(v.info, e)
    BY <1>1, <1>4 DEF Stored
  <1>6. /\ \A a \in Places(v.info) : a \in DOMAIN new /\ new[a] = old[a]
        /\ \A a \in DOMAIN new \ Places(v.info) :
              \E q \in DOMAIN e.own : a = <<Len(v.info) + 1, q>> /\ new[a] = e.own[q]
        /\ \A q \in DOMAIN e.own : /\ <<Len(v.info) + 1, q>> \in DOMAIN new
                                   /\ new[<<Len(v.info) + 1, q>>] = e.own[q]
    BY <1>2, OwnAppend
  <1>7. DOMAIN old = Places(v.info)
    BY DEF Own
  <1> HIDE DEF old, new, w
  <1>8. Range(new) = Range(old) \cup Range(e.own)
    <2>1. Range(old) \subseteq Range(new)
      BY <1>6, <1>7 DEF Range
    <2>2. ASSUME NEW q \in DOMAIN e.own PROVE e.own[q] \in Range(new)
      <3>1. <<Len(v.info) + 1, q>> \in DOMAIN new /\ new[<<Len(v.info) + 1, q>>] = e.own[q]
        BY <1>6
      <3> QED
        BY <3>1 DEF Range
    <2>3. ASSUME NEW a \in DOMAIN new PROVE new[a] \in Range(old) \cup Range(e.own)
      <3>1. CASE a \in Places(v.info)
        BY <1>6, <1>7, <3>1 DEF Range
      <3>2. CASE a \notin Places(v.info)
        <4>1. PICK q \in DOMAIN e.own : new[a] = e.own[q]
          BY <1>6, <3>2
        <4> QED
          BY <4>1 DEF Range
      <3> QED
        BY <3>1, <3>2
    <2> QED
      BY <2>1, <2>2, <2>3 DEF Range
  <1>9. Range(e.own) \subseteq hand /\ NULL \notin hand
    BY DEF Fits, Held, IsHeap, NULL
  <1>10. /\ Range(old) \cap hand = {} /\ NULL \notin Range(old)
         /\ {v.array, v.self} \cap Range(old) = {} /\ v.array \notin hand
         /\ v.self \notin hand
    BY <1>9 DEF Held, IsVector, Owned, old
  <1>11. IsInjective(new)
    <2> SUFFICES ASSUME NEW a \in DOMAIN new, NEW b \in DOMAIN new, new[a] = new[b]
                 PROVE  a = b
      BY DEF IsInjective
    <2>1. CASE a \in Places(v.info) /\ b \in Places(v.info)
      <3>1. old[a] = old[b]
        BY <1>6, <2>1
      <3> QED
        BY <1>7, <2>1, <3>1 DEF Held, IsVector, IsInjective, old
    <2>2. CASE a \notin Places(v.info) /\ b \notin Places(v.info)
      <3>1. PICK q \in DOMAIN e.own : a = <<Len(v.info) + 1, q>> /\ new[a] = e.own[q]
        BY <1>6, <2>2
      <3>2. PICK r \in DOMAIN e.own : b = <<Len(v.info) + 1, r>> /\ new[b] = e.own[r]
        BY <1>6, <2>2
      <3> QED
        BY <3>1, <3>2 DEF Fits, IsInjective
    <2>3. ASSUME NEW c \in DOMAIN new, NEW d \in DOMAIN new,
                 c \in Places(v.info), d \notin Places(v.info)
          PROVE  new[c] # new[d]
      <3>1. new[c] \in Range(old)
        BY <1>6, <1>7, <2>3 DEF Range
      <3>2. new[d] \in Range(e.own)
        BY <1>6, <2>3 DEF Range
      <3> QED
        BY <1>9, <1>10, <3>1, <3>2
    <2> QED
      BY <2>1, <2>2, <2>3
  <1>12. /\ {NULL, v.array, v.self} \cap Range(new) = {}
         /\ v.array = v.self => v.self = NULL
    BY <1>8, <1>9, <1>10 DEF Held, IsVector
  <1>13. Own(w.info) = new
    BY <1>5 DEF new
  <1>14. IsVector(w)
    <2>1. w \in [self : Nat, array : Nat, length : Nat, info : Seq(Range(w.info))]
      BY <1>5
    <2>2. Len(w.info) <= w.length
      BY <1>1, <1>2, <1>3, <1>5
    <2> QED
      BY <1>5, <1>11, <1>12, <1>13, <2>1, <2>2 DEF IsVector
  <1>15. Owned(w) = Owned(v) \cup Range(e.own)
    BY <1>5, <1>8, <1>9, <1>13 DEF Owned, old
  <1>16. Held(g, w, hand \ Range(e.own))
    BY <1>9, <1>14, <1>15 DEF Held
  <1> QED
    BY <1>5, <1>16 DEF w

-----------------------------------------------------------------------------
(* The operations of infovec.c.                                            *)

\* A vector may move to a block in hand when it is full.
LEMMA MoveHeld ==
  ASSUME NEW g, NEW v, NEW hand, Held(g, v, hand), NEW p \in hand
  PROVE  /\ Held(free(g, v.array), Moved(v, p), hand \ {p})
         /\ Moved(v, p).self = v.self /\ Moved(v, p).info = v.info
         /\ Moved(v, p).array # NULL
         /\ Moved(v, p).length = v.length + INFOVEC_CHUNK
  <1> DEFINE w == Moved(v, p)
  <1>1. /\ v \in [self : Nat, array : Nat, length : Nat, info : Seq(Range(v.info))]
        /\ p \in Nat /\ p # NULL /\ p \notin Owned(v)
        /\ INFOVEC_CHUNK \in Nat \ {0} /\ v.length + INFOVEC_CHUNK \in Nat
        /\ v.length + INFOVEC_CHUNK # 0
    BY InfovecAssumption DEF Held, IsVector, IsHeap, Heaps, NULL
  <1>2. /\ w \in [self : Nat, array : Nat, length : Nat, info : Seq(Range(v.info))]
        /\ w.self = v.self /\ w.info = v.info /\ w.array = p
        /\ w.length = v.length + INFOVEC_CHUNK
    BY <1>1 DEF Moved
  <1> HIDE DEF w
  <1>3. IsVector(w)
    <2>1. w \in [self : Nat, array : Nat, length : Nat, info : Seq(Range(w.info))]
      BY <1>2
    <2>2. Len(w.info) <= w.length
      BY <1>1, <1>2 DEF Held, IsVector
    <2>3. {NULL, w.array, w.self} \cap Range(Own(w.info)) = {} /\ w.array # w.self
      BY <1>1, <1>2 DEF Held, IsVector, Owned
    <2> QED
      BY <1>1, <1>2, <2>1, <2>2, <2>3 DEF Held, IsVector
  <1>4. Owned(w) = (Owned(v) \ {v.array}) \cup {p}
    BY <1>1, <1>2 DEF Held, IsVector, Owned
  <1>5. v.array \notin hand
    BY DEF Held, IsHeap, Owned, NULL
  <1>6. Held(free(g, v.array), w, hand \ {p})
    <2>1. CASE v.array = NULL
      <3>1. free(g, v.array) = g /\ NULL \notin Owned(v)
        BY <2>1 DEF free, Owned
      <3> QED
        BY <1>1, <1>3, <1>4, <2>1, <3>1 DEF Held
    <2>2. CASE v.array # NULL
      <3>1. v.array \in g.live /\ IsHeap(g)
        BY <2>2 DEF Held, Owned
      <3>2. IsHeap(free(g, v.array)) /\ free(g, v.array).live = g.live \ {v.array}
        BY <3>1, FreeLive
      <3> QED
        BY <1>1, <1>3, <1>4, <1>5, <3>2 DEF Held
    <2> QED
      BY <2>1, <2>2
  <1> QED
    BY <1>1, <1>2, <1>6 DEF w

\* alloc_slot leaves room for an entry, or everything as it was.
LEMMA SlotHeld ==
  ASSUME NEW g, NEW v, NEW hand, Held(g, v, hand), NEW o \in alloc_slot(g, v)
  PROVE  /\ IsOutcome(o)
         /\ Held(o.h, o.iv, hand)
         /\ o.iv.self = v.self
         /\ o.ok => o.iv.array # NULL /\ Len(o.iv.info) < o.iv.length
  <1>0. /\ v \in [self : Nat, array : Nat, length : Nat, info : Seq(Range(v.info))]
        /\ Len(v.info) \in Nat /\ v.length \in Nat /\ Len(v.info) <= v.length
        /\ v.array = NULL => v.length = 0
        /\ INFOVEC_CHUNK \in Nat \ {0}
    BY InfovecAssumption DEF Held, IsVector
  <1>1. CASE Len(v.info) # v.length
    <2>1. o = [ok |-> TRUE, p |-> NULL, iv |-> v, h |-> g]
      BY <1>1 DEF alloc_slot
    <2> QED
      BY <1>0, <1>1, <2>1 DEF IsOutcome
  <1>2. CASE Len(v.info) = v.length
    <2>1. PICK c \in malloc(g, v) :
             o = IF c.ok THEN [c EXCEPT !.h = free(c.h, v.array), !.iv = Moved(@, c.p)]
                 ELSE c
      BY <1>2 DEF alloc_slot
    <2>0. IsOutcome(c) /\ c.iv = v
      BY MallocShape
    <2>2. /\ c.ok => /\ Held(c.h, v, hand \cup {c.p})
                     /\ c.p \in Nat \ {0} /\ c.p \notin g.live
          /\ ~c.ok => c.h = g
      BY MallocHeld
    <2>3. CASE ~c.ok
      BY <2>0, <2>1, <2>2, <2>3 DEF IsOutcome
    <2>4. CASE c.ok
      <3> DEFINE w == Moved(v, c.p)
      <3>1. /\ Held(free(c.h, v.array), w, (hand \cup {c.p}) \ {c.p})
            /\ w.self = v.self /\ w.info = v.info /\ w.array # NULL
            /\ w.length = v.length + INFOVEC_CHUNK
        <4>1. Held(c.h, v, hand \cup {c.p}) /\ c.p \in hand \cup {c.p}
          BY <2>2, <2>4
        <4> QED
          BY <4>1, MoveHeld
      <3>2. o = [c EXCEPT !.h = free(c.h, v.array), !.iv = w]
        <4>1. o = [c EXCEPT !.h = free(c.h, v.array), !.iv = Moved(c.iv, c.p)]
          BY <2>1, <2>4
        <4>2. c.iv = v
          BY <2>0
        <4> QED
          BY <4>1, <4>2
      <3>4. DOMAIN c = {"ok", "p", "iv", "h"}
        BY <2>0 DEF IsOutcome
      <3>5. /\ DOMAIN o = {"ok", "p", "iv", "h"} /\ o.iv = w
            /\ o.h = free(c.h, v.array)
        <4> HIDE DEF w
        <4> QED
          BY <3>2, <3>4
      <3>6. o.ok
        <4> HIDE DEF w
        <4> QED
          BY <2>4, <3>2, <3>4
      <3>3. (hand \cup {c.p}) \ {c.p} = hand
        BY <2>2, <2>4 DEF Held
      <3> HIDE DEF w
      <3>7. Held(o.h, o.iv, hand)
        BY <3>1, <3>3, <3>5
      <3>8. Len(o.iv.info) < o.iv.length
        BY <1>0, <1>2, <3>1, <3>5
      <3> QED
        BY <3>1, <3>5, <3>6, <3>7, <3>8 DEF IsOutcome
    <2> QED
      BY <2>2, <2>3, <2>4
  <1> QED
    BY <1>1, <1>2

\* A setter puts what its entry owns into the vector, or fails and leaves it.
LEMMA PutHeld ==
  ASSUME NEW g, NEW v, NEW hand, Held(g, v, hand), NEW e, Fits(e, hand), NEW o \in Put(g, v, e)
  PROVE  /\ IsOutcome(o)
         /\ o.iv.self = v.self
         /\ o.ok => Held(o.h, o.iv, hand \ Range(e.own))
         /\ ~o.ok => Held(o.h, o.iv, hand)
  <1>1. PICK s \in alloc_slot(g, v) : o = IF s.ok THEN [s EXCEPT !.iv = Stored(@, e)] ELSE s
    BY DEF Put
  <1>2. /\ DOMAIN s = {"ok", "p", "iv", "h"}
        /\ Held(s.h, s.iv, hand)
        /\ s.iv.self = v.self
        /\ s.ok => s.iv.array # NULL /\ Len(s.iv.info) < s.iv.length
    BY SlotHeld DEF IsOutcome
  <1>3. CASE ~s.ok
    BY <1>1, <1>2, <1>3 DEF IsOutcome
  <1>4. CASE s.ok
    <2>1. /\ Held(s.h, Stored(s.iv, e), hand \ Range(e.own))
          /\ Stored(s.iv, e).self = s.iv.self
      BY <1>2, <1>4, StoreHeld
    <2>2. o = [s EXCEPT !.iv = Stored(s.iv, e)]
      BY <1>1, <1>4
    <2>3. DOMAIN o = {"ok", "p", "iv", "h"} /\ o.iv = Stored(s.iv, e) /\ o.h = s.h
      BY <1>2, <2>2
    <2>4. o.ok
      BY <1>2, <1>4, <2>2
    <2> QED
      BY <1>2, <2>1, <2>3, <2>4 DEF IsOutcome
  <1> QED
    BY <1>3, <1>4

\* A number fits, and so does a block in hand.
LEMMA PlainFits ==
  ASSUME NEW key, NEW type, NEW val, NEW hand
  PROVE  Fits(Entry(key, type, val, Plain), hand) /\ Range(Plain) = {}
  <1>1. DOMAIN Plain = {}
    BY DEF Plain
  <1>2. Entry(key, type, val, Plain).own = Plain
    BY DEF Entry
  <1> HIDE DEF Plain
  <1> QED
    BY <1>1, <1>2 DEF Fits, IsInjective, Range

LEMMA StringFits ==
  ASSUME NEW key, NEW val, NEW hand, NEW p \in hand
  PROVE  LET e == Entry(key, "PMIX_STRING", val, PointsTo(p))
         IN  Fits(e, hand) /\ Range(e.own) = {p}
  <1>1. DOMAIN PointsTo(p) = {PointerPlace} /\ PointsTo(p)[PointerPlace] = p
    BY DEF PointsTo
  <1>2. Range(PointsTo(p)) = {p} /\ IsInjective(PointsTo(p))
    BY <1>1 DEF Range, IsInjective
  <1> QED
    BY <1>2 DEF Entry, Fits, FreedTypes

\* infovec_set_u32 and its kind.
LEMMA SetPlainHeld ==
  ASSUME NEW g, NEW v, NEW hand, Held(g, v, hand), NEW key, NEW type, NEW val,
         NEW o \in Put(g, v, Entry(key, type, val, Plain))
  PROVE  IsOutcome(o) /\ o.iv.self = v.self /\ Held(o.h, o.iv, hand)
  <1> DEFINE e == Entry(key, type, val, Plain)
  <1>1. Fits(e, hand) /\ Range(e.own) = {}
    BY PlainFits DEF Entry
  <1>2. hand \ {} = hand
    OBVIOUS
  <1> HIDE DEF e
  <1>3. o \in Put(g, v, e)
    BY DEF e
  <1> QED
    BY <1>1, <1>2, <1>3, PutHeld

\* A string that is handed over is the vector's, or it is freed.
LEMMA HandHeld ==
  ASSUME NEW g, NEW v, NEW hand, Held(g, v, hand), NEW p \in hand, NEW key, NEW val,
         NEW o \in OrElse(infovec_set_str_new(g, v, key, val, p), LAMBDA d : free(d, p))
  PROVE  IsOutcome(o) /\ o.iv.self = v.self /\ Held(o.h, o.iv, hand \ {p})
  <1> DEFINE e == Entry(key, "PMIX_STRING", val, PointsTo(p))
  <1>1. Fits(e, hand) /\ Range(e.own) = {p}
    BY StringFits
  <1>2. PICK s \in Put(g, v, e) : o = IF s.ok THEN s ELSE [s EXCEPT !.h = free(s.h, p)]
    BY DEF OrElse, infovec_set_str_new
  <1> HIDE DEF e
  <1>3. /\ DOMAIN s = {"ok", "p", "iv", "h"}
        /\ s.iv.self = v.self
        /\ s.ok => Held(s.h, s.iv, hand \ {p})
        /\ ~s.ok => Held(s.h, s.iv, hand)
    <2>1. Fits(e, hand) /\ Range(e.own) = {p}
      BY <1>1 DEF e
    <2>2. /\ IsOutcome(s)
          /\ s.iv.self = v.self
          /\ s.ok => Held(s.h, s.iv, hand \ Range(e.own))
          /\ ~s.ok => Held(s.h, s.iv, hand)
      BY <2>1, PutHeld
    <2> QED
      BY <2>1, <2>2 DEF IsOutcome
  <1>4. CASE s.ok
    BY <1>2, <1>3, <1>4 DEF IsOutcome
  <1>5. CASE ~s.ok
    <2>1. Held(free(s.h, p), s.iv, hand \ {p})
      BY <1>3, <1>5, FreeHeld
    <2>2. o = [s EXCEPT !.h = free(s.h, p)]
      BY <1>2, <1>5
    <2>3. DOMAIN o = {"ok", "p", "iv", "h"} /\ o.iv = s.iv /\ o.h = free(s.h, p)
      BY <1>3, <2>2
    <2> QED
      BY <1>3, <2>1, <2>3 DEF IsOutcome
  <1> QED
    BY <1>4, <1>5

\* infovec_set_str keeps the copy or nothing.
LEMMA SetStrHeld ==
  ASSUME NEW g, NEW v, NEW hand, Held(g, v, hand), NEW key, NEW val,
         NEW o \in infovec_set_str(g, v, key, val)
  PROVE  IsOutcome(o) /\ o.iv.self = v.self /\ Held(o.h, o.iv, hand)
  <1>1. PICK c \in malloc(g, v) :
           o \in IF c.ok THEN OrElse(infovec_set_str_new(c.h, v, key, val, c.p),
                                     LAMBDA d : free(d, c.p))
                 ELSE {c}
    BY DEF infovec_set_str, Then
  <1>0. IsOutcome(c) /\ c.iv = v
    BY MallocShape
  <1>2. /\ c.ok => Held(c.h, v, hand \cup {c.p}) /\ c.p \notin g.live
        /\ ~c.ok => c.h = g
    BY MallocHeld
  <1>3. CASE ~c.ok
    BY <1>0, <1>1, <1>2, <1>3 DEF IsOutcome
  <1>4. CASE c.ok
    <2>1. IsOutcome(o) /\ o.iv.self = v.self /\ Held(o.h, o.iv, (hand \cup {c.p}) \ {c.p})
      BY <1>1, <1>2, <1>4, HandHeld
    <2>2. (hand \cup {c.p}) \ {c.p} = hand
      BY <1>2, <1>4 DEF Held
    <2> QED
      BY <2>1, <2>2
  <1> QED
    BY <1>3, <1>4

-----------------------------------------------------------------------------
(* Destroying and nesting.                                                 *)

\* The places of a vector, its array's included, point to all that it owns but
\* the block of the vector itself.
LEMMA BlocksOwned ==
  ASSUME NEW v, IsVector(v)
  PROVE  LET blocks == Blocks(v.array, v.info)
         IN  /\ Range(blocks) = Owned(v) \ {v.self}
             /\ IsInjective(blocks)
             /\ PointerPlace \notin DOMAIN blocks
             /\ NULL \notin Range(blocks)
  <1> DEFINE blocks == Blocks(v.array, v.info)
             own == Own(v.info)
  <1>1. /\ DOMAIN own = Places(v.info)
        /\ \A a \in Places(v.info) : own[a] = v.info[a[1]].own[a[2]]
    BY DEF Own
  <1>2. /\ v.info \in Seq(Range(v.info)) /\ Len(v.info) <= v.length /\ v.length \in Nat
        /\ v.array \in Nat /\ v.self \in Nat
    BY DEF IsVector
  <1>3. \A a \in Places(v.info) : \E i \in DOMAIN v.info : i > 0 /\ \E q : a = <<i, q>>
    BY <1>2, PlaceShape
  <1>4. /\ ArrayPlace \notin Places(v.info) /\ PointerPlace \notin Places(v.info)
        /\ ArrayPlace # PointerPlace
    <2>1. \A a \in Places(v.info) : a[1] > 0
      BY <1>3
    <2> QED
      BY <2>1 DEF ArrayPlace, PointerPlace
  <1>5. CASE v.array = NULL
    <2>1. v.info = <<>>
      BY <1>2, <1>5 DEF IsVector
    <2>2. Places(v.info) = {} /\ blocks = <<>>
      BY <1>5, <2>1, PlaceShape DEF Blocks, Plain
    <2>3. Range(own) = {} /\ DOMAIN blocks = {}
      BY <1>1, <2>2 DEF Range
    <2> HIDE DEF own, blocks
    <2>4. Range(blocks) = {} /\ IsInjective(blocks)
      BY <2>3 DEF Range, IsInjective
    <2>5. Owned(v) \ {v.self} = {}
      BY <1>5, <2>3 DEF Owned, own
    <2> QED
      BY <2>3, <2>4, <2>5 DEF blocks
  <1>6. CASE v.array # NULL
    <2>1. /\ DOMAIN blocks = Places(v.info) \cup {ArrayPlace}
          /\ blocks[ArrayPlace] = v.array
          /\ \A a \in Places(v.info) : blocks[a] = own[a]
      BY <1>1, <1>4, <1>6 DEF Blocks
    <2> HIDE DEF own, blocks
    <2>2. Range(blocks) = Range(own) \cup {v.array}
      BY <1>1, <2>1 DEF Range
    <2>3. IsInjective(own) /\ {NULL, v.array, v.self} \cap Range(own) = {}
      BY DEF IsVector, own
    <2>4. \A a \in Places(v.info) : own[a] # v.array
      BY <1>1, <2>3 DEF Range
    <2>5. IsInjective(blocks)
      BY <1>1, <2>1, <2>3, <2>4 DEF IsInjective
    <2>6. Owned(v) \ {v.self} = Range(own) \cup {v.array}
      BY <1>6, <2>3 DEF Owned, IsVector, own
    <2> QED
      BY <1>4, <1>6, <2>1, <2>2, <2>3, <2>5, <2>6 DEF blocks
  <1> QED
    BY <1>5, <1>6

\* infovec_destroy frees what the vector owns, once.
LEMMA DestroyLive ==
  ASSUME NEW g, IsHeap(g), NEW v, IsVector(v), Owned(v) \subseteq g.live
  PROVE  /\ IsHeap(infovec_destroy(g, v))
         /\ infovec_destroy(g, v).live = g.live \ Owned(v)
  <1> DEFINE blocks == Blocks(v.array, v.info)
             freed == Range(blocks) \ {NULL}
             twice == \E q, r \in DOMAIN blocks :
                         q # r /\ blocks[q] = blocks[r] /\ blocks[q] # NULL
             mid == destroy_info_array(g, v.array, v.info)
  <1>1. /\ Range(blocks) = Owned(v) \ {v.self}
        /\ IsInjective(blocks)
        /\ NULL \notin Range(blocks)
    BY BlocksOwned
  <1>2. mid = [g EXCEPT !.live = @ \ freed, !.bad = @ \/ twice \/ ~(freed \subseteq g.live)]
    BY DEF destroy_info_array
  <1>3. ~twice
    BY <1>1 DEF IsInjective
  <1> HIDE DEF blocks, twice, mid
  <1>4. freed \subseteq g.live /\ freed = Owned(v) \ {v.self}
    BY <1>1
  <1> HIDE DEF freed
  <1>5. g \in Heaps /\ ~g.bad
    BY DEF IsHeap
  <1>6. mid \in Heaps /\ mid.live = g.live \ freed /\ mid.next = g.next
    BY <1>2, <1>5 DEF Heaps
  <1>7. ~mid.bad
    BY <1>2, <1>3, <1>4, <1>5 DEF Heaps
  <1>8. IsHeap(mid)
    BY <1>6, <1>7 DEF IsHeap
  <1>9. infovec_destroy(g, v) = free(mid, v.self)
    BY DEF infovec_destroy, mid
  <1>10. CASE v.self = NULL
    <2>1. free(mid, v.self) = mid /\ freed = Owned(v)
      BY <1>4, <1>10 DEF free, Owned
    <2> QED
      BY <1>6, <1>8, <1>9, <2>1
  <1>11. CASE v.self # NULL
    <2>1. v.self \in Owned(v)
      BY <1>11 DEF Owned
    <2>2. v.self \in mid.live
      BY <1>4, <1>6, <2>1
    <2>3. IsHeap(free(mid, v.self)) /\ free(mid, v.self).live = mid.live \ {v.self}
      BY <1>8, <2>2, FreeLive
    <2> QED
      BY <1>4, <1>6, <1>9, <2>1, <2>3
  <1> QED
    BY <1>10, <1>11

\* A vector in hand can be destroyed.
LEMMA DestroyHeld ==
  ASSUME NEW g, NEW w, NEW hand, Held(g, w, hand),
         NEW v, IsVector(v), Owned(v) \subseteq hand
  PROVE  Held(infovec_destroy(g, v), w, hand \ Owned(v))
  <1>1. IsHeap(g) /\ Owned(v) \subseteq g.live
    BY DEF Held
  <1>2. /\ IsHeap(infovec_destroy(g, v))
        /\ infovec_destroy(g, v).live = g.live \ Owned(v)
    BY <1>1, DestroyLive
  <1> QED
    BY <1>2 DEF Held

\* A vector in hand can be nested, with a new block for its pmix_data_array_t.
LEMMA NestedFits ==
  ASSUME NEW v, IsVector(v), NEW hand, Owned(v) \subseteq hand, NEW key,
         NEW c, c.ok => c.p \in hand \ Owned(v)
  PROVE  LET e == Nested(key, v, c)
         IN  /\ Fits(e, hand)
             /\ c.ok => Range(e.own) = (Owned(v) \ {v.self}) \cup {c.p}
             /\ ~c.ok => Range(e.own) = {}
  <1> DEFINE e == Nested(key, v, c)
             blocks == Blocks(v.array, v.info)
  <1>1. /\ Range(blocks) = Owned(v) \ {v.self}
        /\ IsInjective(blocks)
        /\ PointerPlace \notin DOMAIN blocks
    BY BlocksOwned
  <1>2. CASE ~c.ok
    <2>1. e = Entry(key, "PMIX_DATA_ARRAY", NoVector, Plain)
      BY <1>2 DEF Nested
    <2> QED
      BY <1>2, <2>1, PlainFits DEF Entry
  <1>3. CASE c.ok
    <2>1. e.type = "PMIX_DATA_ARRAY" /\
          e.own = [q \in DOMAIN blocks \cup {PointerPlace} |->
                      IF q = PointerPlace THEN c.p ELSE blocks[q]]
      BY <1>3 DEF Nested, Entry
    <2> HIDE DEF e, blocks
    <2>2. /\ DOMAIN e.own = DOMAIN blocks \cup {PointerPlace}
          /\ e.own[PointerPlace] = c.p
          /\ \A q \in DOMAIN blocks : e.own[q] = blocks[q]
      BY <1>1, <2>1
    <2>3. Range(e.own) = Range(blocks) \cup {c.p}
      BY <2>2 DEF Range
    <2>4. \A q \in DOMAIN blocks : blocks[q] # c.p
      BY <1>1, <1>3 DEF Range
    <2>5. IsInjective(e.own)
      BY <1>1, <2>2, <2>4 DEF IsInjective
    <2>6. Fits(e, hand)
      BY <1>1, <1>3, <2>1, <2>3, <2>5 DEF Fits, FreedTypes
    <2> QED
      BY <1>1, <1>3, <2>3, <2>6 DEF e
  <1> QED
    BY <1>2, <1>3

\* The outcomes of filling the slot in s with a nested array.
Taken(s, key, w) == {[c EXCEPT !.iv = Stored(@, Nested(key, w, c))] : c \in malloc(s.h, s.iv)}

\* What the nested vector owned is the outer one's, but for its own block.
LEMMA TakenHeld ==
  ASSUME NEW s, NEW hand, Held(s.h, s.iv, hand), s.iv.array # NULL,
         Len(s.iv.info) < s.iv.length,
         NEW w, IsVector(w), Owned(w) \subseteq hand, NEW key, NEW t \in Taken(s, key, w)
  PROVE  /\ IsOutcome(t) /\ t.iv.self = s.iv.self
         /\ t.ok => Held(t.h, t.iv, hand \ (Owned(w) \ {w.self}))
         /\ ~t.ok => Held(t.h, t.iv, hand)
  <1> DEFINE g == s.h
             v == s.iv
  <1>0. /\ Held(g, v, hand) /\ v.array # NULL /\ Len(v.info) < v.length
    OBVIOUS
  <1>1. PICK c \in malloc(g, v) : t = [c EXCEPT !.iv = Stored(@, Nested(key, w, c))]
    BY DEF Taken
  <1> DEFINE e == Nested(key, w, c)
  <1> HIDE DEF g, v
  <1>2. /\ c.ok => Held(c.h, Stored(v, e), hand \ (Owned(w) \ {w.self}))
        /\ ~c.ok => Held(c.h, Stored(v, e), hand)
        /\ Stored(v, e).self = v.self
    <2> DEFINE held == IF c.ok THEN hand \cup {c.p} ELSE hand
    <2>1. /\ c.ok => Held(c.h, v, hand \cup {c.p}) /\ c.p \notin g.live
          /\ ~c.ok => c.h = g
      BY <1>0, MallocHeld
    <2>2. c.ok => c.p \notin hand
      BY <1>0, <2>1 DEF Held
    <2>3. Held(c.h, v, held)
      BY <1>0, <2>1
    <2>4. Owned(w) \subseteq held /\ (c.ok => c.p \in held \ Owned(w))
      BY <2>2
    <2> HIDE DEF e, held
    <2>5. /\ Fits(e, held)
          /\ c.ok => Range(e.own) = (Owned(w) \ {w.self}) \cup {c.p}
          /\ ~c.ok => Range(e.own) = {}
      BY <2>4, NestedFits DEF e
    <2>6. Held(c.h, Stored(v, e), held \ Range(e.own)) /\ Stored(v, e).self = v.self
      <3> SUFFICES ASSUME NEW gg, NEW vv, NEW hh, NEW ee, Held(gg, vv, hh), vv.array # NULL,
                          Len(vv.info) < vv.length, Fits(ee, hh)
                   PROVE  Held(gg, Stored(vv, ee), hh \ Range(ee.own)) /\ Stored(vv, ee).self = vv.self
        BY <1>0, <2>3, <2>5
      <3> QED
        BY StoreHeld
    <2>7. held \ Range(e.own) = IF c.ok THEN hand \ (Owned(w) \ {w.self}) ELSE hand
      BY <2>2, <2>5 DEF held
    <2> QED
      BY <2>6, <2>7
  <1> HIDE DEF e
  <1>3. c.iv = v /\ DOMAIN c = {"ok", "p", "iv", "h"}
    BY MallocShape DEF IsOutcome
  <1>4. t = [c EXCEPT !.iv = Stored(v, e)]
    BY <1>1, <1>3 DEF e
  <1>5. DOMAIN t = {"ok", "p", "iv", "h"} /\ t.iv = Stored(v, e) /\ t.h = c.h
    BY <1>3, <1>4
  <1>6. t.ok <=> c.ok
    BY <1>3, <1>4
  <1> QED
    BY <1>2, <1>5, <1>6 DEF IsOutcome, v

\* infovec_set_infovec_new takes over what the nested vector owns, or nothing.
LEMMA SetInfovecHeld ==
  ASSUME NEW g, NEW v, NEW hand, Held(g, v, hand),
         NEW w, IsVector(w), w.self # NULL, Owned(w) \subseteq hand, NEW key,
         NEW o \in infovec_set_infovec_new(g, v, key, w)
  PROVE  /\ IsOutcome(o)
         /\ o.iv.self = v.self
         /\ o.ok => Held(o.h, o.iv, hand \ Owned(w))
         /\ ~o.ok => Held(o.h, o.iv, hand)
  <1>1. PICK s \in alloc_slot(g, v) :
           \E t \in IF s.ok THEN Taken(s, key, w) ELSE {s} :
              o \in IF t.ok THEN {[t EXCEPT !.h = free(@, w.self)]} ELSE {t}
    BY DEF infovec_set_infovec_new, Then, Taken
  <1>2. /\ IsOutcome(s)
        /\ Held(s.h, s.iv, hand)
        /\ s.iv.self = v.self
        /\ s.ok => s.iv.array # NULL /\ Len(s.iv.info) < s.iv.length
    BY SlotHeld
  <1>3. CASE ~s.ok
    <2>1. o = s
      BY <1>1, <1>3
    <2> QED
      BY <1>2, <1>3, <2>1
  <1>4. CASE s.ok
    <2>1. PICK t \in Taken(s, key, w) :
             o \in IF t.ok THEN {[t EXCEPT !.h = free(@, w.self)]} ELSE {t}
      BY <1>1, <1>4
    <2>2. /\ IsOutcome(t) /\ t.iv.self = s.iv.self
          /\ t.ok => Held(t.h, t.iv, hand \ (Owned(w) \ {w.self}))
          /\ ~t.ok => Held(t.h, t.iv, hand)
      BY <1>2, <1>4, TakenHeld
    <2>3. CASE ~t.ok
      BY <1>2, <2>1, <2>2, <2>3
    <2>4. CASE t.ok
      <3>1. o = [t EXCEPT !.h = free(t.h, w.self)]
        BY <2>1, <2>4
      <3>2. DOMAIN t = {"ok", "p", "iv", "h"}
        BY <2>2 DEF IsOutcome
      <3>3. DOMAIN o = {"ok", "p", "iv", "h"} /\ o.iv = t.iv /\ o.h = free(t.h, w.self)
        BY <3>1, <3>2
      <3>4. o.ok
        BY <2>4, <3>1, <3>2
      <3> DEFINE kept == hand \ (Owned(w) \ {w.self})
      <3>5. w.self \in kept /\ kept \ {w.self} = hand \ Owned(w)
        BY DEF Owned
      <3>6. Held(t.h, t.iv, kept)
        BY <2>2, <2>4
      <3> HIDE DEF kept
      <3>7. Held(free(t.h, w.self), t.iv, kept \ {w.self})
        BY <3>5, <3>6, FreeHeld
      <3> QED
        BY <1>2, <2>2, <3>3, <3>4, <3>5, <3>7 DEF IsOutcome
    <2> QED
      BY <2>3, <2>4
  <1> QED
    BY <1>3, <1>4

-----------------------------------------------------------------------------
(* px_init.                                                                *)

\* A vector without an array owns its own block, if that.
LEMMA EmptyVector ==
  ASSUME NEW p \in Nat
  PROVE  LET v == [NoVector EXCEPT !.self = p]
         IN  IsVector(v) /\ Owned(v) = {p} \ {NULL} /\ v.self = p
  <1> DEFINE v == [NoVector EXCEPT !.self = p]
  <1>1. /\ v.self = p /\ v.array = NULL /\ v.length = 0 /\ v.info = <<>>
        /\ v \in [self : Nat, array : Nat, length : Nat, info : {<<>>}]
    BY DEF NoVector, NULL
  <1> HIDE DEF v
  <1>2. /\ <<>> \in Seq(Range(<<>>)) /\ Len(<<>>) = 0 /\ DOMAIN <<>> = {}
    OBVIOUS
  <1>3. Places(<<>>) = {}
    BY <1>2, PlaceShape
  <1>4. DOMAIN Own(<<>>) = {}
    BY <1>3 DEF Own
  <1>5. Range(Own(<<>>)) = {} /\ IsInjective(Own(<<>>))
    BY <1>4 DEF Range, IsInjective
  <1>6. v \in [self : Nat, array : Nat, length : Nat, info : Seq(Range(v.info))]
    BY <1>1, <1>2
  <1>7. IsVector(v)
    BY <1>1, <1>2, <1>5, <1>6 DEF IsVector
  <1>8. Owned(v) = {p} \ {NULL}
    BY <1>1, <1>5 DEF Owned
  <1> QED
    BY <1>1, <1>7, <1>8 DEF v

\* The vector before infovec_create owns nothing.
LEMMA NoVectorOwns == IsVector(NoVector) /\ Owned(NoVector) = {}
  <1>1. NoVector \in [self : Nat, array : Nat, length : Nat, info : {<<>>}] /\ NoVector.self = 0
    BY DEF NoVector, NULL
  <1>2. [NoVector EXCEPT !.self = 0] = NoVector
    BY <1>1
  <1> QED
    BY <1>2, EmptyVector DEF NULL

\* infovec_create makes an empty vector, or none.
LEMMA CreateHeld ==
  ASSUME NEW g, IsHeap(g), NEW o \in infovec_create(g)
  PROVE  /\ IsOutcome(o)
         /\ Held(o.h, o.iv, g.live)
         /\ o.ok => o.iv.self # NULL
  <1>1. Held(g, NoVector, g.live)
    BY NoVectorOwns DEF Held
  <1>2. PICK c \in malloc(g, NoVector) : o = [c EXCEPT !.iv = [NoVector EXCEPT !.self = c.p]]
    BY DEF infovec_create
  <1> DEFINE v == [NoVector EXCEPT !.self = c.p]
  <1>3. DOMAIN c = {"ok", "p", "iv", "h"}
    BY MallocShape DEF IsOutcome
  <1>4. DOMAIN o = {"ok", "p", "iv", "h"} /\ o.iv = v /\ o.h = c.h
    <2> HIDE DEF v
    <2> QED
      BY <1>2, <1>3 DEF v
  <1>5. o.ok <=> c.ok
    BY <1>2, <1>3
  <1>6. /\ c.ok => /\ Held(c.h, NoVector, g.live \cup {c.p})
                   /\ c.p \in Nat \ {0} /\ c.p \notin g.live
        /\ ~c.ok => c.h = g
    BY <1>1, MallocHeld
  <1>7. CASE c.ok
    <2>1. IsVector(v) /\ Owned(v) = {c.p} /\ v.self = c.p /\ c.p # NULL
      BY <1>6, <1>7, EmptyVector DEF NULL
    <2> HIDE DEF v
    <2>2. Held(c.h, v, g.live)
      BY <1>6, <1>7, <2>1, NoVectorOwns DEF Held
    <2> QED
      BY <1>4, <2>1, <2>2 DEF IsOutcome
  <1>8. CASE ~c.ok
    <2>1. c.p = 0
      BY <1>8 DEF malloc, NULL
    <2>2. IsVector(v) /\ Owned(v) = {}
      BY <2>1, EmptyVector DEF NULL
    <2> HIDE DEF v
    <2> QED
      BY <1>4, <1>5, <1>6, <1>8, <2>2 DEF Held, IsOutcome
  <1> QED
    BY <1>7, <1>8

\* Two vectors are in each other's hands.
LEMMA SwapHeld ==
  ASSUME NEW g, NEW v, NEW w, Held(g, v, Owned(w)), IsVector(w)
  PROVE  Held(g, w, Owned(v))
  BY DEF Held

\* Between two statements of px_init the namespace's vector owns every live block.
Outside == {"infovec_create", "returned"}

HeapInv == /\ Held(h, iv, {})
           /\ at \in Outside => iv = NoVector

LEMMA HeapInvInit == Init => HeapInv
  <1> SUFFICES ASSUME Init PROVE HeapInv
    OBVIOUS
  <1>1. h.live = {} /\ IsHeap(h)
    BY DEF Init, EmptyHeap, IsHeap, Heaps
  <1> QED
    BY <1>1, NoVectorOwns DEF Init, HeapInv, Held

\* An operand of px_init leaves nothing in hand, whether it fails or not.
LEMMA OperandInv ==
  ASSUME HeapInv, NEW here, NEW there, there \notin Outside, NEW outcomes,
         \A o \in outcomes : Held(o.h, o.iv, {}),
         Operand(here, there, outcomes)
  PROVE  HeapInv'
  BY DEF Operand, HeapInv, Outside

\* The plain setters.
LEMMA SetPlainInv ==
  ASSUME HeapInv, NEW key, NEW type, NEW val, NEW there, there \notin Outside,
         Operand(key, there, Put(h, iv, Entry(key, type, val, Plain)))
  PROVE  HeapInv'
  <1>1. \A o \in Put(h, iv, Entry(key, type, val, Plain)) : Held(o.h, o.iv, {})
    BY SetPlainHeld DEF HeapInv
  <1> QED
    BY <1>1, OperandInv

\* infovec_set_str.
LEMMA SetStrInv ==
  ASSUME HeapInv, NEW key, NEW val, NEW there, there \notin Outside, SetStr(key, val, there)
  PROVE  HeapInv'
  <1>1. \A o \in infovec_set_str(h, iv, key, val) : Held(o.h, o.iv, {})
    BY SetStrHeld DEF HeapInv
  <1>2. Operand(key, there, infovec_set_str(h, iv, key, val))
    BY DEF SetStr
  <1> QED
    BY <1>1, <1>2, OperandInv

\* infovec_create, of the first operand.
LEMMA CreateInv == HeapInv /\ Create => HeapInv'
<1>1. SUFFICES ASSUME HeapInv, Create
               PROVE  HeapInv'
  OBVIOUS
<1>2. at = "infovec_create" /\ Operand("infovec_create", "PMIX_JOBID", infovec_create(h))
  BY <1>1 DEF Create, Operand
<1>3. iv = NoVector
  BY <1>1, <1>2 DEF HeapInv, Outside
<1>4. h.live = {} /\ IsHeap(h)
  BY <1>1, <1>3, NoVectorOwns DEF HeapInv, Held
<1>5. \A o \in infovec_create(h) : Held(o.h, o.iv, {})
  BY <1>4, CreateHeld
<1> QED
  BY <1>1, <1>2, <1>5, OperandInv DEF Outside
\* The string of a library call handed over, whichever call fails.
LEMMA HandOverHeld ==
  ASSUME NEW g, NEW v, NEW hand, Held(g, v, hand), NEW key, NEW val,
         NEW o \in HandOver(g, v, key, val)
  PROVE  IsOutcome(o) /\ Held(o.h, o.iv, hand) /\ o.iv.self = v.self
<1>1. PICK m \in malloc(g, v) :
         o \in IF m.ok THEN OrElse(infovec_set_str_new(m.h, v, key, val, m.p),
                                   LAMBDA f : free(f, m.p))
               ELSE {m}
  BY DEF HandOver, Then
<1>2. IsOutcome(m) /\ m.iv = v
  BY MallocShape
<1>3. /\ m.ok => /\ Held(m.h, v, hand \cup {m.p})
                 /\ m.p \in Nat \ {0} /\ m.p \notin g.live
      /\ ~m.ok => m.h = g
  BY MallocHeld
<1>4. CASE m.ok
  <2>0. o \in OrElse(infovec_set_str_new(m.h, v, key, val, m.p), LAMBDA f : free(f, m.p))
    BY <1>1, <1>4
  <2>1. IsOutcome(o) /\ o.iv.self = v.self /\ Held(o.h, o.iv, (hand \cup {m.p}) \ {m.p})
    BY <2>0, <1>3, <1>4, HandHeld
  <2>2. (hand \cup {m.p}) \ {m.p} = hand
    BY <1>3, <1>4 DEF Held
  <2> QED
    BY <2>1, <2>2
<1>5. CASE ~m.ok
  BY <1>1, <1>2, <1>3, <1>5
<1> QED
  BY <1>4, <1>5

LEMMA SetLpeersInv == HeapInv /\ SetLpeers => HeapInv'
<1> DEFINE outcomes == HandOver(h, iv, "PMIX_LOCAL_PEERS", set_lpeers(taskmap, shell_rank))
<1> SUFFICES ASSUME HeapInv, SetLpeers
             PROVE  HeapInv'
  OBVIOUS
<1>1. Operand("PMIX_LOCAL_PEERS", "PMIX_NODE_MAP", outcomes)
  BY DEF SetLpeers
<1>2. \A o \in outcomes : Held(o.h, o.iv, {})
  BY HandOverHeld DEF HeapInv
<1> HIDE DEF outcomes
<1> QED
  BY <1>1, <1>2, OperandInv DEF Outside

\* A map: raw, its regular expression handed over, and raw freed.
LEMMA CookedHeld ==
  ASSUME NEW g, NEW v, Held(g, v, {}), NEW key, NEW val, NEW o \in Cooked(g, v, key, val)
  PROVE  Held(o.h, o.iv, {})
<1>1. PICK raw \in malloc(g, v) :
         o \in IF raw.ok THEN {[c EXCEPT !.h = free(@, raw.p)] :
                                  c \in HandOver(raw.h, raw.iv, key, val)}
               ELSE {raw}
  BY DEF Cooked, Then
<1>2. IsOutcome(raw) /\ raw.iv = v
  BY MallocShape
<1>3. /\ raw.ok => Held(raw.h, v, {raw.p})
      /\ ~raw.ok => raw.h = g
  <2>1. /\ raw.ok => Held(raw.h, v, {} \cup {raw.p})
        /\ ~raw.ok => raw.h = g
    BY MallocHeld
  <2>2. {} \cup {raw.p} = {raw.p}
    OBVIOUS
  <2> QED
    BY <2>1, <2>2
<1>4. CASE raw.ok
  <2>1. PICK c \in HandOver(raw.h, raw.iv, key, val) : o = [c EXCEPT !.h = free(@, raw.p)]
    BY <1>1, <1>4
  <2>2. IsOutcome(c) /\ Held(c.h, c.iv, {raw.p})
    BY <1>2, <1>3, <1>4, HandOverHeld
  <2>3. Held(free(c.h, raw.p), c.iv, {raw.p} \ {raw.p})
    BY <2>2, FreeHeld
  <2>4. {raw.p} \ {raw.p} = {}
    OBVIOUS
  <2>5. o.h = free(c.h, raw.p) /\ o.iv = c.iv
    BY <2>1, <2>2 DEF IsOutcome
  <2> QED
    BY <2>3, <2>4, <2>5
<1>5. CASE ~raw.ok
  BY <1>1, <1>2, <1>3, <1>5
<1> QED
  BY <1>4, <1>5

\* maps.c makes both maps this way.
LEMMA SetMapInv ==
  ASSUME HeapInv, NEW key, NEW val, NEW there, there \notin Outside,
         Operand(key, there, Cooked(h, iv, key, val))
  PROVE  HeapInv'
<1>1. \A o \in Cooked(h, iv, key, val) : Held(o.h, o.iv, {})
  BY CookedHeld DEF HeapInv
<1> QED
  BY <1>1, OperandInv

\* The vector of a rank while it is filled, the namespace's being kept.
Filling(o) == /\ IsOutcome(o)
              /\ Held(o.h, o.iv, Owned(iv))
              /\ o.ok => o.iv.self # NULL

\* One more number in it.
LEMMA FieldHeld ==
  ASSUME NEW o, Filling(o), NEW key, NEW type, NEW val,
         NEW x \in IF o.ok THEN Put(o.h, o.iv, Entry(key, type, val, Plain)) ELSE {o}
  PROVE  Filling(x)
<1>1. CASE o.ok
  <2>1. x \in Put(o.h, o.iv, Entry(key, type, val, Plain)) /\ Held(o.h, o.iv, Owned(iv))
    BY <1>1 DEF Filling
  <2>2. IsOutcome(x) /\ x.iv.self = o.iv.self /\ Held(x.h, x.iv, Owned(iv))
    BY <2>1, SetPlainHeld
  <2> QED
    BY <1>1, <2>2 DEF Filling
<1>2. CASE ~o.ok
  BY <1>2
<1> QED
  BY <1>1, <1>2

\* One turn of the loop: the vector of the rank is nested or freed.
LEMMA ProcInfoHeld ==
  ASSUME HeapInv, NEW rank, NEW o \in ProcInfo(rank)
  PROVE  Held(o.h, o.iv, {})
<1> DEFINE nodeid == taskmap_nodeid(taskmap, rank)
           local_rank == get_local_rank(taskmap, nodeid, rank)
           S0 == infovec_create(h)
           S1 == Then(S0, LAMBDA f : infovec_set_rank(f.h, f.iv, "PMIX_RANK", rank))
           S2 == Then(S1, LAMBDA f : infovec_set_u32(f.h, f.iv, "PMIX_NODEID", nodeid))
           S3 == Then(S2, LAMBDA f : infovec_set_u16(f.h, f.iv, "PMIX_LOCAL_RANK", local_rank))
           S4 == Then(S3, LAMBDA f : infovec_set_u16(f.h, f.iv, "PMIX_NODE_RANK", local_rank))
<1>1. PICK f \in S4 :
         o \in IF f.ok THEN OrElse(infovec_set_infovec_new(f.h, iv, "PMIX_PROC_INFO_ARRAY", f.iv),
                                   LAMBDA g : infovec_destroy(g, f.iv))
               ELSE {[f EXCEPT !.iv = iv, !.h = infovec_destroy(@, f.iv)]}
  BY DEF ProcInfo
<1> HIDE DEF nodeid, local_rank
<1>2. \A x \in S0 : Filling(x)
  <2>1. IsHeap(h) /\ h.live = Owned(iv)
    BY DEF HeapInv, Held
  <2> QED
    BY <2>1, CreateHeld DEF Filling
<1> HIDE DEF S0
<1>3. \A x \in S1 : Filling(x)
  <2> TAKE x \in S1
  <2>1. PICK y \in S0 : x \in IF y.ok THEN Put(y.h, y.iv, Entry("PMIX_RANK", "PMIX_PROC_RANK", rank, Plain))
                              ELSE {y}
    BY DEF Then, infovec_set_rank
  <2> QED
    BY <1>2, <2>1, FieldHeld
<1> HIDE DEF S1
<1>4. \A x \in S2 : Filling(x)
  <2> TAKE x \in S2
  <2>1. PICK y \in S1 : x \in IF y.ok THEN Put(y.h, y.iv, Entry("PMIX_NODEID", "PMIX_UINT32", nodeid, Plain))
                              ELSE {y}
    BY DEF Then, infovec_set_u32
  <2> QED
    BY <1>3, <2>1, FieldHeld
<1> HIDE DEF S2
<1>5. \A x \in S3 : Filling(x)
  <2> TAKE x \in S3
  <2>1. PICK y \in S2 :
           x \in IF y.ok THEN Put(y.h, y.iv, Entry("PMIX_LOCAL_RANK", "PMIX_UINT16",
                                                   local_rank % 2 ^ 16, Plain))
                 ELSE {y}
    BY DEF Then, infovec_set_u16
  <2> QED
    BY <1>4, <2>1, FieldHeld
<1> HIDE DEF S3
<1>6. \A x \in S4 : Filling(x)
  <2> TAKE x \in S4
  <2>1. PICK y \in S3 :
           x \in IF y.ok THEN Put(y.h, y.iv, Entry("PMIX_NODE_RANK", "PMIX_UINT16",
                                                   local_rank % 2 ^ 16, Plain))
                 ELSE {y}
    BY DEF Then, infovec_set_u16
  <2> QED
    BY <1>5, <2>1, FieldHeld
<1>7. Filling(f)
  BY <1>6
<1> HIDE DEF S4
<1>8. IsVector(iv) /\ IsVector(f.iv)
  BY <1>7 DEF HeapInv, Held, Filling
<1>9. Held(f.h, iv, Owned(f.iv))
  BY <1>7, <1>8, SwapHeld DEF Filling
<1>10. Owned(f.iv) \ Owned(f.iv) = {}
  OBVIOUS
<1>11. CASE ~f.ok
  <2>1. o = [f EXCEPT !.iv = iv, !.h = infovec_destroy(@, f.iv)]
    BY <1>1, <1>11
  <2>2. o.iv = iv /\ o.h = infovec_destroy(f.h, f.iv)
    BY <2>1, <1>7 DEF Filling, IsOutcome
  <2>3. Held(infovec_destroy(f.h, f.iv), iv, Owned(f.iv) \ Owned(f.iv))
    BY <1>8, <1>9, DestroyHeld
  <2> QED
    BY <1>10, <2>2, <2>3
<1>12. CASE f.ok
  <2>1. PICK s \in infovec_set_infovec_new(f.h, iv, "PMIX_PROC_INFO_ARRAY", f.iv) :
           o = IF s.ok THEN s ELSE [s EXCEPT !.h = infovec_destroy(@, f.iv)]
    BY <1>1, <1>12 DEF OrElse
  <2>2. f.iv.self # NULL
    BY <1>7, <1>12 DEF Filling
  <2>3. /\ IsOutcome(s)
        /\ s.ok => Held(s.h, s.iv, Owned(f.iv) \ Owned(f.iv))
        /\ ~s.ok => Held(s.h, s.iv, Owned(f.iv))
    BY <1>8, <1>9, <2>1, <2>2, SetInfovecHeld
  <2>4. CASE s.ok
    BY <1>10, <2>1, <2>3, <2>4
  <2>5. CASE ~s.ok
    <3>1. o.iv = s.iv /\ o.h = infovec_destroy(s.h, f.iv)
      BY <2>1, <2>3, <2>5 DEF IsOutcome
    <3>2. Held(infovec_destroy(s.h, f.iv), s.iv, Owned(f.iv) \ Owned(f.iv))
      BY <1>8, <2>3, <2>5, DestroyHeld
    <3> QED
      BY <1>10, <3>1, <3>2
  <2> QED
    BY <2>4, <2>5
<1> QED
  BY <1>11, <1>12

LEMMA SetProcInfosInv == HeapInv /\ SetProcInfos => HeapInv'
<1> SUFFICES ASSUME HeapInv, SetProcInfos
             PROVE  HeapInv'
  OBVIOUS
<1>1. at = "PMIX_PROC_INFO_ARRAY"
  BY DEF SetProcInfos
<1>2. PICK o \in ProcInfo(proc) : /\ iv' = o.iv /\ h' = o.h
                                  /\ at' = IF o.ok THEN at ELSE "destroy"
  BY DEF SetProcInfos
<1>3. Held(h', iv', {})
  BY <1>2, ProcInfoHeld
<1>4. at' \notin Outside
  BY <1>1, <1>2 DEF Outside
<1> QED
  BY <1>3, <1>4 DEF HeapInv

\* infovec_destroy frees all that is live.
LEMMA DestroyInv == HeapInv /\ Destroy => HeapInv'
<1> SUFFICES ASSUME HeapInv, Destroy
             PROVE  HeapInv'
  OBVIOUS
<1>1. IsHeap(h) /\ IsVector(iv) /\ h.live = Owned(iv)
  BY DEF HeapInv, Held
<1>2. IsHeap(infovec_destroy(h, iv)) /\ infovec_destroy(h, iv).live = {}
  BY <1>1, DestroyLive
<1>3. Held(h', NoVector, {})
  BY <1>2, NoVectorOwns DEF Destroy, Held
<1> QED
  BY <1>3 DEF Destroy, HeapInv

LEMMA HeapInvStep == HeapInv /\ [Next]_vars => HeapInv'
<1> SUFFICES ASSUME HeapInv, [Next]_vars
             PROVE  HeapInv'
  OBVIOUS
<1> USE DEF Outside
<1>1. CASE Create
  BY <1>1, CreateInv
<1>2. CASE SetLpeers
  BY <1>2, SetLpeersInv
<1>3. CASE SetNodeMap
  BY <1>3, SetMapInv DEF SetNodeMap
<1>4. CASE SetProcMap
  BY <1>4, SetMapInv DEF SetProcMap
<1>5. CASE SetStr("PMIX_JOBID", "nspace", "PMIX_LOCAL_PEERS")
  BY <1>5, SetStrInv
<1>6. CASE SetStr("PMIX_TMPDIR", "tmpdir", "PMIX_LOCAL_SIZE")
  BY <1>6, SetStrInv
<1>7. ASSUME NEW key, NEW val, NEW there, there \notin Outside, SetBool(key, val, there)
      PROVE  HeapInv'
  BY <1>7, SetPlainInv DEF SetBool, infovec_set_bool
<1>8. ASSUME NEW key, NEW val, NEW there, there \notin Outside, SetU32(key, val, there)
      PROVE  HeapInv'
  BY <1>8, SetPlainInv DEF SetU32, infovec_set_u32
<1>9. CASE SetProcInfos
  BY <1>9, SetProcInfosInv
<1>10. CASE RegisterNspace
  BY <1>10 DEF RegisterNspace, HeapInv
<1>11. CASE Destroy
  BY <1>11, DestroyInv
<1>12. CASE \E rank \in -2 .. MaxTasks : Lookup(rank)
  BY <1>12 DEF Lookup, HeapInv
<1>13. CASE UNCHANGED vars
  BY <1>13 DEF vars, HeapInv
<1>14. CASE px_init
  <2>1. CASE SetBool("PMIX_TDIR_RMCLEAN", TRUE, "PMIX_JOB_NUM_APPS")
    <3> DEFINE val == TRUE
    <3>1. SetBool("PMIX_TDIR_RMCLEAN", val, "PMIX_JOB_NUM_APPS")
      BY <2>1
    <3> HIDE DEF val
    <3> QED
      BY <3>1, <1>7
  <2>2. CASE SetU32("PMIX_JOB_NUM_APPS", 1, "PMIX_TMPDIR")
    BY <2>2, <1>8
  <2>3. CASE SetU32("PMIX_LOCAL_SIZE", ntasks(taskmap, shell_rank), "PMIX_UNIV_SIZE")
    BY <2>3, <1>8
  <2>4. CASE SetU32("PMIX_UNIV_SIZE", Cardinality(DOMAIN taskmap), "PMIX_JOB_SIZE")
    BY <2>4, <1>8
  <2>5. CASE SetU32("PMIX_JOB_SIZE", Cardinality(DOMAIN taskmap), "PMIX_APPNUM")
    BY <2>5, <1>8
  <2>6. CASE SetU32("PMIX_APPNUM", 0, "PMIX_PROC_INFO_ARRAY")
    BY <2>6, <1>8
  <2> QED
    BY <2>1, <2>2, <2>3, <2>4, <2>5, <2>6, <1>1, <1>2, <1>3, <1>4, <1>5, <1>6, <1>9, <1>10,
       <1>11, <1>14
    DEF px_init
<1> QED
  BY <1>12, <1>13, <1>14 DEF Next

LEMMA HeapInvHolds == Spec => []HeapInv
  BY HeapInvInit, HeapInvStep, PTL DEF Spec

-----------------------------------------------------------------------------
\* px_init, whichever allocation fails, returns with every block freed: the heap
\* holds what the namespace's vector owns, and infovec_destroy frees that.
THEOREM NothingIsLeaked == Spec => []NothingLeaked
<1>1. HeapInv => NothingLeaked
  BY NoVectorOwns DEF HeapInv, Held, NothingLeaked, Outside
<1> QED
  BY <1>1, HeapInvHolds, PTL

\* No block is freed twice, realloc'ed after it was freed, or given to the server
\* after it was freed, although a string or a nested array changes owners and
\* every one of these calls may fail halfway.
THEOREM NothingIsUsedAfterFree == Spec => []NoUseAfterFree
<1>1. HeapInv => NoUseAfterFree
  <2> SUFFICES ASSUME HeapInv PROVE NoUseAfterFree
    OBVIOUS
  <2>1. ~h.bad /\ IsVector(iv) /\ h.live = Owned(iv)
    BY DEF HeapInv, Held, IsHeap
  <2>2. Range(Blocks(iv.array, iv.info)) = Owned(iv) \ {iv.self}
    BY <2>1, BlocksOwned
  <2> QED
    BY <2>1, <2>2 DEF NoUseAfterFree
<1> QED
  BY <1>1, HeapInvHolds, PTL

-----------------------------------------------------------------------------
(* The shell of a rank.                                                    *)

LEMMA LeastNat ==
  ASSUME NEW T, T \subseteq Nat, T # {}
  PROVE  \E x \in T : \A y \in T : x <= y
<1> DEFINE R == {ss \in Nat \X Nat : ss[1] < ss[2]}
<1>1. IsWellFoundedOn(R, Nat)
  BY NatLessThanWellFounded DEF OpToRel
<1>2. \E x \in T : \A y \in T : ~ (<<y, x>> \in R)
  <2> HIDE DEF R
  <2> QED
    BY <1>1, WFMin
<1>3. PICK x \in T : \A y \in T : ~ (<<y, x>> \in R)
  BY <1>2
<1>4. \A y \in T : ~ (y < x)
  BY <1>3
<1> QED
  BY <1>4

\* The tasks of the shells before s.
Below(map, s) == {r \in DOMAIN map : map[r] < s}

LEMMA BelowNext ==
  ASSUME NEW map, IsFiniteSet(DOMAIN map), \A r \in DOMAIN map : map[r] \in Nat, NEW s \in Nat
  PROVE  /\ Cardinality(Below(map, s)) \in Nat
         /\ ntasks(map, s) \in Nat
         /\ Cardinality(Below(map, s + 1)) = Cardinality(Below(map, s)) + ntasks(map, s)
<1> DEFINE here == taskmap_taskids(map, s)
           old == Below(map, s)
           new == Below(map, s + 1)
<1>1. new = old \cup here /\ old \cap here = {}
  BY DEF Below, taskmap_taskids
<1>2. IsFiniteSet(old) /\ IsFiniteSet(here)
  BY FS_Subset DEF Below, taskmap_taskids
<1> HIDE DEF old, here, new
<1>3. Cardinality(old \cup here) = Cardinality(old) + Cardinality(here) - Cardinality({})
  BY <1>1, <1>2, FS_Union
<1>4. Cardinality(old) \in Nat /\ Cardinality(here) \in Nat /\ Cardinality({}) = 0
  BY <1>2, FS_CardinalityType, FS_EmptySet
<1>5. Cardinality(new) = Cardinality(old) + Cardinality(here)
  BY <1>1, <1>3, <1>4
<1>6. ntasks(map, s) = Cardinality(here)
  BY DEF ntasks, here
<1> QED
  BY <1>4, <1>5, <1>6 DEF old, new

\* The running base of the loop counts the tasks of the shells before.
LEMMA BaseCounts ==
  ASSUME NEW map, IsFiniteSet(DOMAIN map), \A r \in DOMAIN map : map[r] \in Nat, NEW s \in Nat
  PROVE  base_rank(map, s) = Cardinality(Below(map, s))
<1> DEFINE Step(f, n) == IF n = 0 THEN 0 ELSE f[n - 1] + ntasks(map, n - 1)
           base == CHOOSE f : f = [n \in Nat |-> Step(f, n)]
           count == [n \in Nat |-> Cardinality(Below(map, n))]
<1>1. base_rank(map, s) = base[s]
  BY DEF base_rank
<1>2. \A n \in Nat : count[n] = Step(count, n)
  <2> TAKE n \in Nat
  <2>1. CASE n = 0
    <3>1. Below(map, 0) = {}
      BY DEF Below
    <3> QED
      BY <2>1, <3>1, FS_EmptySet
  <2>2. CASE n # 0
    <3>1. n - 1 \in Nat /\ (n - 1) + 1 = n
      BY <2>2
    <3>2. Cardinality(Below(map, (n - 1) + 1)) = Cardinality(Below(map, n - 1)) + ntasks(map, n - 1)
      BY <3>1, BelowNext
    <3> QED
      BY <2>2, <3>1, <3>2
  <2> QED
    BY <2>1, <2>2
<1>3. count = [n \in Nat |-> Step(count, n)]
  BY <1>2
<1>4. base = [n \in Nat |-> Step(base, n)]
  <2>1. \E f : f = [n \in Nat |-> Step(f, n)]
    BY <1>3
  <2> QED
    BY <2>1
<1> HIDE DEF base
<1>5. \A n \in Nat : base[n] = Step(base, n)
  BY <1>4
<1> DEFINE Wrong == {n \in Nat : base[n] # count[n]}
<1>6. Wrong = {}
  <2> SUFFICES ASSUME Wrong # {} PROVE FALSE
    OBVIOUS
  <2>1. PICK n \in Wrong : \A m \in Wrong : n <= m
    BY LeastNat
  <2> HIDE DEF count
  <2>2. CASE n = 0
    BY <1>2, <1>5, <2>2
  <2>3. CASE n # 0
    <3>1. n - 1 \in Nat /\ ~(n <= n - 1)
      BY <2>3
    <3>2. base[n - 1] = count[n - 1]
      BY <2>1, <3>1
    <3> QED
      BY <1>2, <1>5, <2>3, <3>2
  <2> QED
    BY <2>2, <2>3
<1> QED
  BY <1>1, <1>6

\* A task map whose ranks only go up from shell to shell.
Ordered(map) == \A q \in DOMAIN map \ {0} : map[q - 1] <= map[q]

LEMMA OrderedMap ==
  ASSUME NEW n \in Nat, NEW map, DOMAIN map = 0 .. n - 1, \A r \in DOMAIN map : map[r] \in Nat,
         Ordered(map), NEW q \in DOMAIN map, NEW r \in DOMAIN map, q <= r
  PROVE  map[q] <= map[r]
<1> DEFINE Drops == {u \in q .. n - 1 : map[u] < map[q]}
<1>1. CASE Drops = {}
  <2>1. r \in q .. n - 1 /\ ~ (map[r] < map[q])
    BY <1>1
  <2> QED
    BY <2>1
<1>2. CASE Drops # {}
  <2>1. Drops \subseteq Nat
    OBVIOUS
  <2>2. PICK u \in Drops : \A w \in Drops : u <= w
    BY <1>2, <2>1, LeastNat
  <2>3. u \in DOMAIN map /\ u - 1 \in DOMAIN map /\ u # 0 /\ q <= u - 1
    BY <2>2
  <2>4. u - 1 \notin Drops
    BY <2>2, <2>3
  <2>5. map[q] <= map[u - 1] /\ map[u - 1] <= map[u]
    BY <2>3, <2>4 DEF Ordered
  <2> QED
    BY <2>2, <2>3, <2>5
<1> QED
  BY <1>1, <1>2

\* The tasks before a shell are the first ones.
LEMMA BelowIsFirst ==
  ASSUME NEW n \in Nat, NEW map, DOMAIN map = 0 .. n - 1, \A r \in DOMAIN map : map[r] \in Nat,
         Ordered(map), NEW s \in Nat
  PROVE  Below(map, s) = 0 .. Cardinality(Below(map, s)) - 1
<1> DEFINE Beyond == {u \in Nat : u \notin Below(map, s)}
<1>1. n \in Beyond
  BY DEF Below
<1>2. PICK c \in Beyond : \A u \in Beyond : c <= u
  BY <1>1, LeastNat
<1>3. \A u \in Nat : u < c => u \in Below(map, s)
  BY <1>2
<1>4. \A u \in Below(map, s) : u < c
  <2> SUFFICES ASSUME NEW u \in Below(map, s), c <= u PROVE FALSE
    BY <1>2 DEF Below
  <2>1. u \in DOMAIN map /\ map[u] < s
    BY DEF Below
  <2>2. c \in DOMAIN map
    BY <1>2, <2>1
  <2>3. map[c] <= map[u]
    BY <2>1, <2>2, OrderedMap
  <2>4. map[c] < s
    BY <2>1, <2>2, <2>3
  <2> QED
    BY <1>2, <2>2, <2>4 DEF Below
<1>5. Below(map, s) = 0 .. c - 1
  BY <1>2, <1>3, <1>4 DEF Below
<1>6. Cardinality(0 .. c - 1) = c
  BY <1>2, FS_Interval
<1> QED
  BY <1>5, <1>6

\* In such a map lookup_shell_rank finds the shell of each rank, and no other.
LEMMA LookupOrdered ==
  ASSUME NEW map \in Taskmaps, Ordered(map), NEW rank \in Int
  PROVE  lookup_shell_rank(map, rank) = IF rank \in DOMAIN map THEN map[rank] ELSE -1
<1>1. PICK n \in 1 .. MaxTasks, s \in 1 .. MaxNodes :
         map \in [0 .. n - 1 -> 0 .. s - 1] /\ Range(map) = 0 .. s - 1
  BY DEF Taskmaps
<1>2. /\ n \in Nat /\ s \in Nat /\ DOMAIN map = 0 .. n - 1
      /\ \A r \in DOMAIN map : map[r] \in 0 .. s - 1
      /\ \A r \in DOMAIN map : map[r] \in Nat
  BY <1>1, NamespaceAssumption
<1>3. IsFiniteSet(DOMAIN map)
  BY <1>2, FS_Interval
<1>4. nnodes(map) = s
  <2>1. {map[r] : r \in DOMAIN map} = 0 .. s - 1
    BY <1>1 DEF Range
  <2>2. Cardinality(0 .. s - 1) = s
    BY <1>2, FS_Interval
  <2> QED
    BY <2>1, <2>2 DEF nnodes
<1> DEFINE Here(w) == base_rank(map, w) .. base_rank(map, w) + ntasks(map, w) - 1
           Hit == {w \in 0 .. nnodes(map) - 1 : rank \in Here(w)}
<1>5. \A w \in Nat : rank \in Here(w) <=> rank \in DOMAIN map /\ map[rank] = w
  <2> TAKE w \in Nat
  <2> DEFINE b == Cardinality(Below(map, w))
  <2>1. /\ b \in Nat /\ ntasks(map, w) \in Nat
        /\ Cardinality(Below(map, w + 1)) = b + ntasks(map, w)
    BY <1>2, <1>3, BelowNext
  <2>2. base_rank(map, w) = b
    BY <1>2, <1>3, BaseCounts
  <2>3. Below(map, w) = 0 .. b - 1
    BY <1>2, BelowIsFirst
  <2>4. Below(map, w + 1) = 0 .. Cardinality(Below(map, w + 1)) - 1
    BY <1>2, BelowIsFirst
  <2> HIDE DEF b
  <2>5. rank \in Here(w) <=> rank \in Below(map, w + 1) /\ rank \notin Below(map, w)
    BY <2>1, <2>2, <2>3, <2>4
  <2>6. rank \in Below(map, w + 1) /\ rank \notin Below(map, w)
            <=> rank \in DOMAIN map /\ map[rank] = w
    BY <1>2 DEF Below
  <2> QED
    BY <2>5, <2>6
<1> HIDE DEF Here
<1>6. lookup_shell_rank(map, rank) = IF Hit = {} THEN -1 ELSE Min(Hit)
  BY DEF lookup_shell_rank, Here
<1>7. CASE rank \in DOMAIN map
  <2>1. map[rank] \in 0 .. nnodes(map) - 1 /\ map[rank] \in Nat
    BY <1>2, <1>4, <1>7
  <2>2. Hit = {map[rank]}
    BY <1>2, <1>4, <1>5, <1>7, <2>1
  <2>3. Min({map[rank]}) = map[rank]
    BY <2>1 DEF Min
  <2> QED
    BY <1>6, <1>7, <2>2, <2>3
<1>8. CASE rank \notin DOMAIN map
  <2>1. Hit = {}
    BY <1>2, <1>4, <1>5, <1>8
  <2> QED
    BY <1>6, <1>8, <2>1
<1> QED
  BY <1>7, <1>8

LookupInv == /\ taskmap \in Taskmaps
             /\ found # <<>> => /\ found[1] \in Int
                                /\ found[2] = lookup_shell_rank(taskmap, found[1])

LEMMA LookupInvHolds == Spec => []LookupInv
<1>1. Init => LookupInv
  BY DEF Init, LookupInv
<1>2. LookupInv /\ [Next]_vars => LookupInv'
  <2> SUFFICES ASSUME LookupInv, [Next]_vars
               PROVE  LookupInv'
    OBVIOUS
  <2>1. ASSUME NEW rank \in -2 .. MaxTasks, Lookup(rank)
        PROVE  LookupInv'
    <3>1. rank \in Int
      BY NamespaceAssumption
    <3> QED
      BY <2>1, <3>1 DEF Lookup, LookupInv, job
  <2>2. CASE UNCHANGED <<taskmap, found>>
    BY <2>2 DEF LookupInv
  <2>3. CASE px_init
    <3>1. UNCHANGED <<taskmap, found>>
      BY <2>3 DEF px_init, Create, SetLpeers, SetNodeMap, SetProcMap, SetStr, SetBool, SetU32,
                  Operand, SetProcInfos, RegisterNspace, Destroy, job
    <3> QED
      BY <2>2, <3>1
  <2> QED
    BY <2>1, <2>2, <2>3 DEF Next, vars
<1> QED
  BY <1>1, <1>2, PTL DEF Spec

\* When the ranks go up from shell to shell, lookup_shell_rank answers with the
\* shell that hosts a rank, and with -1 for a rank that no task has, for any
\* number of tasks and shells.
THEOREM LookupIsRight == Spec => []LookupFindsHostInBlocks
<1>1. LookupInv => LookupFindsHostInBlocks
  BY LookupOrdered DEF LookupInv, LookupFindsHostInBlocks, LookupFindsHost, Ordered
<1> QED
  BY <1>1, LookupInvHolds, PTL

-----------------------------------------------------------------------------
(* Lists of ranks.                                                         *)

\* How many of ids come before r.
RankIn(ids, r) == Cardinality({q \in ids : q < r})

LEMMA RankInBounds ==
  ASSUME NEW ids, ids \subseteq Nat, IsFiniteSet(ids), NEW r \in ids
  PROVE  RankIn(ids, r) \in 0 .. Cardinality(ids) - 1
<1> DEFINE before == {q \in ids : q < r}
<1>1. before \subseteq ids /\ before \cup {r} \subseteq ids /\ r \notin before
  OBVIOUS
<1>2. IsFiniteSet(before) /\ IsFiniteSet(before \cup {r})
  BY <1>1, FS_Subset
<1> HIDE DEF before
<1>3. Cardinality(before \cup {r}) = Cardinality(before) + 1
  BY <1>1, <1>2, FS_AddElement
<1>4. Cardinality(before \cup {r}) <= Cardinality(ids)
  BY <1>1, FS_Subset
<1>5. Cardinality(before) \in Nat /\ Cardinality(ids) \in Nat
  BY <1>2, FS_CardinalityType
<1> QED
  BY <1>3, <1>4, <1>5 DEF RankIn, before

\* A higher id has more before it.
LEMMA RankInGrows ==
  ASSUME NEW ids, ids \subseteq Nat, IsFiniteSet(ids), NEW r \in ids, NEW s \in ids, r < s
  PROVE  RankIn(ids, r) < RankIn(ids, s)
<1> DEFINE before(x) == {q \in ids : q < x}
<1>1. before(r) \cup {r} \subseteq before(s) /\ r \notin before(r)
  <2>1. r \in Nat /\ s \in Nat
    OBVIOUS
  <2>2. ASSUME NEW q \in ids, q < r PROVE q < s
    <3>1. q \in Nat
      OBVIOUS
    <3> QED
      BY <2>1, <2>2, <3>1
  <2>3. before(r) \subseteq before(s)
    BY <2>2
  <2>4. r \in before(s) /\ r \notin before(r)
    BY <2>1
  <2> QED
    BY <2>3, <2>4
<1>2. before(r) \subseteq ids /\ before(s) \subseteq ids
  OBVIOUS
<1>3. IsFiniteSet(before(r)) /\ IsFiniteSet(before(s))
  BY <1>2, FS_Subset
<1>6. RankIn(ids, r) = Cardinality(before(r)) /\ RankIn(ids, s) = Cardinality(before(s))
  BY DEF RankIn
<1> HIDE DEF before
<1>4. Cardinality(before(r) \cup {r}) = Cardinality(before(r)) + 1
  BY <1>1, <1>3, FS_AddElement
<1>5. Cardinality(before(r) \cup {r}) <= Cardinality(before(s))
  BY <1>1, <1>3, FS_Subset
<1>7. Cardinality(before(r)) \in Nat /\ Cardinality(before(s)) \in Nat
  BY <1>3, FS_CardinalityType
<1> QED
  BY <1>4, <1>5, <1>6, <1>7

LEMMA RankInOfOne ==
  ASSUME NEW ids, ids \subseteq Nat, IsFiniteSet(ids), NEW r \in ids, NEW s \in ids,
         RankIn(ids, r) = RankIn(ids, s)
  PROVE  r = s
<1>1. r \in Nat /\ s \in Nat
  OBVIOUS
<1>2. RankIn(ids, r) \in 0 .. Cardinality(ids) - 1
  BY RankInBounds
<1>3. RankIn(ids, r) \in Int
  BY <1>2
<1>4. CASE r < s
  <2>1. RankIn(ids, r) < RankIn(ids, s)
    BY <1>4, RankInGrows
  <2> QED
    BY <1>3, <2>1
<1>5. CASE s < r
  <2>1. RankIn(ids, s) < RankIn(ids, r)
    BY <1>5, RankInGrows
  <2> QED
    BY <1>3, <2>1
<1> QED
  BY <1>1, <1>4, <1>5

\* idset_encode lists every id, and nothing else.
LEMMA EncodeLists ==
  ASSUME NEW ids, ids \subseteq Nat, IsFiniteSet(ids)
  PROVE  /\ Cardinality(ids) \in Nat
         /\ DOMAIN idset_encode(ids) = 1 .. Cardinality(ids)
         /\ Len(idset_encode(ids)) = Cardinality(ids)
         /\ \A r \in ids : /\ RankIn(ids, r) + 1 \in 1 .. Cardinality(ids)
                           /\ idset_encode(ids)[RankIn(ids, r) + 1] = r
         /\ \A i \in 1 .. Cardinality(ids) : \E r \in ids : RankIn(ids, r) + 1 = i
<1> DEFINE n == Cardinality(ids)
           place == [r \in ids |-> RankIn(ids, r) + 1]
<1>1. n \in Nat
  BY FS_CardinalityType
<1>2. \A r \in ids : RankIn(ids, r) \in 0 .. n - 1
  BY RankInBounds
<1>3. idset_encode(ids) = [i \in 1 .. n |-> CHOOSE r \in ids : RankIn(ids, r) = i - 1]
  BY DEF idset_encode, RankIn
<1> HIDE DEF n
<1>4. DOMAIN idset_encode(ids) = 1 .. n /\ Len(idset_encode(ids)) = n
  BY <1>1, <1>3
<1>5. ASSUME NEW r \in ids
      PROVE  RankIn(ids, r) + 1 \in 1 .. n /\ idset_encode(ids)[RankIn(ids, r) + 1] = r
  <2> DEFINE i == RankIn(ids, r) + 1
             s == CHOOSE x \in ids : RankIn(ids, x) = i - 1
  <2>1. i \in 1 .. n /\ RankIn(ids, r) = i - 1
    BY <1>1, <1>2
  <2>2. idset_encode(ids)[i] = s
    BY <1>3, <2>1
  <2> HIDE DEF i
  <2>3. s \in ids /\ RankIn(ids, s) = i - 1
    BY <2>1
  <2> HIDE DEF s
  <2>4. s = r
    BY <2>1, <2>3, RankInOfOne
  <2> QED
    BY <2>1, <2>2, <2>4 DEF i
<1>6. place \in Injection(ids, 1 .. n)
  <2>1. place \in [ids -> 1 .. n]
    BY <1>5
  <2>2. \A r, s \in ids : place[r] = place[s] => r = s
    <3> TAKE r, s \in ids
    <3> HAVE place[r] = place[s]
    <3>1. RankIn(ids, r) = RankIn(ids, s)
      BY <1>1, <1>2
    <3> QED
      BY <3>1, RankInOfOne
  <2> HIDE DEF place
  <2> QED
    BY <2>1, <2>2 DEF Injection, IsInjective
<1>7. IsFiniteSet(1 .. n) /\ Cardinality(1 .. n) = Cardinality(ids)
  BY <1>1, FS_Interval DEF n
<1> HIDE DEF place
<1>8. place \in Surjection(ids, 1 .. n)
  BY <1>6, <1>7, FS_Injection
<1>9. \A i \in 1 .. n : \E r \in ids : place[r] = i
  BY <1>8 DEF Surjection
<1>10. \A i \in 1 .. n : \E r \in ids : RankIn(ids, r) + 1 = i
  BY <1>9 DEF place
<1> QED
  BY <1>1, <1>4, <1>5, <1>10 DEF n

-----------------------------------------------------------------------------
(* What the vector says.                                                   *)

VectorFields == {"self", "array", "length", "info"}

\* Unless it fails, an operation appends one attribute.
Adds(o, v, key, val) ==
    /\ IsOutcome(o) /\ DOMAIN o.iv = VectorFields
    /\ o.ok => \E e : e.key = key /\ e.val = val /\ o.iv.info = Append(v.info, e)

\* A new slot and a stored entry.
LEMMA SlotKeeps ==
  ASSUME NEW g, NEW v, DOMAIN v = VectorFields, NEW o \in alloc_slot(g, v)
  PROVE  IsOutcome(o) /\ DOMAIN o.iv = VectorFields /\ o.iv.info = v.info
<1>1. CASE Len(v.info) # v.length
  <2>1. o = [ok |-> TRUE, p |-> NULL, iv |-> v, h |-> g]
    BY <1>1 DEF alloc_slot
  <2> QED
    BY <2>1 DEF IsOutcome
<1>2. CASE Len(v.info) = v.length
  <2>1. PICK c \in malloc(g, v) :
           o = IF c.ok THEN [c EXCEPT !.h = free(c.h, v.array), !.iv = Moved(@, c.p)] ELSE c
    BY <1>2 DEF alloc_slot
  <2>2. DOMAIN c = {"ok", "p", "iv", "h"} /\ c.iv = v
    BY MallocShape DEF IsOutcome
  <2> DEFINE w == Moved(v, c.p)
  <2>3. DOMAIN w = VectorFields /\ w.info = v.info
    BY DEF Moved, VectorFields
  <2> HIDE DEF w
  <2>4. CASE ~c.ok
    BY <2>1, <2>2, <2>4 DEF IsOutcome
  <2>5. CASE c.ok
    <3>1. o = [c EXCEPT !.h = free(c.h, v.array), !.iv = w]
      BY <2>1, <2>2, <2>5 DEF w
    <3>2. DOMAIN o = {"ok", "p", "iv", "h"} /\ o.iv = w
      BY <2>2, <3>1
    <3> QED
      BY <2>3, <3>2 DEF IsOutcome
  <2> QED
    BY <2>4, <2>5
<1> QED
  BY <1>1, <1>2

LEMMA StoredAdds ==
  ASSUME NEW v, DOMAIN v = VectorFields, NEW e
  PROVE  DOMAIN Stored(v, e) = VectorFields /\ Stored(v, e).info = Append(v.info, e)
  BY DEF Stored, VectorFields

\* An outcome is read by its fields.
LEMMA VectorSet ==
  ASSUME NEW c, IsOutcome(c), NEW w
  PROVE  LET o == [c EXCEPT !.iv = w]
         IN  IsOutcome(o) /\ o.iv = w /\ (o.ok <=> c.ok)
<1>1. DOMAIN c = {"ok", "p", "iv", "h"}
  BY DEF IsOutcome
<1> DEFINE o == [c EXCEPT !.iv = w]
<1>2. DOMAIN o = {"ok", "p", "iv", "h"} /\ o.iv = w /\ o.ok = c.ok
  BY <1>1
<1> HIDE DEF o
<1> QED
  BY <1>2 DEF o, IsOutcome

LEMMA HeapSet ==
  ASSUME NEW c, IsOutcome(c), NEW g
  PROVE  LET o == [c EXCEPT !.h = g]
         IN  IsOutcome(o) /\ o.iv = c.iv /\ (o.ok <=> c.ok)
<1>1. DOMAIN c = {"ok", "p", "iv", "h"}
  BY DEF IsOutcome
<1> DEFINE o == [c EXCEPT !.h = g]
<1>2. DOMAIN o = {"ok", "p", "iv", "h"} /\ o.iv = c.iv /\ o.ok = c.ok
  BY <1>1
<1> HIDE DEF o
<1> QED
  BY <1>2 DEF o, IsOutcome

\* A setter.
LEMMA PutAdds ==
  ASSUME NEW g, NEW v, DOMAIN v = VectorFields, NEW key, NEW type, NEW val, NEW own,
         NEW o \in Put(g, v, Entry(key, type, val, own))
  PROVE  Adds(o, v, key, val)
<1> DEFINE e == Entry(key, type, val, own)
<1>1. e.key = key /\ e.val = val
  BY DEF Entry
<1>2. PICK s \in alloc_slot(g, v) : o = IF s.ok THEN [s EXCEPT !.iv = Stored(@, e)] ELSE s
  BY DEF Put
<1> HIDE DEF e
<1>3. IsOutcome(s) /\ DOMAIN s.iv = VectorFields /\ s.iv.info = v.info
  BY SlotKeeps
<1>4. CASE s.ok
  <2>1. o = [s EXCEPT !.iv = Stored(s.iv, e)]
    BY <1>2, <1>4
  <2>2. IsOutcome(o) /\ o.iv = Stored(s.iv, e)
    BY <1>3, <2>1, VectorSet
  <2>3. DOMAIN o.iv = VectorFields /\ o.iv.info = Append(v.info, e)
    BY <1>3, <2>2, StoredAdds
  <2> QED
    BY <1>1, <2>2, <2>3 DEF Adds
<1>5. CASE ~s.ok
  BY <1>2, <1>3, <1>5 DEF Adds
<1> QED
  BY <1>4, <1>5

\* What is freed does not matter to it.
LEMMA CleanupAdds ==
  ASSUME NEW s, NEW v, NEW key, NEW val, Adds(s, v, key, val), NEW g
  PROVE  Adds([s EXCEPT !.h = g], v, key, val)
<1> DEFINE o == [s EXCEPT !.h = g]
<1>1. IsOutcome(o) /\ o.iv = s.iv /\ (o.ok <=> s.ok)
  BY HeapSet DEF Adds
<1> HIDE DEF o
<1>2. Adds(o, v, key, val)
  BY <1>1 DEF Adds
<1> QED
  BY <1>2 DEF o

\* A copy or another string handed over.
LEMMA HandAdds ==
  ASSUME NEW g, NEW v, DOMAIN v = VectorFields, NEW key, NEW val, NEW p,
         NEW s \in infovec_set_str_new(g, v, key, val, p),
         NEW o, o = IF s.ok THEN s ELSE [s EXCEPT !.h = free(s.h, p)]
  PROVE  Adds(o, v, key, val)
<1>1. s \in Put(g, v, Entry(key, "PMIX_STRING", val, PointsTo(p)))
  BY DEF infovec_set_str_new
<1>2. Adds(s, v, key, val)
  BY <1>1, PutAdds
<1>3. Adds([s EXCEPT !.h = free(s.h, p)], v, key, val)
  BY <1>2, CleanupAdds
<1> QED
  BY <1>2, <1>3

\* A library call that makes a string, which is then handed over.
LEMMA HandOverAdds ==
  ASSUME NEW g, NEW v, DOMAIN v = VectorFields, NEW key, NEW val, NEW o \in HandOver(g, v, key, val)
  PROVE  Adds(o, v, key, val)
<1>1. PICK m \in malloc(g, v) :
         o \in IF m.ok THEN OrElse(infovec_set_str_new(m.h, v, key, val, m.p),
                                   LAMBDA f : free(f, m.p))
               ELSE {m}
  BY DEF HandOver, Then
<1>2. IsOutcome(m) /\ m.iv = v
  BY MallocShape
<1>3. CASE m.ok
  <2>1. PICK s \in infovec_set_str_new(m.h, v, key, val, m.p) :
           o = IF s.ok THEN s ELSE [s EXCEPT !.h = free(s.h, m.p)]
    BY <1>1, <1>3 DEF OrElse
  <2> QED
    BY <2>1, HandAdds
<1>4. CASE ~m.ok
  BY <1>1, <1>2, <1>4 DEF Adds
<1> QED
  BY <1>3, <1>4

LEMMA SetStrAdds ==
  ASSUME NEW g, NEW v, DOMAIN v = VectorFields, NEW key, NEW val,
         NEW o \in infovec_set_str(g, v, key, val)
  PROVE  Adds(o, v, key, val)
<1>1. PICK m \in malloc(g, v) :
         o \in IF m.ok THEN OrElse(infovec_set_str_new(m.h, v, key, val, m.p),
                                   LAMBDA f : free(f, m.p))
               ELSE {m}
  BY DEF infovec_set_str, Then
<1>2. IsOutcome(m) /\ m.iv = v
  BY MallocShape
<1>3. CASE m.ok
  <2>1. PICK s \in infovec_set_str_new(m.h, v, key, val, m.p) :
           o = IF s.ok THEN s ELSE [s EXCEPT !.h = free(s.h, m.p)]
    BY <1>1, <1>3 DEF OrElse
  <2> QED
    BY <2>1, HandAdds
<1>4. CASE ~m.ok
  BY <1>1, <1>2, <1>4 DEF Adds
<1> QED
  BY <1>3, <1>4

LEMMA CookedAdds ==
  ASSUME NEW g, NEW v, DOMAIN v = VectorFields, NEW key, NEW val, NEW o \in Cooked(g, v, key, val)
  PROVE  Adds(o, v, key, val)
<1>1. PICK raw \in malloc(g, v) :
         o \in IF raw.ok THEN {[c EXCEPT !.h = free(@, raw.p)] :
                                  c \in HandOver(raw.h, raw.iv, key, val)}
               ELSE {raw}
  BY DEF Cooked, Then
<1>2. IsOutcome(raw) /\ raw.iv = v
  BY MallocShape
<1>3. CASE raw.ok
  <2>1. PICK c \in HandOver(raw.h, v, key, val) : o = [c EXCEPT !.h = free(c.h, raw.p)]
    BY <1>1, <1>2, <1>3
  <2>2. Adds(c, v, key, val)
    BY HandOverAdds
  <2> QED
    BY <2>1, <2>2, CleanupAdds
<1>4. CASE ~raw.ok
  BY <1>1, <1>2, <1>4 DEF Adds
<1> QED
  BY <1>3, <1>4

\* A nested vector, which is the value.
LEMMA SetInfovecAdds ==
  ASSUME NEW g, NEW v, DOMAIN v = VectorFields, NEW key, NEW w,
         NEW o \in infovec_set_infovec_new(g, v, key, w)
  PROVE  Adds(o, v, key, w)
<1>1. PICK s \in alloc_slot(g, v) :
         \E t \in IF s.ok THEN Taken(s, key, w) ELSE {s} :
            o \in IF t.ok THEN {[t EXCEPT !.h = free(@, w.self)]} ELSE {t}
  BY DEF infovec_set_infovec_new, Then, Taken
<1>2. IsOutcome(s) /\ DOMAIN s.iv = VectorFields /\ s.iv.info = v.info
  BY SlotKeeps
<1>3. CASE ~s.ok
  BY <1>1, <1>2, <1>3 DEF Adds
<1>4. CASE s.ok
  <2>1. PICK t \in Taken(s, key, w) : o \in IF t.ok THEN {[t EXCEPT !.h = free(@, w.self)]} ELSE {t}
    BY <1>1, <1>4
  <2>2. PICK c \in malloc(s.h, s.iv) : t = [c EXCEPT !.iv = Stored(@, Nested(key, w, c))]
    BY DEF Taken
  <2> DEFINE e == Nested(key, w, c)
  <2>3. IsOutcome(c) /\ c.iv = s.iv
    BY MallocShape
  <2>4. c.ok => e.key = key /\ e.val = w
    BY DEF Nested, Entry
  <2> HIDE DEF e
  <2>5. t = [c EXCEPT !.iv = Stored(s.iv, e)]
    BY <2>2, <2>3 DEF e
  <2>6. IsOutcome(t) /\ t.iv = Stored(s.iv, e) /\ (t.ok <=> c.ok)
    BY <2>3, <2>5, VectorSet
  <2>7. DOMAIN t.iv = VectorFields /\ t.iv.info = Append(v.info, e)
    BY <1>2, <2>6, StoredAdds
  <2>8. Adds(t, v, key, w)
    BY <2>4, <2>6, <2>7 DEF Adds
  <2>9. CASE t.ok
    <3>1. o = [t EXCEPT !.h = free(t.h, w.self)]
      BY <2>1, <2>9
    <3> QED
      BY <2>8, <3>1, CleanupAdds
  <2>10. CASE ~t.ok
    BY <2>1, <2>8, <2>10
  <2> QED
    BY <2>9, <2>10
<1> QED
  BY <1>3, <1>4

\* The array of a rank.
Describes(map, e, rank) ==
    LET info == e.val.info
    IN  /\ e.key = "PMIX_PROC_INFO_ARRAY"
        /\ Value(info, "PMIX_RANK") = rank
        /\ Value(info, "PMIX_NODEID") = map[rank]
        /\ Value(info, "PMIX_LOCAL_RANK") = get_local_rank(map, map[rank], rank) % 2 ^ 16

\* The only attribute with a key.
LEMMA OnlyOne ==
  ASSUME NEW info, NEW key, NEW i \in Nat, Having(info, key) = {i}
  PROVE  Value(info, key) = info[i].val
<1>1. Min({i}) = i
  BY DEF Min
<1> QED
  BY <1>1 DEF Value

\* The values of a vector with the four fields of a rank.
LEMMA OneAppended ==
  ASSUME NEW T, NEW s \in Seq(T), NEW e \in T
  PROVE  /\ Append(s, e) \in Seq(T)
         /\ Len(Append(s, e)) = Len(s) + 1
         /\ \A i \in 1 .. Len(s) : Append(s, e)[i] = s[i]
         /\ Append(s, e)[Len(s) + 1] = e
  OBVIOUS

LEMMA FourAppended ==
  ASSUME NEW a, NEW b, NEW c, NEW d
  PROVE  LET info == Append(Append(Append(Append(<<>>, a), b), c), d)
         IN  /\ DOMAIN info = {1, 2, 3, 4}
             /\ info[1] = a /\ info[2] = b /\ info[3] = c /\ info[4] = d
<1> DEFINE T == {a, b, c, d}
           s1 == Append(<<>>, a)
           s2 == Append(s1, b)
           s3 == Append(s2, c)
           s4 == Append(s3, d)
<1>0. /\ a \in T /\ b \in T /\ c \in T /\ d \in T
      /\ <<>> \in Seq(T) /\ Len(<<>>) = 0
  OBVIOUS
<1> HIDE DEF T
<1>1. s1 \in Seq(T) /\ Len(s1) = 1 /\ s1[1] = a
  BY <1>0
<1> HIDE DEF s1
<1>2. s2 \in Seq(T) /\ Len(s2) = 2 /\ s2[1] = a /\ s2[2] = b
  <2>1. /\ Append(s1, b) \in Seq(T)
        /\ Len(Append(s1, b)) = Len(s1) + 1
        /\ \A i \in 1 .. Len(s1) : Append(s1, b)[i] = s1[i]
        /\ Append(s1, b)[Len(s1) + 1] = b
    BY <1>0, <1>1, OneAppended
  <2> QED
    BY <1>1, <2>1
<1> HIDE DEF s2
<1>3. s3 \in Seq(T) /\ Len(s3) = 3 /\ s3[1] = a /\ s3[2] = b /\ s3[3] = c
  <2>1. /\ Append(s2, c) \in Seq(T)
        /\ Len(Append(s2, c)) = Len(s2) + 1
        /\ \A i \in 1 .. Len(s2) : Append(s2, c)[i] = s2[i]
        /\ Append(s2, c)[Len(s2) + 1] = c
    BY <1>0, <1>2, OneAppended
  <2> QED
    BY <1>2, <2>1
<1> HIDE DEF s3
<1>4. s4 \in Seq(T) /\ Len(s4) = 4 /\ s4[1] = a /\ s4[2] = b /\ s4[3] = c /\ s4[4] = d
  <2>1. /\ Append(s3, d) \in Seq(T)
        /\ Len(Append(s3, d)) = Len(s3) + 1
        /\ \A i \in 1 .. Len(s3) : Append(s3, d)[i] = s3[i]
        /\ Append(s3, d)[Len(s3) + 1] = d
    BY <1>0, <1>3, OneAppended
  <2> QED
    BY <1>3, <2>1
<1> HIDE DEF s4
<1>5. DOMAIN s4 = {1, 2, 3, 4}
  BY <1>4
<1> QED
  BY <1>4, <1>5 DEF s4, s3, s2, s1

LEMMA FourFields ==
  ASSUME NEW a, NEW b, NEW c, NEW d, a.key = "PMIX_RANK", b.key = "PMIX_NODEID",
         c.key = "PMIX_LOCAL_RANK", d.key = "PMIX_NODE_RANK"
  PROVE  LET info == Append(Append(Append(Append(<<>>, a), b), c), d)
         IN  /\ Value(info, "PMIX_RANK") = a.val
             /\ Value(info, "PMIX_NODEID") = b.val
             /\ Value(info, "PMIX_LOCAL_RANK") = c.val
<1> DEFINE info == Append(Append(Append(Append(<<>>, a), b), c), d)
<1>1. /\ DOMAIN info = {1, 2, 3, 4}
      /\ info[1] = a /\ info[2] = b /\ info[3] = c /\ info[4] = d
  BY FourAppended
<1> HIDE DEF info
<1>2. /\ Having(info, "PMIX_RANK") = {1}
      /\ Having(info, "PMIX_NODEID") = {2}
      /\ Having(info, "PMIX_LOCAL_RANK") = {3}
  BY <1>1 DEF Having
<1>3. 1 \in Nat /\ 2 \in Nat /\ 3 \in Nat
  OBVIOUS
<1>4. /\ Value(info, "PMIX_RANK") = info[1].val
      /\ Value(info, "PMIX_NODEID") = info[2].val
      /\ Value(info, "PMIX_LOCAL_RANK") = info[3].val
  BY <1>2, <1>3, OnlyOne
<1> QED
  BY <1>1, <1>4 DEF info

\* One more field, as long as nothing fails.
Grows(x, o, key, val) ==
    x.ok => o.ok /\ \E e : e.key = key /\ e.val = val /\ x.iv.info = Append(o.iv.info, e)

LEMMA FieldAdds ==
  ASSUME NEW o, IsOutcome(o), DOMAIN o.iv = VectorFields, NEW key, NEW type, NEW val,
         NEW x \in IF o.ok THEN Put(o.h, o.iv, Entry(key, type, val, Plain)) ELSE {o}
  PROVE  IsOutcome(x) /\ DOMAIN x.iv = VectorFields /\ Grows(x, o, key, val)
<1>1. CASE o.ok
  <2>1. Adds(x, o.iv, key, val)
    BY <1>1, PutAdds
  <2> QED
    BY <1>1, <2>1 DEF Adds, Grows
<1>2. CASE ~o.ok
  BY <1>2 DEF Grows
<1> QED
  BY <1>1, <1>2

\* One turn of the loop describes its rank.
LEMMA ProcInfoAdds ==
  ASSUME DOMAIN iv = VectorFields, NEW rank, NEW o \in ProcInfo(rank), o.ok
  PROVE  \E e : Describes(taskmap, e, rank) /\ o.iv.info = Append(iv.info, e)
<1> DEFINE nodeid == taskmap_nodeid(taskmap, rank)
           local_rank == get_local_rank(taskmap, nodeid, rank)
           S0 == infovec_create(h)
           S1 == Then(S0, LAMBDA f : infovec_set_rank(f.h, f.iv, "PMIX_RANK", rank))
           S2 == Then(S1, LAMBDA f : infovec_set_u32(f.h, f.iv, "PMIX_NODEID", nodeid))
           S3 == Then(S2, LAMBDA f : infovec_set_u16(f.h, f.iv, "PMIX_LOCAL_RANK", local_rank))
           S4 == Then(S3, LAMBDA f : infovec_set_u16(f.h, f.iv, "PMIX_NODE_RANK", local_rank))
           Is(x) == IsOutcome(x) /\ DOMAIN x.iv = VectorFields
<1>1. PICK f \in S4 :
         o \in IF f.ok THEN OrElse(infovec_set_infovec_new(f.h, iv, "PMIX_PROC_INFO_ARRAY", f.iv),
                                   LAMBDA g : infovec_destroy(g, f.iv))
               ELSE {[f EXCEPT !.iv = iv, !.h = infovec_destroy(@, f.iv)]}
  BY DEF ProcInfo
<1> HIDE DEF nodeid, local_rank
<1>2. PICK d \in S3 :
         f \in IF d.ok THEN Put(d.h, d.iv, Entry("PMIX_NODE_RANK", "PMIX_UINT16",
                                                 local_rank % 2 ^ 16, Plain))
               ELSE {d}
  BY DEF Then, infovec_set_u16
<1> HIDE DEF S4
<1>3. PICK c \in S2 :
         d \in IF c.ok THEN Put(c.h, c.iv, Entry("PMIX_LOCAL_RANK", "PMIX_UINT16",
                                                 local_rank % 2 ^ 16, Plain))
               ELSE {c}
  BY DEF Then, infovec_set_u16
<1> HIDE DEF S3
<1>4. PICK b \in S1 :
         c \in IF b.ok THEN Put(b.h, b.iv, Entry("PMIX_NODEID", "PMIX_UINT32", nodeid, Plain))
               ELSE {b}
  BY DEF Then, infovec_set_u32
<1> HIDE DEF S2
<1>5. PICK a \in S0 :
         b \in IF a.ok THEN Put(a.h, a.iv, Entry("PMIX_RANK", "PMIX_PROC_RANK", rank, Plain))
               ELSE {a}
  BY DEF Then, infovec_set_rank
<1> HIDE DEF S1
<1>6. Is(a) /\ a.iv.info = <<>>
  <2>1. PICK m \in malloc(h, NoVector) : a = [m EXCEPT !.iv = [NoVector EXCEPT !.self = m.p]]
    BY DEF infovec_create
  <2> DEFINE w == [NoVector EXCEPT !.self = m.p]
  <2>2. DOMAIN w = VectorFields /\ w.info = <<>>
    BY DEF NoVector, VectorFields
  <2> HIDE DEF w
  <2>3. IsOutcome(m)
    BY MallocShape
  <2>4. IsOutcome(a) /\ a.iv = w
    BY <2>1, <2>3, VectorSet DEF w
  <2> QED
    BY <2>2, <2>4
<1> HIDE DEF S0
<1>7. Is(b) /\ Grows(b, a, "PMIX_RANK", rank)
  BY <1>5, <1>6, FieldAdds
<1>8. Is(c) /\ Grows(c, b, "PMIX_NODEID", nodeid)
  BY <1>4, <1>7, FieldAdds
<1> DEFINE low == local_rank % 2 ^ 16
<1>9. Is(d) /\ Grows(d, c, "PMIX_LOCAL_RANK", low)
  <2>1. d \in IF c.ok THEN Put(c.h, c.iv, Entry("PMIX_LOCAL_RANK", "PMIX_UINT16", low, Plain)) ELSE {c}
    BY <1>3
  <2> HIDE DEF low
  <2> QED
    BY <1>8, <2>1, FieldAdds
<1>10. Is(f) /\ Grows(f, d, "PMIX_NODE_RANK", low)
  <2>1. f \in IF d.ok THEN Put(d.h, d.iv, Entry("PMIX_NODE_RANK", "PMIX_UINT16", low, Plain)) ELSE {d}
    BY <1>2
  <2> HIDE DEF low
  <2> QED
    BY <1>9, <2>1, FieldAdds
<1>11. f.ok
  <2> SUFFICES ASSUME ~f.ok PROVE FALSE
    OBVIOUS
  <2>1. o = [f EXCEPT !.iv = iv, !.h = infovec_destroy(f.h, f.iv)]
    BY <1>1
  <2>2. DOMAIN f = {"ok", "p", "iv", "h"}
    BY <1>10 DEF IsOutcome
  <2>3. o.ok = f.ok
    BY <2>1, <2>2
  <2> QED
    BY <2>3
<1> HIDE DEF low
<1>12. /\ \E e : e.key = "PMIX_NODE_RANK" /\ e.val = low /\ f.iv.info = Append(d.iv.info, e)
       /\ \E e : e.key = "PMIX_LOCAL_RANK" /\ e.val = low /\ d.iv.info = Append(c.iv.info, e)
       /\ \E e : e.key = "PMIX_NODEID" /\ e.val = nodeid /\ c.iv.info = Append(b.iv.info, e)
       /\ \E e : e.key = "PMIX_RANK" /\ e.val = rank /\ b.iv.info = Append(a.iv.info, e)
  BY <1>7, <1>8, <1>9, <1>10, <1>11 DEF Grows
<1>13. /\ Value(f.iv.info, "PMIX_RANK") = rank
       /\ Value(f.iv.info, "PMIX_NODEID") = nodeid
       /\ Value(f.iv.info, "PMIX_LOCAL_RANK") = low
  <2>1. PICK e1 : e1.key = "PMIX_RANK" /\ e1.val = rank /\ b.iv.info = Append(a.iv.info, e1)
    BY <1>12
  <2>2. PICK e2 : e2.key = "PMIX_NODEID" /\ e2.val = nodeid /\ c.iv.info = Append(b.iv.info, e2)
    BY <1>12
  <2>3. PICK e3 : e3.key = "PMIX_LOCAL_RANK" /\ e3.val = low /\ d.iv.info = Append(c.iv.info, e3)
    BY <1>12
  <2>4. PICK e4 : e4.key = "PMIX_NODE_RANK" /\ e4.val = low /\ f.iv.info = Append(d.iv.info, e4)
    BY <1>12
  <2>5. f.iv.info = Append(Append(Append(Append(<<>>, e1), e2), e3), e4)
    BY <1>6, <2>1, <2>2, <2>3, <2>4
  <2> QED
    BY <2>1, <2>2, <2>3, <2>4, <2>5, FourFields
<1>14. PICK s \in infovec_set_infovec_new(f.h, iv, "PMIX_PROC_INFO_ARRAY", f.iv) :
          o = IF s.ok THEN s ELSE [s EXCEPT !.h = infovec_destroy(s.h, f.iv)]
  BY <1>1, <1>11 DEF OrElse
<1>15. Adds(s, iv, "PMIX_PROC_INFO_ARRAY", f.iv)
  BY SetInfovecAdds
<1>16. s.ok /\ o = s
  <2> DEFINE x == [s EXCEPT !.h = infovec_destroy(s.h, f.iv)]
  <2>1. x.ok <=> s.ok
    BY <1>15, HeapSet DEF Adds
  <2> HIDE DEF x
  <2> QED
    BY <1>14, <2>1 DEF x
<1>17. PICK e : e.key = "PMIX_PROC_INFO_ARRAY" /\ e.val = f.iv /\ o.iv.info = Append(iv.info, e)
  BY <1>15, <1>16 DEF Adds
<1>18. Describes(taskmap, e, rank)
  BY <1>13, <1>17 DEF Describes, nodeid, low, local_rank, taskmap_nodeid
<1> QED
  BY <1>17, <1>18

-----------------------------------------------------------------------------
(* What the process map says.                                              *)

\* A task map of the job.
LEMMA MapFacts ==
  ASSUME NEW map \in Taskmaps
  PROVE  /\ Cardinality(DOMAIN map) \in 1 .. MaxTasks
         /\ DOMAIN map = 0 .. Cardinality(DOMAIN map) - 1
         /\ IsFiniteSet(DOMAIN map)
         /\ nnodes(map) \in Nat /\ nnodes(map) <= MaxNodes
         /\ \A r \in DOMAIN map : map[r] \in 0 .. nnodes(map) - 1
<1>1. PICK n \in 1 .. MaxTasks, s \in 1 .. MaxNodes :
         map \in [0 .. n - 1 -> 0 .. s - 1] /\ Range(map) = 0 .. s - 1
  BY DEF Taskmaps
<1>2. n \in Nat /\ s \in Nat /\ DOMAIN map = 0 .. n - 1 /\ \A r \in DOMAIN map : map[r] \in 0 .. s - 1
  BY <1>1, NamespaceAssumption
<1>3. IsFiniteSet(0 .. n - 1) /\ Cardinality(0 .. n - 1) = n
  BY <1>1, <1>2, FS_Interval
<1>4. {map[r] : r \in DOMAIN map} = 0 .. s - 1
  BY <1>1 DEF Range
<1>5. Cardinality(0 .. s - 1) = s
  BY <1>2, FS_Interval
<1>6. nnodes(map) = s
  BY <1>4, <1>5 DEF nnodes
<1> QED
  BY <1>1, <1>2, <1>3, <1>6

\* The local rank of a rank: its place in the list of its node.
LocalRank(map, r) == get_local_rank(map, map[r], r)

LEMMA NodeFacts ==
  ASSUME NEW map \in Taskmaps, NEW s
  PROVE  LET ids == taskmap_taskids(map, s)
         IN  /\ ids \subseteq Nat /\ ids \subseteq DOMAIN map /\ IsFiniteSet(ids)
             /\ Cardinality(ids) \in 0 .. Cardinality(DOMAIN map)
             /\ \A r \in ids : LocalRank(map, r) = RankIn(ids, r) /\ map[r] = s
<1> DEFINE ids == taskmap_taskids(map, s)
<1>1. /\ DOMAIN map = 0 .. Cardinality(DOMAIN map) - 1 /\ IsFiniteSet(DOMAIN map)
      /\ Cardinality(DOMAIN map) \in Int
  BY MapFacts, NamespaceAssumption
<1>2. ids \subseteq DOMAIN map
  BY DEF taskmap_taskids
<1>3. IsFiniteSet(ids) /\ Cardinality(ids) <= Cardinality(DOMAIN map)
  BY <1>1, <1>2, FS_Subset
<1>4. Cardinality(ids) \in Nat
  BY <1>3, FS_CardinalityType
<1>5. ids \subseteq Nat
  <2> SUFFICES ASSUME NEW r \in ids PROVE r \in Nat
    OBVIOUS
  <2>1. r \in 0 .. Cardinality(DOMAIN map) - 1
    BY <1>1, <1>2
  <2> QED
    BY <1>1, <2>1
<1>6. \A r \in ids : map[r] = s
  BY DEF taskmap_taskids
<1> HIDE DEF ids
<1>7. \A r \in ids : LocalRank(map, r) = RankIn(ids, r)
  BY <1>6 DEF LocalRank, get_local_rank, RankIn, ids
<1> QED
  BY <1>1, <1>2, <1>3, <1>4, <1>5, <1>6, <1>7 DEF ids

\* Every rank is in the process map at its node and local rank, the line of a
\* shell is its list of peers, and there is room for no others.
LEMMA ProcMapRight ==
  ASSUME NEW map \in Taskmaps
  PROVE  LET pm     == set_proc_map(map)
             places == UNION {{<<n, l>> : l \in DOMAIN pm[n]} : n \in DOMAIN pm}
         IN  /\ Len(pm) = nnodes(map)
             /\ \A s \in 0 .. nnodes(map) - 1 : /\ pm[s + 1] = set_lpeers(map, s)
                                                /\ Len(pm[s + 1]) = ntasks(map, s)
             /\ \A r \in DOMAIN map : /\ LocalRank(map, r) \in 0 .. Cardinality(DOMAIN map) - 1
                                      /\ pm[map[r] + 1][LocalRank(map, r) + 1] = r
             /\ Cardinality(places) = Cardinality(DOMAIN map)
<1> DEFINE pm == set_proc_map(map)
           ids(s) == taskmap_taskids(map, s)
           places == UNION {{<<n, l>> : l \in DOMAIN pm[n]} : n \in DOMAIN pm}
           place == [r \in DOMAIN map |-> <<map[r] + 1, LocalRank(map, r) + 1>>]
<1>1. /\ nnodes(map) \in Nat /\ \A r \in DOMAIN map : map[r] \in 0 .. nnodes(map) - 1
      /\ IsFiniteSet(DOMAIN map) /\ Cardinality(DOMAIN map) \in Int
  BY MapFacts, NamespaceAssumption
<1>2. pm = [n \in 1 .. nnodes(map) |-> idset_encode(ids(n - 1))]
  BY DEF set_proc_map
<1>3. DOMAIN pm = 1 .. nnodes(map) /\ Len(pm) = nnodes(map)
  BY <1>1, <1>2
<1>4. \A s \in 0 .. nnodes(map) - 1 : s + 1 \in DOMAIN pm /\ pm[s + 1] = idset_encode(ids(s))
  <2> TAKE s \in 0 .. nnodes(map) - 1
  <2>1. s + 1 \in 1 .. nnodes(map) /\ (s + 1) - 1 = s
    BY <1>1
  <2> QED
    BY <1>2, <2>1
<1> HIDE DEF pm
<1>5. ASSUME NEW s
      PROVE  /\ Cardinality(ids(s)) \in 0 .. Cardinality(DOMAIN map)
             /\ ids(s) \subseteq DOMAIN map
             /\ DOMAIN idset_encode(ids(s)) = 1 .. Cardinality(ids(s))
             /\ Len(idset_encode(ids(s))) = Cardinality(ids(s))
             /\ \A r \in ids(s) : /\ map[r] = s
                                  /\ LocalRank(map, r) \in 0 .. Cardinality(ids(s)) - 1
                                  /\ idset_encode(ids(s))[LocalRank(map, r) + 1] = r
             /\ \A l \in 1 .. Cardinality(ids(s)) : \E r \in ids(s) : LocalRank(map, r) + 1 = l
  <2> DEFINE here == ids(s)
  <2>1. /\ here \subseteq Nat /\ here \subseteq DOMAIN map /\ IsFiniteSet(here)
        /\ Cardinality(here) \in 0 .. Cardinality(DOMAIN map)
        /\ \A r \in here : LocalRank(map, r) = RankIn(here, r) /\ map[r] = s
    BY NodeFacts
  <2> HIDE DEF here
  <2>2. /\ DOMAIN idset_encode(here) = 1 .. Cardinality(here)
        /\ Len(idset_encode(here)) = Cardinality(here)
        /\ \A r \in here : idset_encode(here)[RankIn(here, r) + 1] = r
        /\ \A l \in 1 .. Cardinality(here) : \E r \in here : RankIn(here, r) + 1 = l
    BY <2>1, EncodeLists
  <2>3. \A r \in here : RankIn(here, r) \in 0 .. Cardinality(here) - 1
    BY <2>1, RankInBounds
  <2> QED
    BY <2>1, <2>2, <2>3 DEF here
<1>6. \A r \in DOMAIN map : r \in ids(map[r])
  BY DEF taskmap_taskids
<1> HIDE DEF ids
<1>7. ASSUME NEW s \in 0 .. nnodes(map) - 1
      PROVE  pm[s + 1] = set_lpeers(map, s) /\ Len(pm[s + 1]) = ntasks(map, s)
  BY <1>4, <1>5 DEF set_lpeers, ntasks, ids
<1>8. ASSUME NEW r \in DOMAIN map
      PROVE  /\ LocalRank(map, r) \in 0 .. Cardinality(DOMAIN map) - 1
             /\ map[r] + 1 \in DOMAIN pm
             /\ LocalRank(map, r) + 1 \in DOMAIN pm[map[r] + 1]
             /\ pm[map[r] + 1][LocalRank(map, r) + 1] = r
  <2> DEFINE s == map[r]
  <2>1. r \in ids(s) /\ s \in 0 .. nnodes(map) - 1
    BY <1>1, <1>6
  <2> HIDE DEF s
  <2>2. s + 1 \in DOMAIN pm /\ pm[s + 1] = idset_encode(ids(s))
    BY <1>4, <2>1
  <2>3. /\ LocalRank(map, r) \in 0 .. Cardinality(ids(s)) - 1
        /\ Cardinality(ids(s)) \in 0 .. Cardinality(DOMAIN map)
        /\ DOMAIN idset_encode(ids(s)) = 1 .. Cardinality(ids(s))
        /\ idset_encode(ids(s))[LocalRank(map, r) + 1] = r
    BY <1>5, <2>1
  <2>4. /\ LocalRank(map, r) \in 0 .. Cardinality(DOMAIN map) - 1
        /\ LocalRank(map, r) + 1 \in 1 .. Cardinality(ids(s))
    BY <1>1, <2>3
  <2> QED
    BY <2>2, <2>3, <2>4 DEF s
<1>9. \A n \in DOMAIN pm : \A l \in DOMAIN pm[n] : \E r \in DOMAIN map :
         map[r] + 1 = n /\ LocalRank(map, r) + 1 = l
  <2> TAKE n \in DOMAIN pm
  <2> TAKE l \in DOMAIN pm[n]
  <2> DEFINE s == n - 1
  <2>1. n \in Int /\ s \in 0 .. nnodes(map) - 1 /\ s + 1 = n
    BY <1>1, <1>3
  <2> HIDE DEF s
  <2>2. pm[n] = idset_encode(ids(s))
    BY <1>4, <2>1
  <2>3. l \in 1 .. Cardinality(ids(s))
    BY <1>5, <2>2
  <2>4. PICK r \in ids(s) : LocalRank(map, r) + 1 = l
    BY <1>5, <2>3
  <2>5. r \in DOMAIN map /\ map[r] = s
    BY <1>5
  <2> QED
    BY <2>1, <2>4, <2>5
<1>10. \A n, l : <<n, l>> \in places <=> n \in DOMAIN pm /\ l \in DOMAIN pm[n]
  OBVIOUS
<1>11. \A a \in places : \E n \in DOMAIN pm : \E l \in DOMAIN pm[n] : a = <<n, l>>
  OBVIOUS
<1> HIDE DEF places
<1>12. place \in Bijection(DOMAIN map, places)
  <2>1. place \in [DOMAIN map -> places]
    BY <1>8, <1>10
  <2>2. \A a \in places : \E r \in DOMAIN map : place[r] = a
    <3> TAKE a \in places
    <3>1. PICK n \in DOMAIN pm : \E l \in DOMAIN pm[n] : a = <<n, l>>
      BY <1>11
    <3>2. PICK l \in DOMAIN pm[n] : a = <<n, l>>
      BY <3>1
    <3>3. PICK r \in DOMAIN map : map[r] + 1 = n /\ LocalRank(map, r) + 1 = l
      BY <1>9
    <3> QED
      BY <3>2, <3>3
  <2>3. \A q, r \in DOMAIN map : place[q] = place[r] => q = r
    <3> TAKE q, r \in DOMAIN map
    <3> HAVE place[q] = place[r]
    <3>1. map[q] + 1 = map[r] + 1 /\ LocalRank(map, q) + 1 = LocalRank(map, r) + 1
      OBVIOUS
    <3> QED
      BY <1>8, <3>1
  <2> HIDE DEF place
  <2> QED
    BY <2>1, <2>2, <2>3 DEF Bijection, Injection, Surjection, IsInjective
<1> HIDE DEF place
<1>13. Cardinality(places) = Cardinality(DOMAIN map)
  <2>1. ExistsBijection(DOMAIN map, places)
    BY <1>12 DEF ExistsBijection
  <2> QED
    BY <1>1, <2>1, FS_Bijection
<1> QED
  BY <1>3, <1>7, <1>8, <1>13 DEF pm, places

-----------------------------------------------------------------------------
(* The order of the attributes.                                            *)

Keys == <<"PMIX_JOBID", "PMIX_LOCAL_PEERS", "PMIX_NODE_MAP", "PMIX_PROC_MAP",
          "PMIX_TDIR_RMCLEAN", "PMIX_JOB_NUM_APPS", "PMIX_TMPDIR", "PMIX_LOCAL_SIZE",
          "PMIX_UNIV_SIZE", "PMIX_JOB_SIZE", "PMIX_APPNUM", "PMIX_PROC_INFO_ARRAY">>

LEMMA KeyList ==
  /\ Keys[1] = "PMIX_JOBID" /\ Keys[2] = "PMIX_LOCAL_PEERS" /\ Keys[3] = "PMIX_NODE_MAP"
  /\ Keys[4] = "PMIX_PROC_MAP" /\ Keys[5] = "PMIX_TDIR_RMCLEAN" /\ Keys[6] = "PMIX_JOB_NUM_APPS"
  /\ Keys[7] = "PMIX_TMPDIR" /\ Keys[8] = "PMIX_LOCAL_SIZE" /\ Keys[9] = "PMIX_UNIV_SIZE"
  /\ Keys[10] = "PMIX_JOB_SIZE" /\ Keys[11] = "PMIX_APPNUM" /\ Keys[12] = "PMIX_PROC_INFO_ARRAY"
  BY DEF Keys

LEMMA KeysDiffer ==
  ASSUME NEW i \in 1 .. 12
  PROVE  /\ Keys[i] \notin {"infovec_create", "destroy", "returned"}
         /\ \A j \in 1 .. 12 : Keys[i] = Keys[j] => i = j
<1>1. i \in {1, 2, 3, 4, 5, 6, 7, 8, 9, 10, 11, 12}
  OBVIOUS
<1>2. Keys[i] \notin {"infovec_create", "destroy", "returned"}
  BY <1>1, KeyList
<1>3. ASSUME NEW j \in 1 .. 12, Keys[i] = Keys[j] PROVE i = j
  <2>1. j \in {1, 2, 3, 4, 5, 6, 7, 8, 9, 10, 11, 12}
    OBVIOUS
  <2> QED
    BY <1>1, <1>3, <2>1, KeyList
<1> QED
  BY <1>2, <1>3

LEMMA NoKey ==
  ASSUME NEW x \in {"destroy", "returned"}
  PROVE  x # "infovec_create" /\ x # Keys[12] /\ \A j \in 1 .. 11 : x # Keys[j]
<1>1. x # Keys[12] /\ x # "infovec_create"
  BY KeyList
<1>2. ASSUME NEW j \in 1 .. 11 PROVE x # Keys[j]
  <2>1. j \in 1 .. 12
    OBVIOUS
  <2> QED
    BY <2>1, KeysDiffer
<1> QED
  BY <1>1, <1>2

\* What the values that are compared have to be.
Right(map, shell, nodes, i, val) ==
    /\ i = 2 => val = set_lpeers(map, shell)
    /\ i = 3 => val = nodes
    /\ i = 4 => val = set_proc_map(map)
    /\ i = 8 => val = ntasks(map, shell)
    /\ i = 10 => val = Cardinality(DOMAIN map)

\* The first n attributes are there: the eleven of the job, then one for each rank.
Told(map, shell, nodes, info, n) ==
    /\ info \in Seq(Range(info)) /\ Len(info) = n
    /\ \A i \in 1 .. n :
          /\ i <= 11 => info[i].key = Keys[i] /\ Right(map, shell, nodes, i, info[i].val)
          /\ i > 11 => Describes(map, info[i], i - 12)

LEMMA OneMoreTold ==
  ASSUME NEW map, NEW shell, NEW nodes, NEW info, NEW n \in Nat, Told(map, shell, nodes, info, n),
         NEW e,
         n + 1 <= 11 => e.key = Keys[n + 1] /\ Right(map, shell, nodes, n + 1, e.val),
         n + 1 > 11 => Describes(map, e, (n + 1) - 12)
  PROVE  Told(map, shell, nodes, Append(info, e), n + 1)
<1> DEFINE T == Range(info)
           new == Append(info, e)
<1>1. info \in Seq(T) /\ Len(info) = n
  BY DEF Told
<1> HIDE DEF T
<1>2. /\ new \in Seq(T \cup {e}) /\ Len(new) = n + 1
      /\ \A i \in DOMAIN info : new[i] = info[i]
      /\ new[n + 1] = e
  BY <1>1, AppendShape
<1>3. DOMAIN info = 1 .. n
  BY <1>1
<1> HIDE DEF new
<1>4. new \in Seq(Range(new))
  BY <1>2, OfItsRange
<1>5. ASSUME NEW i \in 1 .. n + 1
      PROVE  /\ i <= 11 => new[i].key = Keys[i] /\ Right(map, shell, nodes, i, new[i].val)
             /\ i > 11 => Describes(map, new[i], i - 12)
  <2>1. CASE i = n + 1
    BY <1>2, <2>1
  <2>2. CASE i # n + 1
    <3>1. i \in 1 .. n /\ new[i] = info[i]
      BY <1>2, <1>3, <2>2
    <3> QED
      BY <3>1 DEF Told
  <2> QED
    BY <2>1, <2>2
<1> QED
  BY <1>2, <1>4, <1>5 DEF Told, new

\* The node map of the job.
Nodes == maps_node_create(nodelist, copied)

ContentInv ==
    /\ taskmap \in Taskmaps /\ shell_rank \in 0 .. nnodes(taskmap) - 1
    /\ Len(Nodes) = nnodes(taskmap)
    /\ at = "infovec_create" => proc = 0
    /\ \A i \in 1 .. 11 :
          at = Keys[i] => proc = 0 /\ Told(taskmap, shell_rank, Nodes, iv.info, i - 1)
    /\ at = Keys[12] => /\ proc \in 0 .. Cardinality(DOMAIN taskmap)
                        /\ Told(taskmap, shell_rank, Nodes, iv.info, 11 + proc)
    /\ nspace # <<>> => Told(taskmap, shell_rank, Nodes, nspace, 11 + Cardinality(DOMAIN taskmap))

LEMMA NodesLength ==
  ASSUME NEW n \in Nat, NEW hl, DOMAIN hl = 1 .. n, NEW cp
  PROVE  Len(maps_node_create(hl, cp)) = n
<1> DEFINE f == maps_node_create(hl, cp)
<1>1. DOMAIN f = 1 .. n
  BY DEF maps_node_create
<1>2. f = [i \in 1 .. n |-> f[i]]
  BY <1>1 DEF maps_node_create
<1> HIDE DEF f
<1> QED
  BY <1>1, <1>2 DEF f

LEMMA ContentInvInit == Init => ContentInv
<1> SUFFICES ASSUME Init PROVE ContentInv
  OBVIOUS
<1>1. taskmap \in Taskmaps /\ nodelist \in [1 .. nnodes(taskmap) -> Hosts]
  BY DEF Init
<1>2. nnodes(taskmap) \in Nat
  BY <1>1, MapFacts
<1>3. Len(Nodes) = nnodes(taskmap)
  BY <1>1, <1>2, NodesLength DEF Nodes
<1>4. at = "infovec_create" /\ proc = 0 /\ nspace = <<>> /\ shell_rank \in 0 .. nnodes(taskmap) - 1
  BY DEF Init
<1>5. \A i \in 1 .. 12 : at # Keys[i]
  BY <1>4, KeysDiffer
<1> QED
  BY <1>1, <1>3, <1>4, <1>5 DEF ContentInv

\* The vector is a record and its attributes a sequence.
LEMMA VectorIsRecord == HeapInv => DOMAIN iv = VectorFields
  BY DEF HeapInv, Held, IsVector, VectorFields

\* An operand of the || chain tells one attribute more.
LEMMA OperandContent ==
  ASSUME HeapInv, ContentInv, NEW i \in 1 .. 11, NEW outcomes, NEW val,
         \A o \in outcomes : Adds(o, iv, Keys[i], val),
         Right(taskmap, shell_rank, Nodes, i, val),
         Operand(Keys[i], Keys[i + 1], outcomes)
  PROVE  ContentInv'
<1>1. PICK o \in outcomes : /\ at = Keys[i] /\ iv' = o.iv
                            /\ at' = IF o.ok THEN Keys[i + 1] ELSE "destroy"
  BY DEF Operand
<1>2. /\ taskmap' = taskmap /\ shell_rank' = shell_rank /\ Nodes' = Nodes
      /\ proc' = proc /\ nspace' = nspace
  BY DEF Operand, job, Nodes
<1>3. proc = 0 /\ Told(taskmap, shell_rank, Nodes, iv.info, i - 1) /\ i - 1 \in Nat /\ (i - 1) + 1 = i
  BY <1>1 DEF ContentInv
<1>4. CASE o.ok
  <2>1. PICK e : e.key = Keys[i] /\ e.val = val /\ o.iv.info = Append(iv.info, e)
    BY <1>4 DEF Adds
  <2>2. Told(taskmap, shell_rank, Nodes, Append(iv.info, e), (i - 1) + 1)
    <3> DEFINE n == i - 1
    <3>1. n \in Nat /\ n + 1 = i /\ Told(taskmap, shell_rank, Nodes, iv.info, n) /\ ~(n + 1 > 11)
      BY <1>3
    <3> HIDE DEF n
    <3>2. Told(taskmap, shell_rank, Nodes, Append(iv.info, e), n + 1)
      BY <2>1, <3>1, OneMoreTold
    <3> QED
      BY <3>2 DEF n
  <2>3. Told(taskmap, shell_rank, Nodes, iv'.info, i)
    BY <1>1, <1>3, <2>1, <2>2
  <2>4. at' = Keys[i + 1] /\ i + 1 \in 1 .. 12
    BY <1>1, <1>4
  <2>5. at' # "infovec_create" /\ \A j \in 1 .. 12 : at' = Keys[j] => j = i + 1
    BY <2>4, KeysDiffer
  <2>6. \A j \in 1 .. 11 : at' = Keys[j] => j - 1 = i
    BY <2>5
  <2>7. at' = Keys[12] => i = 11
    BY <2>5
  <2>8. Cardinality(DOMAIN taskmap) \in 1 .. MaxTasks
    BY MapFacts DEF ContentInv
  <2>9. at' = Keys[12] => /\ proc' \in 0 .. Cardinality(DOMAIN taskmap)
                          /\ Told(taskmap, shell_rank, Nodes, iv'.info, 11 + proc')
    <3>1. 0 \in 0 .. Cardinality(DOMAIN taskmap)
      BY <2>8, NamespaceAssumption
    <3>2. 11 + 0 = 11
      OBVIOUS
    <3> QED
      BY <1>2, <1>3, <2>3, <2>7, <3>1, <3>2
  <2> QED
    BY <1>2, <1>3, <2>3, <2>5, <2>6, <2>9 DEF ContentInv
<1>5. CASE ~o.ok
  <2>1. at' = "destroy"
    BY <1>1, <1>5
  <2>2. at' # "infovec_create" /\ at' # Keys[12] /\ \A j \in 1 .. 11 : at' # Keys[j]
    BY <2>1, NoKey
  <2> QED
    BY <1>2, <2>2 DEF ContentInv
<1> QED
  BY <1>4, <1>5

LEMMA CreateContent == HeapInv /\ ContentInv /\ Create => ContentInv'
<1> SUFFICES ASSUME HeapInv, ContentInv, Create PROVE ContentInv'
  OBVIOUS
<1>1. /\ at = "infovec_create"
      /\ taskmap' = taskmap /\ shell_rank' = shell_rank /\ Nodes' = Nodes
      /\ proc' = proc /\ nspace' = nspace
  BY DEF Create, Operand, job, Nodes
<1>2. proc = 0
  BY <1>1 DEF ContentInv
<1>3. PICK o \in infovec_create(h) : /\ iv' = o.iv
                                     /\ at' = IF o.ok THEN "PMIX_JOBID" ELSE "destroy"
  BY DEF Create, Operand
<1>4. iv'.info = <<>>
  <2>1. PICK m \in malloc(h, NoVector) : o = [m EXCEPT !.iv = [NoVector EXCEPT !.self = m.p]]
    BY DEF infovec_create
  <2> DEFINE w == [NoVector EXCEPT !.self = m.p]
  <2>2. w.info = <<>>
    BY DEF NoVector
  <2> HIDE DEF w
  <2>3. o.iv = w
    BY <2>1, MallocShape, VectorSet DEF w
  <2> QED
    BY <1>3, <2>2, <2>3
<1>5. Told(taskmap, shell_rank, Nodes, <<>>, 0)
  BY DEF Told
<1>6. /\ at' = Keys[1] \/ at' = "destroy"
      /\ at' # "infovec_create"
  BY <1>3, KeyList
<1>7. \A j \in 1 .. 12 : at' = Keys[j] => j = 1
  BY <1>6, KeysDiffer
<1>8. \A j \in 1 .. 11 : at' = Keys[j] => j - 1 = 0
  BY <1>7
<1>9. at' # Keys[12]
  BY <1>7
<1> QED
  BY <1>1, <1>2, <1>4, <1>5, <1>6, <1>8, <1>9 DEF ContentInv

\* The loop describes the next rank.
LEMMA ProcInfosContent == HeapInv /\ ContentInv /\ SetProcInfos => ContentInv'
<1> SUFFICES ASSUME HeapInv, ContentInv, SetProcInfos PROVE ContentInv'
  OBVIOUS
<1> DEFINE total == Cardinality(DOMAIN taskmap)
<1>1. /\ at = Keys[12] /\ proc \in DOMAIN taskmap /\ proc' = proc + 1 /\ nspace' = nspace
      /\ taskmap' = taskmap /\ shell_rank' = shell_rank /\ Nodes' = Nodes
  BY KeyList DEF SetProcInfos, job, Nodes
<1>2. PICK o \in ProcInfo(proc) : iv' = o.iv /\ at' = IF o.ok THEN at ELSE "destroy"
  BY DEF SetProcInfos
<1>3. total \in 1 .. MaxTasks /\ DOMAIN taskmap = 0 .. total - 1
  BY MapFacts DEF ContentInv
<1>4. Told(taskmap, shell_rank, Nodes, iv.info, 11 + proc)
  BY <1>1 DEF ContentInv
<1>5. proc \in Nat /\ proc' \in 0 .. total
  BY <1>1, <1>3, NamespaceAssumption
<1>6. CASE o.ok
  <2>1. PICK e : Describes(taskmap, e, proc) /\ o.iv.info = Append(iv.info, e)
    BY <1>6, VectorIsRecord, ProcInfoAdds
  <2> DEFINE n == 11 + proc
  <2>2. /\ n \in Nat /\ ~(n + 1 <= 11) /\ (n + 1) - 12 = proc /\ n + 1 = 11 + proc'
        /\ Told(taskmap, shell_rank, Nodes, iv.info, n)
    BY <1>1, <1>4, <1>5
  <2> HIDE DEF n
  <2>3. Told(taskmap, shell_rank, Nodes, Append(iv.info, e), n + 1)
    BY <2>1, <2>2, OneMoreTold
  <2>4. Told(taskmap, shell_rank, Nodes, iv'.info, 11 + proc')
    BY <1>2, <2>1, <2>2, <2>3
  <2>5. at' # "infovec_create" /\ \A j \in 1 .. 11 : at' # Keys[j]
    <3>1. at' = Keys[12]
      BY <1>1, <1>2, <1>6
    <3>2. \A j \in 1 .. 11 : j \in 1 .. 12 /\ j # 12
      OBVIOUS
    <3> QED
      BY <3>1, <3>2, KeysDiffer
  <2> QED
    BY <1>1, <1>5, <2>4, <2>5 DEF ContentInv
<1>7. CASE ~o.ok
  <2>1. at' = "destroy"
    BY <1>2, <1>7
  <2>2. at' # "infovec_create" /\ at' # Keys[12] /\ \A j \in 1 .. 11 : at' # Keys[j]
    BY <2>1, NoKey
  <2> QED
    BY <1>1, <2>2 DEF ContentInv
<1> QED
  BY <1>6, <1>7

\* The server is given everything, or nothing.
LEMMA RegisterContent == HeapInv /\ ContentInv /\ RegisterNspace => ContentInv'
<1> SUFFICES ASSUME HeapInv, ContentInv, RegisterNspace PROVE ContentInv'
  OBVIOUS
<1> DEFINE total == Cardinality(DOMAIN taskmap)
<1>1. /\ at = Keys[12] /\ proc \notin DOMAIN taskmap /\ nspace' \in {iv.info, <<>>}
      /\ taskmap' = taskmap /\ shell_rank' = shell_rank /\ Nodes' = Nodes /\ at' = "destroy"
  BY KeyList DEF RegisterNspace, job, Nodes
<1>2. total \in 1 .. MaxTasks /\ DOMAIN taskmap = 0 .. total - 1
  BY MapFacts DEF ContentInv
<1>3. Told(taskmap, shell_rank, Nodes, iv.info, 11 + proc) /\ proc \in 0 .. total
  BY <1>1 DEF ContentInv
<1>4. proc = total
  BY <1>1, <1>2, <1>3, NamespaceAssumption
<1>5. at' # "infovec_create" /\ at' # Keys[12] /\ \A j \in 1 .. 11 : at' # Keys[j]
  BY <1>1, NoKey
<1>6. nspace' # <<>> => Told(taskmap, shell_rank, Nodes, nspace', 11 + total)
  <2> SUFFICES ASSUME nspace' # <<>> PROVE Told(taskmap, shell_rank, Nodes, nspace', 11 + total)
    OBVIOUS
  <2>1. nspace' = iv.info
    BY <1>1
  <2> QED
    BY <1>3, <1>4, <2>1
<1> QED
  BY <1>1, <1>5, <1>6 DEF ContentInv

-----------------------------------------------------------------------------
\* Each operand puts the attribute of its turn.
LEMMA StrContent ==
  ASSUME HeapInv, ContentInv, NEW i \in 1 .. 11, NEW val,
         Right(taskmap, shell_rank, Nodes, i, val), SetStr(Keys[i], val, Keys[i + 1])
  PROVE  ContentInv'
<1> DEFINE outcomes == infovec_set_str(h, iv, Keys[i], val)
<1>1. \A o \in outcomes : Adds(o, iv, Keys[i], val)
  BY SetStrAdds, VectorIsRecord
<1>2. Operand(Keys[i], Keys[i + 1], outcomes)
  BY DEF SetStr
<1> HIDE DEF outcomes
<1> QED
  BY <1>1, <1>2, OperandContent

LEMMA NumberContent ==
  ASSUME HeapInv, ContentInv, NEW i \in 1 .. 11, NEW type, NEW val,
         Right(taskmap, shell_rank, Nodes, i, val),
         Operand(Keys[i], Keys[i + 1], Put(h, iv, Entry(Keys[i], type, val, Plain)))
  PROVE  ContentInv'
<1> DEFINE outcomes == Put(h, iv, Entry(Keys[i], type, val, Plain))
<1>1. \A o \in outcomes : Adds(o, iv, Keys[i], val)
  BY PutAdds, VectorIsRecord
<1>2. Operand(Keys[i], Keys[i + 1], outcomes)
  OBVIOUS
<1> HIDE DEF outcomes
<1> QED
  BY <1>1, <1>2, OperandContent

LEMMA LpeersContent == HeapInv /\ ContentInv /\ SetLpeers => ContentInv'
<1> SUFFICES ASSUME HeapInv, ContentInv, SetLpeers PROVE ContentInv'
  OBVIOUS
<1> DEFINE val == set_lpeers(taskmap, shell_rank)
           outcomes == HandOver(h, iv, "PMIX_LOCAL_PEERS", val)
<1>1. Operand("PMIX_LOCAL_PEERS", "PMIX_NODE_MAP", outcomes)
  BY DEF SetLpeers
<1>2. Right(taskmap, shell_rank, Nodes, 2, val)
  BY DEF Right
<1> HIDE DEF val
<1>3. \A o \in outcomes : Adds(o, iv, "PMIX_LOCAL_PEERS", val)
  BY HandOverAdds, VectorIsRecord
<1> HIDE DEF outcomes
<1>4. 2 \in 1 .. 11 /\ Keys[2] = "PMIX_LOCAL_PEERS" /\ Keys[2 + 1] = "PMIX_NODE_MAP"
  BY KeyList
<1> DEFINE i == 2
<1>5. /\ i \in 1 .. 11 /\ Right(taskmap, shell_rank, Nodes, i, val)
      /\ \A o \in outcomes : Adds(o, iv, Keys[i], val)
      /\ Operand(Keys[i], Keys[i + 1], outcomes)
  BY <1>1, <1>2, <1>3, <1>4
<1> HIDE DEF i
<1> QED
  BY <1>5, OperandContent

LEMMA NodeMapContent == HeapInv /\ ContentInv /\ SetNodeMap => ContentInv'
<1> SUFFICES ASSUME HeapInv, ContentInv, SetNodeMap PROVE ContentInv'
  OBVIOUS
<1> DEFINE outcomes == Cooked(h, iv, "PMIX_NODE_MAP", Nodes)
<1>1. Operand("PMIX_NODE_MAP", "PMIX_PROC_MAP", outcomes)
  BY DEF SetNodeMap, Nodes
<1>2. Right(taskmap, shell_rank, Nodes, 3, Nodes)
  BY DEF Right
<1>3. \A o \in outcomes : Adds(o, iv, "PMIX_NODE_MAP", Nodes)
  BY CookedAdds, VectorIsRecord
<1> HIDE DEF outcomes
<1>4. Keys[3] = "PMIX_NODE_MAP" /\ Keys[3 + 1] = "PMIX_PROC_MAP"
  BY KeyList
<1> DEFINE i == 3
<1>5. /\ i \in 1 .. 11 /\ Right(taskmap, shell_rank, Nodes, i, Nodes)
      /\ \A o \in outcomes : Adds(o, iv, Keys[i], Nodes)
      /\ Operand(Keys[i], Keys[i + 1], outcomes)
  BY <1>1, <1>2, <1>3, <1>4
<1> HIDE DEF i
<1> QED
  BY <1>5, OperandContent

LEMMA ProcMapContent == HeapInv /\ ContentInv /\ SetProcMap => ContentInv'
<1> SUFFICES ASSUME HeapInv, ContentInv, SetProcMap PROVE ContentInv'
  OBVIOUS
<1> DEFINE val == set_proc_map(taskmap)
           outcomes == Cooked(h, iv, "PMIX_PROC_MAP", val)
<1>1. Operand("PMIX_PROC_MAP", "PMIX_TDIR_RMCLEAN", outcomes)
  BY DEF SetProcMap
<1>2. Right(taskmap, shell_rank, Nodes, 4, val)
  BY DEF Right
<1> HIDE DEF val
<1>3. \A o \in outcomes : Adds(o, iv, "PMIX_PROC_MAP", val)
  BY CookedAdds, VectorIsRecord
<1> HIDE DEF outcomes
<1>4. Keys[4] = "PMIX_PROC_MAP" /\ Keys[4 + 1] = "PMIX_TDIR_RMCLEAN"
  BY KeyList
<1> DEFINE i == 4
<1>5. /\ i \in 1 .. 11 /\ Right(taskmap, shell_rank, Nodes, i, val)
      /\ \A o \in outcomes : Adds(o, iv, Keys[i], val)
      /\ Operand(Keys[i], Keys[i + 1], outcomes)
  BY <1>1, <1>2, <1>3, <1>4
<1> HIDE DEF i
<1> QED
  BY <1>5, OperandContent

\* The strings and numbers among the operands.
LEMMA SetStrContent ==
  ASSUME HeapInv, ContentInv,
         \/ SetStr("PMIX_JOBID", "nspace", "PMIX_LOCAL_PEERS")
         \/ SetStr("PMIX_TMPDIR", "tmpdir", "PMIX_LOCAL_SIZE")
  PROVE  ContentInv'
<1>1. PICK i \in {1, 7} : \E val : SetStr(Keys[i], val, Keys[i + 1])
  <2>1. /\ Keys[1] = "PMIX_JOBID" /\ Keys[1 + 1] = "PMIX_LOCAL_PEERS"
        /\ Keys[7] = "PMIX_TMPDIR" /\ Keys[7 + 1] = "PMIX_LOCAL_SIZE"
    BY KeyList
  <2>2. CASE SetStr("PMIX_JOBID", "nspace", "PMIX_LOCAL_PEERS")
    <3>1. SetStr(Keys[1], "nspace", Keys[1 + 1])
      BY <2>1, <2>2
    <3> QED
      BY <3>1
  <2>3. CASE SetStr("PMIX_TMPDIR", "tmpdir", "PMIX_LOCAL_SIZE")
    <3>1. SetStr(Keys[7], "tmpdir", Keys[7 + 1])
      BY <2>1, <2>3
    <3> QED
      BY <3>1
  <2> QED
    BY <2>2, <2>3
<1>2. PICK val : SetStr(Keys[i], val, Keys[i + 1])
  BY <1>1
<1>3. i \in 1 .. 11 /\ Right(taskmap, shell_rank, Nodes, i, val)
  BY DEF Right
<1> QED
  BY <1>2, <1>3, StrContent

LEMMA SetBoolContent ==
  ASSUME HeapInv, ContentInv, SetBool("PMIX_TDIR_RMCLEAN", TRUE, "PMIX_JOB_NUM_APPS")
  PROVE  ContentInv'
<1> DEFINE val == TRUE
           i == 5
           type == "PMIX_BOOL"
<1>1. Keys[5] = "PMIX_TDIR_RMCLEAN" /\ Keys[5 + 1] = "PMIX_JOB_NUM_APPS"
  BY KeyList
<1> HIDE DEF val
<1>2. SetBool(Keys[5], val, Keys[5 + 1])
  BY <1>1 DEF val
<1>3. /\ i \in 1 .. 11 /\ Right(taskmap, shell_rank, Nodes, i, val)
      /\ SetBool(Keys[i], val, Keys[i + 1])
  BY <1>2 DEF Right
<1> HIDE DEF i
<1>4. Operand(Keys[i], Keys[i + 1], Put(h, iv, Entry(Keys[i], type, val, Plain)))
  BY <1>3 DEF SetBool, infovec_set_bool
<1> HIDE DEF type
<1> QED
  BY <1>3, <1>4, NumberContent

LEMMA SetU32Content ==
  ASSUME HeapInv, ContentInv,
         \/ SetU32("PMIX_JOB_NUM_APPS", 1, "PMIX_TMPDIR")
         \/ SetU32("PMIX_LOCAL_SIZE", ntasks(taskmap, shell_rank), "PMIX_UNIV_SIZE")
         \/ SetU32("PMIX_UNIV_SIZE", Cardinality(DOMAIN taskmap), "PMIX_JOB_SIZE")
         \/ SetU32("PMIX_JOB_SIZE", Cardinality(DOMAIN taskmap), "PMIX_APPNUM")
         \/ SetU32("PMIX_APPNUM", 0, "PMIX_PROC_INFO_ARRAY")
  PROVE  ContentInv'
<1> DEFINE Puts(i, val) == Right(taskmap, shell_rank, Nodes, i, val) /\ SetU32(Keys[i], val, Keys[i + 1])
           type == "PMIX_UINT32"
<1>1. PICK i \in 1 .. 11 : \E val : Puts(i, val)
  <2>1. CASE SetU32("PMIX_JOB_NUM_APPS", 1, "PMIX_TMPDIR")
    <3>1. Keys[6] = "PMIX_JOB_NUM_APPS" /\ Keys[6 + 1] = "PMIX_TMPDIR"
      BY KeyList
    <3>2. Puts(6, 1)
      BY <2>1, <3>1 DEF Right
    <3> QED
      BY <3>2
  <2>2. CASE SetU32("PMIX_LOCAL_SIZE", ntasks(taskmap, shell_rank), "PMIX_UNIV_SIZE")
    <3>1. Keys[8] = "PMIX_LOCAL_SIZE" /\ Keys[8 + 1] = "PMIX_UNIV_SIZE"
      BY KeyList
    <3>2. Puts(8, ntasks(taskmap, shell_rank))
      BY <2>2, <3>1 DEF Right
    <3> QED
      BY <3>2
  <2>3. CASE SetU32("PMIX_UNIV_SIZE", Cardinality(DOMAIN taskmap), "PMIX_JOB_SIZE")
    <3>1. Keys[9] = "PMIX_UNIV_SIZE" /\ Keys[9 + 1] = "PMIX_JOB_SIZE"
      BY KeyList
    <3>2. Puts(9, Cardinality(DOMAIN taskmap))
      BY <2>3, <3>1 DEF Right
    <3> QED
      BY <3>2
  <2>4. CASE SetU32("PMIX_JOB_SIZE", Cardinality(DOMAIN taskmap), "PMIX_APPNUM")
    <3>1. Keys[10] = "PMIX_JOB_SIZE" /\ Keys[10 + 1] = "PMIX_APPNUM"
      BY KeyList
    <3>2. Puts(10, Cardinality(DOMAIN taskmap))
      BY <2>4, <3>1 DEF Right
    <3> QED
      BY <3>2
  <2>5. CASE SetU32("PMIX_APPNUM", 0, "PMIX_PROC_INFO_ARRAY")
    <3>1. Keys[11] = "PMIX_APPNUM" /\ Keys[11 + 1] = "PMIX_PROC_INFO_ARRAY"
      BY KeyList
    <3>2. Puts(11, 0)
      BY <2>5, <3>1 DEF Right
    <3> QED
      BY <3>2
  <2> QED
    BY <2>1, <2>2, <2>3, <2>4, <2>5
<1>2. PICK val : Right(taskmap, shell_rank, Nodes, i, val) /\ SetU32(Keys[i], val, Keys[i + 1])
  BY <1>1
<1>3. Operand(Keys[i], Keys[i + 1], Put(h, iv, Entry(Keys[i], type, val, Plain)))
  BY <1>2 DEF SetU32, infovec_set_u32
<1> HIDE DEF type
<1> QED
  BY <1>2, <1>3, NumberContent

LEMMA DestroyContent == ContentInv /\ Destroy => ContentInv'
<1> SUFFICES ASSUME ContentInv, Destroy PROVE ContentInv'
  OBVIOUS
<1>1. /\ taskmap' = taskmap /\ shell_rank' = shell_rank /\ Nodes' = Nodes
      /\ nspace' = nspace /\ at' = "returned"
  BY DEF Destroy, job, Nodes
<1>2. at' # "infovec_create" /\ at' # Keys[12] /\ \A j \in 1 .. 11 : at' # Keys[j]
  BY <1>1, NoKey
<1> QED
  BY <1>1, <1>2 DEF ContentInv

LEMMA SameContent ==
  ASSUME ContentInv, UNCHANGED <<job, at, proc, iv, nspace>>
  PROVE  ContentInv'
<1>1. /\ taskmap' = taskmap /\ shell_rank' = shell_rank /\ Nodes' = Nodes
      /\ nspace' = nspace /\ at' = at /\ proc' = proc /\ iv' = iv
  BY DEF job, Nodes
<1> QED
  BY <1>1 DEF ContentInv

LEMMA ContentInvStep == HeapInv /\ ContentInv /\ [Next]_vars => ContentInv'
<1> SUFFICES ASSUME HeapInv, ContentInv, [Next]_vars PROVE ContentInv'
  OBVIOUS
<1>1. CASE px_init
  BY <1>1, CreateContent, LpeersContent, NodeMapContent, ProcMapContent, SetStrContent,
     SetBoolContent, SetU32Content, ProcInfosContent, RegisterContent, DestroyContent
     DEF px_init
<1>2. ASSUME NEW rank \in -2 .. MaxTasks, Lookup(rank) PROVE ContentInv'
  BY <1>2, SameContent DEF Lookup
<1>3. CASE UNCHANGED vars
  BY <1>3, SameContent DEF vars, job
<1> QED
  BY <1>1, <1>2, <1>3 DEF Next

LEMMA ContentInvHolds == Spec => []ContentInv
  BY ContentInvInit, ContentInvStep, HeapInvHolds, PTL DEF Spec

-----------------------------------------------------------------------------
(* What all of it says together.                                           *)

\* The local rank of a task fits in the 16 bits that PMIx has for it.
LocalRanksFit == MaxTasks <= 2 ^ 16

\* Each attribute of the job is there once, and the others are the ranks'.
LEMMA ToldHaving ==
  ASSUME NEW map, NEW shell, NEW nodes, NEW info, NEW size \in Nat,
         Told(map, shell, nodes, info, 11 + size)
  PROVE  /\ \A i \in 1 .. 11 : /\ Value(info, Keys[i]) = info[i].val
                               /\ Right(map, shell, nodes, i, info[i].val)
         /\ Having(info, "PMIX_PROC_INFO_ARRAY") = 12 .. 11 + size
         /\ \A i \in 12 .. 11 + size : Describes(map, info[i], i - 12)
<1> DEFINE n == 11 + size
<1>1. n \in Nat /\ n >= 11 /\ DOMAIN info = 1 .. n
  BY DEF Told
<1>2. \A i \in 1 .. 11 : /\ i \in DOMAIN info /\ info[i].key = Keys[i]
                         /\ Right(map, shell, nodes, i, info[i].val)
  <2> TAKE i \in 1 .. 11
  <2>1. i \in 1 .. n /\ i <= 11
    BY <1>1
  <2> QED
    BY <1>1, <2>1 DEF Told
<1>3. \A i \in 12 .. n : /\ i \in DOMAIN info /\ Describes(map, info[i], i - 12)
                         /\ info[i].key = Keys[12]
  <2> TAKE i \in 12 .. n
  <2>1. i \in 1 .. n /\ i > 11
    BY <1>1
  <2>2. Describes(map, info[i], i - 12)
    BY <2>1 DEF Told
  <2>3. info[i].key = "PMIX_PROC_INFO_ARRAY"
    BY <2>2 DEF Describes
  <2> QED
    BY <1>1, <2>1, <2>2, <2>3, KeyList
<1> HIDE DEF n
<1>4. \A i \in DOMAIN info : i \in 1 .. 11 \/ i \in 12 .. n
  BY <1>1
<1>5. ASSUME NEW i \in 1 .. 11 PROVE Value(info, Keys[i]) = info[i].val
  <2>1. i \in 1 .. 12 /\ i # 12 /\ i \in Nat /\ 12 \in 1 .. 12
    OBVIOUS
  <2>2. ASSUME NEW j \in DOMAIN info, info[j].key = Keys[i] PROVE j = i
    <3>1. CASE j \in 1 .. 11
      <4>1. j \in 1 .. 12 /\ Keys[i] = Keys[j]
        BY <1>2, <2>2, <3>1
      <4> QED
        BY <2>1, <4>1, KeysDiffer
    <3>2. CASE j \in 12 .. n
      <4>1. Keys[i] = Keys[12]
        BY <1>3, <2>2, <3>2
      <4> QED
        BY <2>1, <4>1, KeysDiffer
    <3> QED
      BY <1>4, <3>1, <3>2
  <2>3. i \in DOMAIN info /\ info[i].key = Keys[i]
    BY <1>2
  <2>4. Having(info, Keys[i]) = {i}
    BY <2>2, <2>3 DEF Having
  <2> QED
    BY <2>1, <2>4, OnlyOne
<1>6. Having(info, Keys[12]) = 12 .. n
  <2>1. ASSUME NEW j \in 1 .. 11, info[j].key = Keys[12] PROVE FALSE
    <3>1. j \in 1 .. 12 /\ j # 12 /\ 12 \in 1 .. 12 /\ Keys[j] = Keys[12]
      BY <1>2, <2>1
    <3> QED
      BY <3>1, KeysDiffer
  <2> QED
    BY <1>3, <1>4, <2>1 DEF Having
<1> QED
  BY <1>2, <1>3, <1>5, <1>6, KeyList DEF n

\* Where a process map has a rank.
Spots(pm) == UNION {{<<n, l>> : l \in DOMAIN pm[n]} : n \in DOMAIN pm}

\* A vector that tells everything agrees with itself.
LEMMA ToldAgrees ==
  ASSUME LocalRanksFit, NEW map \in Taskmaps, NEW shell \in 0 .. nnodes(map) - 1,
         NEW nodes, Len(nodes) = nnodes(map), NEW info,
         Told(map, shell, nodes, info, 11 + Cardinality(DOMAIN map))
  PROVE  LET procs  == Having(info, "PMIX_PROC_INFO_ARRAY")
             of(i, key) == Value(info[i].val.info, key)
             pm     == Value(info, "PMIX_PROC_MAP")
             places == UNION {{<<n, l>> : l \in DOMAIN pm[n]} : n \in DOMAIN pm}
             size   == Value(info, "PMIX_JOB_SIZE")
         IN  /\ Cardinality(procs) = size
             /\ {of(i, "PMIX_RANK") : i \in procs} = 0 .. size - 1
             /\ \A i \in procs :
                   pm[of(i, "PMIX_NODEID") + 1][of(i, "PMIX_LOCAL_RANK") + 1]
                       = of(i, "PMIX_RANK")
             /\ Value(info, "PMIX_LOCAL_PEERS") = pm[shell + 1]
             /\ Value(info, "PMIX_LOCAL_SIZE") = Len(pm[shell + 1])
             /\ Cardinality(places) = size
             /\ Len(Value(info, "PMIX_NODE_MAP")) = Len(pm)
<1> DEFINE total == Cardinality(DOMAIN map)
           procs == Having(info, "PMIX_PROC_INFO_ARRAY")
           of(i, key) == Value(info[i].val.info, key)
           pm == set_proc_map(map)
           told == Value(info, "PMIX_PROC_MAP")
           size == Value(info, "PMIX_JOB_SIZE")
<1>1. total \in Nat /\ total <= MaxTasks /\ DOMAIN map = 0 .. total - 1
  BY MapFacts, NamespaceAssumption
<1>2. /\ \A i \in 1 .. 11 : /\ Value(info, Keys[i]) = info[i].val
                            /\ Right(map, shell, nodes, i, info[i].val)
      /\ procs = 12 .. 11 + total
      /\ \A i \in 12 .. 11 + total : Describes(map, info[i], i - 12)
  BY <1>1, ToldHaving
<1>3. /\ Value(info, "PMIX_LOCAL_PEERS") = set_lpeers(map, shell)
      /\ Value(info, "PMIX_NODE_MAP") = nodes
      /\ Value(info, "PMIX_PROC_MAP") = pm
      /\ Value(info, "PMIX_LOCAL_SIZE") = ntasks(map, shell)
      /\ Value(info, "PMIX_JOB_SIZE") = total
  <2>1. Value(info, Keys[2]) = set_lpeers(map, shell)
    BY <1>2 DEF Right
  <2>2. Value(info, Keys[3]) = nodes
    BY <1>2 DEF Right
  <2>3. Value(info, Keys[4]) = pm
    BY <1>2 DEF Right
  <2>4. Value(info, Keys[8]) = ntasks(map, shell)
    BY <1>2 DEF Right
  <2>5. Value(info, Keys[10]) = total
    BY <1>2 DEF Right
  <2> QED
    BY <2>1, <2>2, <2>3, <2>4, <2>5, KeyList
<1>4. /\ Len(pm) = nnodes(map)
      /\ pm[shell + 1] = set_lpeers(map, shell) /\ Len(pm[shell + 1]) = ntasks(map, shell)
      /\ \A r \in DOMAIN map : /\ LocalRank(map, r) \in 0 .. total - 1
                               /\ pm[map[r] + 1][LocalRank(map, r) + 1] = r
      /\ Cardinality(Spots(pm)) = total
  BY ProcMapRight DEF Spots
<1> HIDE DEF pm, procs
<1>5. Cardinality(procs) = total
  <2>1. Cardinality(12 .. 11 + total) = total
    BY <1>1, FS_Interval
  <2> QED
    BY <1>2, <2>1
<1>6. ASSUME NEW i \in procs
      PROVE  /\ i - 12 \in DOMAIN map
             /\ of(i, "PMIX_RANK") = i - 12
             /\ of(i, "PMIX_NODEID") = map[i - 12]
             /\ of(i, "PMIX_LOCAL_RANK") = LocalRank(map, i - 12)
  <2> DEFINE r == i - 12
             low == LocalRank(map, r)
  <2>1. i \in 12 .. 11 + total /\ r \in DOMAIN map
    BY <1>1, <1>2
  <2>2. Describes(map, info[i], r)
    BY <1>2, <2>1
  <2> HIDE DEF r
  <2>3. low \in 0 .. total - 1
    BY <1>4, <2>1
  <2>4. /\ of(i, "PMIX_RANK") = r
        /\ of(i, "PMIX_NODEID") = map[r]
        /\ of(i, "PMIX_LOCAL_RANK") = low % 2 ^ 16
    BY <2>2 DEF Describes, LocalRank
  <2> HIDE DEF low
  <2>5. low % 2 ^ 16 = low
    <3>1. low \in Int /\ 0 <= low /\ low < 65536
      BY <1>1, <2>3, NamespaceAssumption DEF LocalRanksFit
    <3>2. 2 ^ 16 = 65536
      OBVIOUS
    <3>3. low % 65536 = low
      BY <3>1
    <3> QED
      BY <3>2, <3>3
  <2> QED
    BY <2>1, <2>4, <2>5 DEF r, low
<1> HIDE DEF of
<1>7. {of(i, "PMIX_RANK") : i \in procs} = 0 .. total - 1
  <2>1. \A i \in procs : of(i, "PMIX_RANK") \in 0 .. total - 1
    BY <1>1, <1>6
  <2>2. \A r \in 0 .. total - 1 : \E i \in procs : of(i, "PMIX_RANK") = r
    <3> TAKE r \in 0 .. total - 1
    <3>1. r + 12 \in procs /\ (r + 12) - 12 = r
      BY <1>1, <1>2
    <3> QED
      BY <1>6, <3>1
  <2> QED
    BY <2>1, <2>2
<1>8. \A i \in procs : pm[of(i, "PMIX_NODEID") + 1][of(i, "PMIX_LOCAL_RANK") + 1] = of(i, "PMIX_RANK")
  BY <1>4, <1>6
<1>9. told = pm /\ size = total
  BY <1>3
<1> HIDE DEF told, size, total
<1>10. /\ Cardinality(procs) = size
       /\ {of(i, "PMIX_RANK") : i \in procs} = 0 .. size - 1
       /\ \A i \in procs :
             told[of(i, "PMIX_NODEID") + 1][of(i, "PMIX_LOCAL_RANK") + 1] = of(i, "PMIX_RANK")
       /\ Cardinality(Spots(told)) = size
  BY <1>4, <1>5, <1>7, <1>8, <1>9
<1>11. /\ Value(info, "PMIX_LOCAL_PEERS") = told[shell + 1]
       /\ Value(info, "PMIX_LOCAL_SIZE") = Len(told[shell + 1])
       /\ Len(Value(info, "PMIX_NODE_MAP")) = Len(told)
  BY <1>3, <1>4, <1>9
<1> QED
  BY <1>10, <1>11 DEF procs, of, Spots, told, size

\* What the server has been given hangs together, for every task map of up to
\* 65536 tasks, every node list and whichever allocations fail.
THEOREM NamespaceIsRight == ASSUME LocalRanksFit PROVE Spec => []NamespaceAgrees
<1>1. ContentInv => NamespaceAgrees
  <2> SUFFICES ASSUME ContentInv, nspace # <<>> PROVE NamespaceAgrees
    BY DEF NamespaceAgrees
  <2>1. /\ taskmap \in Taskmaps /\ shell_rank \in 0 .. nnodes(taskmap) - 1
        /\ Len(Nodes) = nnodes(taskmap)
        /\ Told(taskmap, shell_rank, Nodes, nspace, 11 + Cardinality(DOMAIN taskmap))
    BY DEF ContentInv
  <2> QED
    BY <2>1, ToldAgrees DEF NamespaceAgrees
<1>2. Spec => []ContentInv
  BY ContentInvHolds
<1> QED
  BY <1>1, <1>2, PTL

-----------------------------------------------------------------------------
(* The names of the nodes.                                                 *)

\* Up to ten shells, whose indices have one digit, and room for a name and a digit.
FewNodes == MaxNodes <= 10 /\ HOST_NAME_MAX >= 3

LEMMA OneDigit ==
  ASSUME NEW d \in 0 .. 9
  PROVE  Digits(d) = <<d>>
<1> DEFINE fits == {k \in 1 .. d + 1 : d < 10 ^ k}
<1>1. 1 \in fits /\ \A k \in fits : 1 <= k
  <2>1. 10 ^ 1 = 10
    OBVIOUS
  <2>2. 1 \in 1 .. d + 1 /\ d < 10
    OBVIOUS
  <2> QED
    BY <2>1, <2>2
<1>2. Min(fits) = 1
  <2>1. \A x \in fits : x \in Int
    OBVIOUS
  <2> HIDE DEF fits
  <2>2. \E x \in fits : \A y \in fits : x <= y
    BY <1>1
  <2> DEFINE m == Min(fits)
  <2>3. m \in fits /\ \A y \in fits : m <= y
    BY <2>2 DEF Min
  <2> HIDE DEF m
  <2>4. m = 1
    BY <1>1, <2>1, <2>3
  <2> QED
    BY <2>4 DEF m
<1>3. Digits(d) = [i \in 1 .. 1 |-> (d \div 10 ^ (1 - i)) % 10]
  BY <1>2 DEF Digits
<1>4. (d \div 10 ^ (1 - 1)) % 10 = d
  <2>1. 10 ^ (1 - 1) = 1
    OBVIOUS
  <2>2. (d \div 1) % 10 = d
    OBVIOUS
  <2> QED
    BY <2>1, <2>2
<1>5. Digits(d) = [i \in 1 .. 1 |-> d]
  <2>1. \A i \in 1 .. 1 : i = 1
    OBVIOUS
  <2> QED
    BY <1>3, <1>4, <2>1
<1>6. [i \in 1 .. 1 |-> d] = <<d>>
  OBVIOUS
<1> QED
  BY <1>5, <1>6

\* A host's name and the digit behind it.
LEMMA WithDigit ==
  ASSUME FewNodes, NEW host \in Hosts, NEW d \in 0 .. 9
  PROVE  LET name == host \o Digits(d)
             cut  == SubSeq(name, 1, Min({Len(name), HOST_NAME_MAX}))
         IN  Len(cut) \in Nat /\ cut[Len(cut)] = d
<1> DEFINE T == {"a", "b"} \cup Nat
           name == host \o <<d>>
           n == Len(name)
<1>1. host \in Seq(T) /\ Len(host) \in 1 .. 2
  <2>1. "a" \in T /\ "b" \in T /\ 1 \in T
    OBVIOUS
  <2>2. host \in {<<"a">>, <<"a", 1>>, <<"b">>}
    BY DEF Hosts
  <2> HIDE DEF T
  <2>3. <<"a">> \in Seq(T) /\ Len(<<"a">>) = 1
    BY <2>1
  <2>4. <<"b">> \in Seq(T) /\ Len(<<"b">>) = 1
    BY <2>1
  <2>5. <<"a", 1>> \in Seq(T) /\ Len(<<"a", 1>>) = 2
    BY <2>1
  <2>6. 1 \in 1 .. 2 /\ 2 \in 1 .. 2
    OBVIOUS
  <2>7. CASE host = <<"a">>
    BY <2>3, <2>6, <2>7
  <2>8. CASE host = <<"b">>
    BY <2>4, <2>6, <2>8
  <2>9. CASE host = <<"a", 1>>
    BY <2>5, <2>6, <2>9
  <2> QED
    BY <2>2, <2>7, <2>8, <2>9
<1>2. <<d>> \in Seq(T) /\ Len(<<d>>) = 1 /\ <<d>>[1] = d
  OBVIOUS
<1> HIDE DEF T
<1>3. name \in Seq(T) /\ n = Len(host) + 1 /\ name[n] = d
  BY <1>1, <1>2
<1> HIDE DEF name, n
<1>4. n \in 2 .. 3 /\ HOST_NAME_MAX \in Nat /\ n <= HOST_NAME_MAX
  <2> DEFINE m == Len(host)
  <2>1. m \in 1 .. 2
    BY <1>1
  <2>2. n = m + 1
    BY <1>3
  <2> HIDE DEF m
  <2>3. HOST_NAME_MAX \in Nat /\ HOST_NAME_MAX >= 3
    BY HostNameMaxAssumption DEF FewNodes
  <2> QED
    BY <2>1, <2>2, <2>3
<1>5. Min({n, HOST_NAME_MAX}) = n
  <2> DEFINE m == Min({n, HOST_NAME_MAX})
  <2>1. \E x \in {n, HOST_NAME_MAX} : \A y \in {n, HOST_NAME_MAX} : x <= y
    BY <1>4
  <2>2. m \in {n, HOST_NAME_MAX} /\ \A y \in {n, HOST_NAME_MAX} : m <= y
    BY <2>1 DEF Min
  <2> HIDE DEF m
  <2>3. m = n
    BY <1>4, <2>2
  <2> QED
    BY <2>3 DEF m
<1>6. SubSeq(name, 1, n) = name
  BY <1>3, <1>4 DEF n
<1>7. Digits(d) = <<d>>
  BY OneDigit
<1> QED
  BY <1>3, <1>4, <1>5, <1>6, <1>7 DEF name, n

LEMMA NodesDiffer ==
  ASSUME FewNodes, NEW n \in 0 .. 10, NEW hl \in [1 .. n -> Hosts]
  PROVE  IsInjective(maps_node_create(hl, TRUE))
<1> DEFINE f == maps_node_create(hl, TRUE)
           cut(i) == LET name == hl[i] \o Digits(i - 1)
                     IN  SubSeq(name, 1, Min({Len(name), HOST_NAME_MAX}))
<1>1. CASE contains_duplicates(hl, TRUE)
  <2>1. DOMAIN f = 1 .. n /\ \A i \in 1 .. n : f[i] = cut(i)
    BY <1>1 DEF maps_node_create
  <2> HIDE DEF f
  <2>2. ASSUME NEW i \in 1 .. n
        PROVE  Len(f[i]) \in Nat /\ f[i][Len(f[i])] = i - 1
    <3> DEFINE d == i - 1
               host == hl[i]
    <3>1. d \in 0 .. 9 /\ host \in Hosts
      OBVIOUS
    <3>2. f[i] = LET name == host \o Digits(d)
                 IN  SubSeq(name, 1, Min({Len(name), HOST_NAME_MAX}))
      BY <2>1
    <3> HIDE DEF d, host
    <3>3. Len(f[i]) \in Nat /\ f[i][Len(f[i])] = d
      BY <3>1, <3>2, WithDigit
    <3> QED
      BY <3>3 DEF d
  <2>3. ASSUME NEW i \in 1 .. n, NEW j \in 1 .. n, f[i] = f[j] PROVE i = j
    <3>1. i - 1 = j - 1
      BY <2>2, <2>3
    <3> QED
      BY <3>1
  <2> QED
    BY <2>1, <2>3 DEF IsInjective, f
<1>2. CASE ~contains_duplicates(hl, TRUE)
  <2>1. f = hl
    <3>1. DOMAIN hl = 1 .. n
      OBVIOUS
    <3>2. f = [i \in 1 .. n |-> hl[i]]
      BY <1>2, <3>1 DEF maps_node_create
    <3> HIDE DEF f
    <3> QED
      BY <3>1, <3>2
  <2> HIDE DEF f
  <2>2. Len(hl) = n
    OBVIOUS
  <2>3. hl \in Surjection(1 .. n, Range(hl))
    <3>1. hl \in [1 .. n -> Range(hl)] /\ \A t \in Range(hl) : \E s \in 1 .. n : hl[s] = t
      BY DEF Range
    <3> QED
      BY <3>1 DEF Surjection
  <2>4. IsFiniteSet(1 .. n) /\ Cardinality(1 .. n) = n
    <3>1. n \in Int /\ 1 \in Int /\ n >= 0
      OBVIOUS
    <3> QED
      BY <3>1, FS_Interval
  <2>5. /\ IsFiniteSet(Range(hl)) /\ Cardinality(Range(hl)) <= n
        /\ Cardinality(Range(hl)) = n <=> hl \in Injection(1 .. n, Range(hl))
    BY <2>3, <2>4, FS_Surjection
  <2>6. Cardinality(Range(hl)) \in Nat
    BY <2>5, FS_CardinalityType
  <2>7. ~(Cardinality(Range(hl)) < n)
    BY <1>2, <2>2 DEF contains_duplicates
  <2>8. hl \in Injection(1 .. n, Range(hl))
    BY <2>5, <2>6, <2>7
  <2> QED
    BY <2>1, <2>8 DEF Injection, f
<1> QED
  BY <1>1, <1>2

\* The job does not change.
JobInv == copied \in BOOLEAN /\ nodelist \in [1 .. nnodes(taskmap) -> Hosts]

LEMMA JobInvHolds == Spec => []JobInv
<1>1. Init => JobInv
  BY InfovecAssumption DEF Init, JobInv
<1>2. JobInv /\ [Next]_vars => JobInv'
  <2> SUFFICES ASSUME JobInv, [Next]_vars PROVE JobInv'
    OBVIOUS
  <2>1. UNCHANGED job
    <3>1. CASE px_init
      BY <3>1 DEF px_init, Create, SetLpeers, SetNodeMap, SetProcMap, SetStr, SetBool, SetU32,
                  Operand, SetProcInfos, RegisterNspace, Destroy
    <3>2. CASE \E rank \in -2 .. MaxTasks : Lookup(rank)
      BY <3>2 DEF Lookup
    <3>3. CASE UNCHANGED vars
      BY <3>3 DEF vars, job
    <3> QED
      BY <3>1, <3>2, <3>3 DEF Next
  <2> QED
    BY <2>1 DEF JobInv, job
<1> QED
  BY <1>1, <1>2, PTL DEF Spec

\* For up to ten shells, maps_node_create gives every shell a node name of its own
\* whenever it can copy the node list, also where shells share a host whose name
\* ends in a digit.
THEOREM NodesAreDistinct == ASSUME FewNodes PROVE Spec => []NodesDistinct
<1>1. ContentInv /\ JobInv => NodesDistinct
  <2> SUFFICES ASSUME ContentInv, JobInv, nspace # <<>>, copied
               PROVE  IsInjective(Value(nspace, "PMIX_NODE_MAP"))
    BY DEF NodesDistinct
  <2> DEFINE total == Cardinality(DOMAIN taskmap)
             n == nnodes(taskmap)
  <2>1. /\ taskmap \in Taskmaps
        /\ Told(taskmap, shell_rank, Nodes, nspace, 11 + total)
    BY DEF ContentInv
  <2>2. total \in Nat
    BY <2>1, MapFacts, NamespaceAssumption
  <2>3. n \in 0 .. 10
    BY <2>1, MapFacts, NamespaceAssumption DEF FewNodes
  <2> HIDE DEF total
  <2>4. \A i \in 1 .. 11 : /\ Value(nspace, Keys[i]) = nspace[i].val
                           /\ Right(taskmap, shell_rank, Nodes, i, nspace[i].val)
    BY <2>1, <2>2, ToldHaving
  <2>5. Value(nspace, Keys[3]) = Nodes
    BY <2>4 DEF Right
  <2>6. nodelist \in [1 .. n -> Hosts] /\ copied = TRUE
    BY DEF JobInv
  <2> HIDE DEF n
  <2>7. IsInjective(maps_node_create(nodelist, TRUE))
    BY <2>3, <2>6, NodesDiffer
  <2> QED
    BY <2>5, <2>6, <2>7, KeyList DEF Nodes
<1>2. Spec => []ContentInv
  BY ContentInvHolds
<1>3. Spec => []JobInv
  BY JobInvHolds
<1> QED
  BY <1>1, <1>2, <1>3, PTL

=============================================================================
