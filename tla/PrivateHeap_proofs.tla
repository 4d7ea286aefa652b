-------------------------- MODULE PrivateHeap_proofs ------------------------
(***************************************************************************)
(* The private heap is safe for every heap size, header size, alignment,   *)
(* set of requests and number of allocations.                              *)
(***************************************************************************)
EXTENDS PrivateHeap, TLAPS

(* A well-formed list of blocks.                                           *)
HeapOK(h) ==
  /\ h \in [DOMAIN h -> private_block] /\ DOMAIN h \subseteq Offset
  /\ TiledList(h)

HeapInv == TypeOK /\ Tiled /\ Coalesced /\ OneOwner /\ FreedIsWiped

(* Rounding up to the alignment never loses a byte.                        *)
LEMMA RoundupFacts ==
  ASSUME NEW n \in Nat
  PROVE  Roundup(n) \in Nat /\ n <= Roundup(n)
BY SizesAssumption DEF Roundup

(* The successor of a block is a block.                                    *)
LEMMA NextIsBlock ==
  ASSUME NEW h, HeapOK(h), NEW b \in DOMAIN h, h[b].next # Null
  PROVE  h[b].next \in DOMAIN h
<1>1. End(h, b) \in Int /\ HeapSz \in Int
  BY SizesAssumption DEF HeapOK, End, Offset, private_block
<1> QED BY <1>1 DEF HeapOK, TiledList, Placed

(* A block that takes in its successor leaves a well-formed list.          *)
LEMMA AbsorbTiled ==
  ASSUME NEW h, HeapOK(h), NEW b \in DOMAIN h, h[b].next # Null
  PROVE  /\ HeapOK(Absorb(h, b))
         /\ h[b].next \in DOMAIN h /\ h[b].next # b
         /\ DOMAIN Absorb(h, b) = DOMAIN h \ {h[b].next}
         /\ Absorb(h, b)[b].is_used = h[b].is_used
         /\ Absorb(h, b)[b].next = h[h[b].next].next
         /\ \A c \in DOMAIN h \ {b, h[b].next} :
              /\ Absorb(h, b)[c] = h[c]
              /\ h[c].next # h[b].next
<1> DEFINE n == h[b].next
           g == Absorb(h, b)
<1>1. /\ b \in Nat /\ h[b].size \in Nat /\ Header \in Nat /\ Header > 0 /\ HeapSz \in Nat
      /\ n = b + Header + h[b].size
      /\ n \in DOMAIN h /\ n # b /\ n \in Nat /\ b < n
  BY SizesAssumption, PointersAssumption DEF HeapOK, TiledList, Placed, End, private_block, Offset
<1>2. /\ h[n].size \in Nat
      /\ n + Header + h[n].size <= HeapSz
      /\ h[n].next \in Offset \cup {Null}
  BY <1>1 DEF HeapOK, TiledList, Placed, End, private_block
<1>3. /\ DOMAIN g = DOMAIN h \ {n}
      /\ \A c \in DOMAIN h \ {b, n} : g[c] = h[c]
      /\ g[b] = [next |-> h[n].next, size |-> h[b].size + Header + h[n].size,
                 is_used |-> h[b].is_used]
  BY Zenon, <1>1 DEF HeapOK, private_block, Absorb
<1>4. \A c \in DOMAIN h \ {b, n} :
        /\ c \in Nat /\ h[c].size \in Nat /\ h[c] \in private_block
        /\ c < b => c + Header + h[c].size <= b
        /\ b < c => n <= c
        /\ c < b \/ b < c
        /\ h[c].next # n
        /\ c + Header + h[c].size # n
        /\ n < c => n + Header + h[n].size <= c
  <2> SUFFICES ASSUME NEW c \in DOMAIN h \ {b, n} PROVE
        /\ c \in Nat /\ h[c].size \in Nat /\ h[c] \in private_block
        /\ c < b => c + Header + h[c].size <= b
        /\ b < c => n <= c
        /\ c < b \/ b < c
        /\ h[c].next # n
        /\ c + Header + h[c].size # n
        /\ n < c => n + Header + h[n].size <= c
    OBVIOUS
  <2>1. c \in Nat /\ h[c].size \in Nat /\ h[c] \in private_block
    BY DEF HeapOK, private_block, Offset
  <2>2. /\ c < b => c + Header + h[c].size <= b
        /\ b < c => n <= c
        /\ n < c => n + Header + h[n].size <= c
    BY <1>1, <1>2, <2>1 DEF HeapOK, TiledList, Placed, End
  <2>3. c < b \/ b < c
    BY <1>1, <2>1
  <2>4. c + Header + h[c].size # n
    BY <1>1, <2>1, <2>2, <2>3
  <2>5. h[c].next # n
    BY <1>1, <2>4, PointersAssumption DEF HeapOK, TiledList, Placed, End
  <2> QED BY <2>1, <2>2, <2>3, <2>4, <2>5
<1>5. g \in [DOMAIN g -> private_block] /\ DOMAIN g \subseteq Offset
  <2>1. g[b] \in private_block
    BY <1>1, <1>2, <1>3 DEF HeapOK, private_block
  <2>2. \A c \in DOMAIN g : g[c] \in private_block
    BY <1>3, <1>4, <2>1
  <2> QED BY <1>3, <2>2 DEF Absorb, HeapOK
<1>6. TiledList(g)
  <2>1. 0 \in DOMAIN g
    BY <1>1, <1>3 DEF HeapOK, TiledList
  <2>2. End(g, b) = n + Header + h[n].size
    BY <1>1, <1>2, <1>3 DEF End
  <2>3. Placed(g, b)
    <3>1. End(g, b) < HeapSz => End(g, b) \in DOMAIN h /\ End(g, b) # n
      BY <1>1, <1>2, <2>2 DEF HeapOK, TiledList, Placed, End
    <3>2. g[b].next = IF End(g, b) = HeapSz THEN Null ELSE End(g, b)
      BY <1>1, <1>3, <2>2 DEF HeapOK, TiledList, Placed, End
    <3>3. \A c \in DOMAIN g : b < c => End(g, b) <= c
      BY <1>1, <1>2, <1>3, <1>4, <2>2
    <3> QED BY <1>2, <1>3, <2>2, <3>1, <3>2, <3>3 DEF Placed
  <2>4. ASSUME NEW c \in DOMAIN g, c # b
        PROVE  Placed(g, c)
    <3>1. End(g, c) = End(h, c) /\ g[c] = h[c] /\ c \in DOMAIN h \ {b, n}
      BY <1>3, <2>4 DEF End
    <3>2. End(h, c) # n
      BY <1>4, <3>1 DEF End
    <3> QED BY <1>3, <3>1, <3>2 DEF HeapOK, TiledList, Placed
  <2> QED BY <2>1, <2>3, <2>4 DEF TiledList
<1> QED BY <1>1, <1>3, <1>4, <1>5, <1>6 DEF HeapOK

(* Taking n bytes from a block that has them leaves a well-formed list:    *)
(* the block is in use, the rest of it, if split off, is free.             *)
LEMMA TakenTiled ==
  ASSUME HeapOK(heap), NEW b \in DOMAIN heap, NEW n \in Nat, n <= heap[b].size
  PROVE  /\ HeapOK(Taken(b, n))
         /\ b \in DOMAIN Taken(b, n) /\ DOMAIN heap \subseteq DOMAIN Taken(b, n)
         /\ Taken(b, n)[b].is_used
         /\ Taken(b, n)[b].size >= n
         /\ \A c \in DOMAIN heap \ {b} : Taken(b, n)[c] = heap[c]
         /\ \A c \in DOMAIN Taken(b, n) \ DOMAIN heap :
              /\ ~Taken(b, n)[c].is_used
              /\ Taken(b, n)[b].next = c
              /\ Taken(b, n)[c].next = heap[b].next
         /\ DOMAIN Taken(b, n) = DOMAIN heap => Taken(b, n)[b].next = heap[b].next
<1> DEFINE g == Taken(b, n)
           r == b + Header + n
<1>1. /\ b \in Nat /\ heap[b].size \in Nat /\ Header \in Nat /\ Header > 0
      /\ HeapSz \in Nat /\ MinSplit \in Nat /\ r \in Nat
      /\ heap[b].next \in Offset \cup {Null}
      /\ b + Header + heap[b].size <= HeapSz
      /\ heap \in [DOMAIN heap -> private_block]
  BY SizesAssumption DEF HeapOK, TiledList, Placed, End, private_block, Offset
<1>2. \A c \in DOMAIN heap \ {b} :
        /\ c \in Nat /\ heap[c].size \in Nat /\ heap[c] \in private_block
        /\ c < b => c + Header + heap[c].size <= b
        /\ b < c => b + Header + heap[b].size <= c
        /\ c < b \/ b < c
  BY <1>1 DEF HeapOK, TiledList, Placed, End, private_block, Offset
<1>3. CASE heap[b].size >= n + Header + MinSplit
  <2>1. /\ r \notin DOMAIN heap /\ r # b /\ r \in Offset
        /\ r + Header + (heap[b].size - n - Header) = b + Header + heap[b].size
        /\ heap[b].size - n - Header \in Nat
    BY <1>1, <1>2, <1>3 DEF Offset
  <2>2. /\ DOMAIN g = DOMAIN heap \cup {r}
        /\ g[b] = [next |-> r, size |-> n, is_used |-> TRUE]
        /\ g[r] = [next |-> heap[b].next, size |-> heap[b].size - n - Header, is_used |-> FALSE]
        /\ \A c \in DOMAIN heap \ {b} : g[c] = heap[c]
    BY <1>3, <2>1 DEF Taken
  <2>3. g \in [DOMAIN g -> private_block] /\ DOMAIN g \subseteq Offset
    <3>1. g[b] \in private_block /\ g[r] \in private_block
      BY <1>1, <2>1, <2>2 DEF private_block
    <3>2. \A c \in DOMAIN g : g[c] \in private_block
      BY Zenon, <1>2, <2>2, <3>1
    <3>3. g = [c \in DOMAIN g |-> g[c]]
      BY <1>3 DEF Taken
    <3> QED BY <2>1, <2>2, <3>2, <3>3 DEF HeapOK
  <2>4. End(g, b) = r /\ End(g, r) = End(heap, b) /\ End(heap, b) = b + Header + heap[b].size
    BY <1>1, <2>1, <2>2 DEF End
  <2>5. Placed(g, b)
    <3>1. /\ r < HeapSz /\ r \in DOMAIN g
          /\ g[b].next = r
          /\ \A c \in DOMAIN g : b < c => r <= c
      BY <1>1, <1>2, <2>1, <2>2 DEF Offset
    <3> QED BY <1>1, <2>4, <3>1 DEF Placed
  <2>6. Placed(g, r)
    <3>1. \A c \in DOMAIN g : r < c => End(heap, b) <= c
      BY <1>1, <1>2, <2>1, <2>2, <2>4
    <3>2. Placed(heap, b)
      BY DEF HeapOK, TiledList
    <3> QED BY <2>2, <2>4, <3>1, <3>2 DEF Placed
  <2>7. ASSUME NEW c \in DOMAIN heap \ {b}
        PROVE  Placed(g, c)
    <3>1. End(g, c) = End(heap, c) /\ g[c] = heap[c]
      BY <2>2 DEF End
    <3>2. c < r => End(heap, c) <= r
      BY <1>1, <1>2, <2>1 DEF End
    <3> QED BY <2>2, <3>1, <3>2 DEF HeapOK, TiledList, Placed
  <2>8. TiledList(g)
    <3>1. 0 \in DOMAIN g
      BY <2>2 DEF HeapOK, TiledList
    <3> QED BY <2>2, <2>5, <2>6, <2>7, <3>1 DEF TiledList
  <2> QED BY <1>1, <2>1, <2>2, <2>3, <2>8 DEF HeapOK
<1>4. CASE ~(heap[b].size >= n + Header + MinSplit)
  <2>1. /\ g = [heap EXCEPT ![b].is_used = TRUE]
        /\ DOMAIN g = DOMAIN heap
        /\ g[b] = [next |-> heap[b].next, size |-> heap[b].size, is_used |-> TRUE]
        /\ \A c \in DOMAIN heap \ {b} : g[c] = heap[c]
    BY Zenon, <1>1, <1>4 DEF Taken, private_block
  <2>2. g \in [DOMAIN g -> private_block]
    BY Zenon, <1>1, <2>1 DEF private_block
  <2>3. \A c \in DOMAIN g : End(g, c) = End(heap, c) /\ g[c].next = heap[c].next
    <3> SUFFICES ASSUME NEW c \in DOMAIN heap
                 PROVE  End(g, c) = End(heap, c) /\ g[c].next = heap[c].next
      BY Zenon, <2>1
    <3>1. CASE c = b
      BY <2>1, <3>1 DEF End
    <3>2. CASE c # b
      BY <2>1, <3>2 DEF End
    <3> QED BY <3>1, <3>2
  <2>4. TiledList(g)
    BY Zenon, <2>1, <2>3 DEF HeapOK, TiledList, Placed
  <2> QED BY <1>1, <2>1, <2>2, <2>4 DEF HeapOK
<1> QED BY <1>3, <1>4

(* The invariant survives sqlcipher_malloc on the heap.                    *)
LEMMA MallocInv ==
  ASSUME HeapInv, NEW p \in Ptr, NEW n \in Request, sqlcipher_malloc(p, n)
  PROVE  HeapInv'
<1> DEFINE m == Roundup(n)
<1>1. PICK b \in Fits(m) : /\ heap' = Taken(b, m)
                           /\ ptr' = [ptr EXCEPT ![p] = b]
                           /\ secret' = secret \cup Data(b, n)
                           /\ private_heap_used' = private_heap_used + heap'[b].size
  BY Zenon DEF sqlcipher_malloc
<1>2. m \in Nat /\ n \in Nat /\ n <= m
  BY RoundupFacts, SizesAssumption
<1>3. b \in DOMAIN heap /\ ~heap[b].is_used /\ m <= heap[b].size /\ HeapOK(heap)
  <2>1. heap[b].size \in Nat
    BY <1>1 DEF Fits, HeapInv, TypeOK, private_block
  <2> QED BY <1>1, <1>2, <2>1 DEF Fits, HeapInv, TypeOK, Tiled, HeapOK
<1>4. /\ HeapOK(heap')
      /\ b \in DOMAIN heap' /\ DOMAIN heap \subseteq DOMAIN heap'
      /\ heap'[b].is_used
      /\ heap'[b].size >= m
      /\ \A c \in DOMAIN heap \ {b} : heap'[c] = heap[c]
      /\ \A c \in DOMAIN heap' \ DOMAIN heap :
           /\ ~heap'[c].is_used
           /\ heap'[b].next = c
           /\ heap'[c].next = heap[b].next
      /\ DOMAIN heap' = DOMAIN heap => heap'[b].next = heap[b].next
  BY <1>1, <1>2, <1>3, TakenTiled
<1>5. heap'[b].size \in Nat /\ b \in Offset /\ b \in Nat
  BY <1>3, <1>4 DEF HeapOK, private_block, Offset
<1>6. TypeOK'
  <2>1. private_heap_used' \in Int
    BY <1>1, <1>5 DEF HeapInv, TypeOK
  <2>2. ptr' \in [Ptr -> Offset \cup {Null, Outside}]
    BY <1>1, <1>5 DEF HeapInv, TypeOK
  <2>3. secret' \subseteq Offset
    BY <1>1 DEF HeapInv, TypeOK, Data
  <2> QED BY <1>4, <2>1, <2>2, <2>3 DEF TypeOK, HeapOK
<1>7. Tiled'
  BY <1>4 DEF HeapOK, Tiled
<1>8. Coalesced'
  <2> SUFFICES ASSUME NEW c \in DOMAIN heap', ~heap'[c].is_used, heap'[c].next # Null
               PROVE  heap'[heap'[c].next].is_used
    BY DEF Coalesced
  <2>1. heap'[c].next \in DOMAIN heap'
    BY <1>4, NextIsBlock
  <2>2. CASE c \in DOMAIN heap
    <3>1. heap'[c] = heap[c] /\ c # b
      BY <1>4, <2>2
    <3>2. heap[heap[c].next].is_used /\ heap[c].next \in DOMAIN heap
      BY <1>3, <2>2, <3>1, NextIsBlock DEF HeapInv, Coalesced
    <3> QED BY <1>3, <1>4, <3>1, <3>2
  <2>3. CASE c \notin DOMAIN heap
    <3>1. heap'[c].next = heap[b].next
      BY <1>4, <2>3
    <3>2. heap[heap[b].next].is_used /\ heap[b].next \in DOMAIN heap
      BY <1>3, <3>1, NextIsBlock DEF HeapInv, Coalesced
    <3> QED BY <1>3, <1>4, <3>1, <3>2
  <2> QED BY <2>2, <2>3
<1>9. OneOwner'
  <2>1. \A q \in Ptr : ptr[q] # b
    BY <1>3, <1>5 DEF HeapInv, OneOwner
  <2>2. \A q \in Ptr : ptr'[q] = IF q = p THEN b ELSE ptr[q]
    BY <1>1 DEF HeapInv, TypeOK
  <2>3. \A q \in Ptr : ptr'[q] \in Offset => ptr'[q] \in DOMAIN heap' /\ heap'[ptr'[q]].is_used
    BY <1>4, <2>1, <2>2 DEF HeapInv, OneOwner
  <2>4. \A q, o \in Ptr : ptr'[q] \in Offset /\ ptr'[q] = ptr'[o] => q = o
    BY <2>1, <2>2 DEF HeapInv, OneOwner
  <2>5. \A c \in DOMAIN heap' : heap'[c].is_used => \E q \in Ptr : ptr'[q] = c
    <3> SUFFICES ASSUME NEW c \in DOMAIN heap', heap'[c].is_used
                 PROVE  \E q \in Ptr : ptr'[q] = c
      OBVIOUS
    <3>1. CASE c = b
      BY <2>2, <3>1
    <3>2. CASE c # b
      <4>1. c \in DOMAIN heap /\ heap[c].is_used
        BY <1>4, <3>2
      <4>2. PICK q \in Ptr : ptr[q] = c
        BY <4>1 DEF HeapInv, OneOwner
      <4>3. q # p
        BY <4>1, <4>2, PointersAssumption DEF sqlcipher_malloc, HeapInv, TypeOK, Offset
      <4> QED BY <2>2, <4>2, <4>3
    <3> QED BY <3>1, <3>2
  <2> QED BY <2>3, <2>4, <2>5 DEF OneOwner
<1>10. FreedIsWiped'
  <2> SUFFICES ASSUME NEW w \in secret'
               PROVE  \E c \in DOMAIN heap' : heap'[c].is_used /\ w \in Data(c, heap'[c].size)
    BY DEF FreedIsWiped, Data
  <2>1. CASE w \in Data(b, n)
    BY <1>2, <1>4, <1>5, <2>1, SizesAssumption DEF Data, Offset
  <2>2. CASE w \in secret
    <3>1. PICK c \in DOMAIN heap : heap[c].is_used /\ w \in Data(c, heap[c].size)
      BY <2>2 DEF HeapInv, FreedIsWiped
    <3> QED BY <1>3, <1>4, <3>1
  <2> QED BY <1>1, <2>1, <2>2
<1> QED BY <1>6, <1>7, <1>8, <1>9, <1>10 DEF HeapInv
(* In the list h every free block but f is followed by one in use, and f   *)
(* is free.                                                                *)
AlmostCoalesced(h, f) ==
  /\ HeapOK(h) /\ f \in DOMAIN h /\ ~h[f].is_used
  /\ \A c \in DOMAIN h \ {f} : ~h[c].is_used /\ h[c].next # Null => h[h[c].next].is_used

(* The list g keeps the blocks in use of h, and uses no others.            *)
SameUsed(h, g) ==
  /\ DOMAIN g \subseteq DOMAIN h
  /\ \A c \in DOMAIN h : h[c].is_used => c \in DOMAIN g /\ g[c] = h[c]
  /\ \A c \in DOMAIN g : g[c].is_used => h[c].is_used

(* The list with the block b marked free, and not yet merged.              *)
MarkedFree(b) == [heap EXCEPT ![b].is_used = FALSE]

(* Marking a block as free changes nothing else.                           *)
LEMMA MarkFree ==
  ASSUME HeapOK(heap), NEW b \in DOMAIN heap,
         NEW h1, h1 = MarkedFree(b)
  PROVE  /\ HeapOK(h1) /\ DOMAIN h1 = DOMAIN heap
         /\ \A c \in DOMAIN heap : /\ h1[c].next = heap[c].next
                                   /\ c # b => h1[c] = heap[c]
         /\ ~h1[b].is_used
<1>1. /\ DOMAIN h1 = DOMAIN heap
      /\ h1 \in [DOMAIN heap -> private_block]
      /\ h1[b] = [next |-> heap[b].next, size |-> heap[b].size, is_used |-> FALSE]
      /\ \A c \in DOMAIN heap \ {b} : h1[c] = heap[c]
  BY Zenon DEF HeapOK, private_block, MarkedFree
<1>2. ASSUME NEW c \in DOMAIN heap
      PROVE  End(h1, c) = End(heap, c) /\ h1[c].next = heap[c].next
  <2>1. CASE c = b
    BY <1>1, <2>1 DEF End
  <2>2. CASE c # b
    BY <1>1, <2>2 DEF End
  <2> QED BY <2>1, <2>2
<1>3. TiledList(h1)
  <2>1. ASSUME NEW c \in DOMAIN heap PROVE Placed(h1, c)
    <3>1. Placed(heap, c)
      BY DEF HeapOK, TiledList
    <3> QED BY <1>1, <1>2, <3>1 DEF Placed
  <2> QED BY <1>1, <2>1 DEF HeapOK, TiledList
<1> QED BY <1>1, <1>2, <1>3 DEF HeapOK

(* Merging the block before b with b, once b is free, leaves only the      *)
(* merged block to be merged with what follows it.                         *)
LEMMA MergeBackward ==
  ASSUME HeapOK(heap), Coalesced, NEW b \in DOMAIN heap, heap[b].is_used,
         NEW f \in DOMAIN heap, ~heap[f].is_used, heap[f].next = b,
         NEW h1, h1 = MarkedFree(b)
  PROVE  AlmostCoalesced(Absorb(h1, f), f) /\ SameUsed(h1, Absorb(h1, f))
<1>0. ASSUME NEW h, HeapOK(h), f \in DOMAIN h, h[f].next = b
      PROVE  /\ HeapOK(Absorb(h, f))
             /\ DOMAIN Absorb(h, f) = DOMAIN h \ {b}
             /\ Absorb(h, f)[f].is_used = h[f].is_used
             /\ \A c \in DOMAIN h \ {f, b} : Absorb(h, f)[c] = h[c] /\ h[c].next # b
  <2>1. h[f].next # Null
    BY <1>0, PointersAssumption DEF HeapOK, Offset
  <2>2. /\ HeapOK(Absorb(h, f))
        /\ DOMAIN Absorb(h, f) = DOMAIN h \ {h[f].next}
        /\ Absorb(h, f)[f].is_used = h[f].is_used
        /\ \A c \in DOMAIN h \ {f, h[f].next} :
             Absorb(h, f)[c] = h[c] /\ h[c].next # h[f].next
    BY ONLY HeapOK(h), f \in DOMAIN h, h[f].next # Null, AbsorbTiled
  <2> QED BY <1>0, <2>2
<1> DEFINE h2 == Absorb(h1, f)
<1>1. /\ HeapOK(h1) /\ DOMAIN h1 = DOMAIN heap
      /\ \A c \in DOMAIN heap : /\ h1[c].next = heap[c].next
                                /\ c # b => h1[c] = heap[c]
      /\ ~h1[b].is_used
  BY MarkFree
<1>2. f # b /\ h1[f].next = b /\ ~h1[f].is_used
  BY <1>1
<1>3. /\ HeapOK(h2)
      /\ DOMAIN h2 = DOMAIN heap \ {b}
      /\ h2[f].is_used = h1[f].is_used
      /\ \A c \in DOMAIN heap \ {f, b} : h2[c] = heap[c] /\ heap[c].next # b
  <2>1. /\ HeapOK(h2)
        /\ DOMAIN h2 = DOMAIN h1 \ {b}
        /\ h2[f].is_used = h1[f].is_used
        /\ \A c \in DOMAIN h1 \ {f, b} : h2[c] = h1[c] /\ h1[c].next # b
    BY <1>0, <1>1, <1>2
  <2>2. ASSUME NEW c \in DOMAIN heap \ {f, b} PROVE h2[c] = heap[c] /\ heap[c].next # b
    BY <1>1, <1>2, <2>1
  <2> QED BY <1>1, <1>2, <2>1, <2>2
<1>4. ASSUME NEW c \in DOMAIN h2 \ {f}, ~h2[c].is_used, h2[c].next # Null
      PROVE  h2[h2[c].next].is_used
  <2>1. h2[c] = heap[c] /\ heap[c].next # b /\ c \in DOMAIN heap
    BY <1>3, <1>4
  <2>2. heap[heap[c].next].is_used /\ heap[c].next \in DOMAIN heap
    BY <1>4, <2>1, NextIsBlock DEF Coalesced
  <2> QED BY <1>3, <2>1, <2>2
<1>5. SameUsed(h1, h2)
  <2>1. ASSUME NEW c \in DOMAIN h1, h1[c].is_used
        PROVE  c \in DOMAIN h2 /\ h2[c] = h1[c]
    BY <1>1, <1>2, <1>3, <2>1
  <2>2. ASSUME NEW c \in DOMAIN h2, h2[c].is_used PROVE h1[c].is_used
    BY <1>1, <1>2, <1>3, <2>2
  <2> QED BY <1>1, <1>3, <2>1, <2>2 DEF SameUsed
<1>6. AlmostCoalesced(h2, f)
  BY Zenon, <1>2, <1>3, <1>4 DEF AlmostCoalesced
<1> QED BY <1>5, <1>6

(* Merging the remaining block with a free one after it leaves no two      *)
(* neighbouring free blocks.                                               *)
LEMMA MergeForward ==
  ASSUME NEW h, NEW f, AlmostCoalesced(h, f)
  PROVE  LET g == IF h[f].next # Null /\ ~h[h[f].next].is_used THEN Absorb(h, f) ELSE h
         IN  /\ HeapOK(g) /\ SameUsed(h, g)
             /\ \A c \in DOMAIN g : ~g[c].is_used /\ g[c].next # Null => g[g[c].next].is_used
<1> DEFINE n == h[f].next
<1>1. CASE ~(n # Null /\ ~h[n].is_used)
  BY <1>1 DEF AlmostCoalesced, SameUsed
<1>2. CASE n # Null /\ ~h[n].is_used
  <2> DEFINE g == Absorb(h, f)
  <2>1. /\ HeapOK(g)
        /\ n \in DOMAIN h /\ n # f
        /\ DOMAIN g = DOMAIN h \ {n}
        /\ g[f].is_used = h[f].is_used
        /\ g[f].next = h[n].next
        /\ \A c \in DOMAIN h \ {f, n} : g[c] = h[c]
    BY <1>2, AbsorbTiled DEF AlmostCoalesced
  <2>2. SameUsed(h, g)
    BY <1>2, <2>1 DEF AlmostCoalesced, SameUsed
  <2>3. ASSUME NEW c \in DOMAIN g, ~g[c].is_used, g[c].next # Null
        PROVE  g[g[c].next].is_used
    <3> DEFINE d == IF c = f THEN n ELSE c
    <3>1. d \in DOMAIN h \ {f} /\ ~h[d].is_used /\ h[d].next = g[c].next
      BY <1>2, <2>1, <2>3
    <3>2. h[h[d].next].is_used /\ h[d].next \in DOMAIN h
      BY <2>3, <3>1, NextIsBlock DEF AlmostCoalesced
    <3> QED BY <1>2, <2>1, <3>1, <3>2 DEF AlmostCoalesced
  <2> QED BY <1>2, <2>1, <2>2, <2>3
<1> QED BY <1>1, <1>2

(* The list after a block is freed.                                        *)
LEMMA FreedFacts ==
  ASSUME HeapOK(heap), Coalesced, NEW b \in DOMAIN heap, heap[b].is_used
  PROVE  /\ HeapOK(Freed(b))
         /\ \A c \in DOMAIN Freed(b) :
              ~Freed(b)[c].is_used /\ Freed(b)[c].next # Null =>
                Freed(b)[Freed(b)[c].next].is_used
         /\ DOMAIN Freed(b) \subseteq DOMAIN heap
         /\ \A c \in DOMAIN heap \ {b} :
              heap[c].is_used => c \in DOMAIN Freed(b) /\ Freed(b)[c] = heap[c]
         /\ \A c \in DOMAIN Freed(b) : Freed(b)[c].is_used => c # b /\ heap[c].is_used
<1>0. PICK h1 : h1 = MarkedFree(b)
  OBVIOUS
<1>1. /\ HeapOK(h1) /\ DOMAIN h1 = DOMAIN heap
      /\ \A c \in DOMAIN heap : /\ h1[c].next = heap[c].next
                                /\ c # b => h1[c] = heap[c]
      /\ ~h1[b].is_used
  BY <1>0, MarkFree
<1> DEFINE prev == {c \in DOMAIN heap : heap[c].next = b /\ ~heap[c].is_used}
<1>2. PICK f : f = IF prev = {} THEN b ELSE CHOOSE c \in prev : TRUE
  OBVIOUS
<1>3. PICK h2 : h2 = IF prev = {} THEN h1 ELSE Absorb(h1, f)
  OBVIOUS
<1>4. Freed(b) = IF h2[f].next # Null /\ ~h2[h2[f].next].is_used THEN Absorb(h2, f) ELSE h2
  BY <1>0, <1>2, <1>3 DEF Freed, MarkedFree
<1>5. AlmostCoalesced(h2, f) /\ SameUsed(h1, h2)
  <2>1. CASE prev = {}
    <3>1. f = b /\ h2 = h1
      BY <1>2, <1>3, <2>1
    <3>2. ASSUME NEW c \in DOMAIN h1 \ {b}, ~h1[c].is_used, h1[c].next # Null
          PROVE  h1[h1[c].next].is_used
      <4>1. h1[c] = heap[c] /\ c \in DOMAIN heap /\ heap[c].next # b
        BY <1>1, <2>1, <3>2
      <4>2. heap[heap[c].next].is_used /\ heap[c].next \in DOMAIN heap
        BY <3>2, <4>1, NextIsBlock DEF Coalesced
      <4> QED BY <1>1, <4>1, <4>2
    <3> QED BY <1>1, <3>1, <3>2 DEF AlmostCoalesced, SameUsed
  <2>2. CASE prev # {}
    <3>1. f \in prev
      BY Zenon, <1>2, <2>2
    <3> QED BY <1>0, <1>3, <2>2, <3>1, MergeBackward
  <2> QED BY <2>1, <2>2
<1>6. /\ HeapOK(Freed(b)) /\ SameUsed(h2, Freed(b))
      /\ \A c \in DOMAIN Freed(b) :
           ~Freed(b)[c].is_used /\ Freed(b)[c].next # Null =>
             Freed(b)[Freed(b)[c].next].is_used
  BY <1>4, <1>5, MergeForward
<1>7. SameUsed(h1, Freed(b))
  BY <1>5, <1>6 DEF SameUsed
<1> QED BY <1>1, <1>6, <1>7 DEF SameUsed

(* The invariant survives sqlcipher_free of a block of the heap.           *)
LEMMA FreeInv ==
  ASSUME HeapInv, NEW p \in Ptr, sqlcipher_free(p)
  PROVE  HeapInv'
<1>0. PICK b : b = ptr[p]
  OBVIOUS
<1>1. /\ b \in DOMAIN heap /\ b \in Offset
      /\ heap' = Freed(b)
      /\ secret' = secret \ Data(b, heap[b].size)
      /\ private_heap_used' = private_heap_used - heap[b].size
      /\ ptr' = [ptr EXCEPT ![p] = Null]
  BY <1>0 DEF sqlcipher_free, HeapInv, TypeOK
<1>2. HeapOK(heap) /\ Coalesced /\ heap[b].is_used
  BY <1>0, <1>1 DEF HeapInv, TypeOK, Tiled, HeapOK, OneOwner
<1>3. /\ HeapOK(heap')
      /\ \A c \in DOMAIN heap' : ~heap'[c].is_used /\ heap'[c].next # Null =>
                                   heap'[heap'[c].next].is_used
      /\ DOMAIN heap' \subseteq DOMAIN heap
      /\ \A c \in DOMAIN heap \ {b} :
           heap[c].is_used => c \in DOMAIN heap' /\ heap'[c] = heap[c]
      /\ \A c \in DOMAIN heap' : heap'[c].is_used => c # b /\ heap[c].is_used
  BY <1>1, <1>2, FreedFacts
<1>4. \A q \in Ptr : ptr'[q] = IF q = p THEN Null ELSE ptr[q]
  BY <1>1 DEF HeapInv, TypeOK
<1>5. \A q \in Ptr \ {p} : ptr[q] # b
  BY <1>0, <1>1 DEF HeapInv, OneOwner
<1>6. TypeOK'
  <2>1. heap[b].size \in Nat
    BY <1>1, <1>2 DEF HeapOK, private_block
  <2>2. private_heap_used' \in Int
    BY <1>1, <2>1 DEF HeapInv, TypeOK
  <2>3. ptr' \in [Ptr -> Offset \cup {Null, Outside}]
    BY <1>1 DEF HeapInv, TypeOK
  <2>4. secret' \subseteq Offset
    BY <1>1 DEF HeapInv, TypeOK
  <2> QED BY <1>3, <2>2, <2>3, <2>4 DEF TypeOK, HeapOK
<1>7. Tiled' /\ Coalesced'
  BY <1>3 DEF HeapOK, Tiled, Coalesced
<1>8. OneOwner'
  <2>1. Null \notin Offset
    BY PointersAssumption DEF Offset
  <2>2. \A q \in Ptr : ptr'[q] \in Offset => ptr'[q] \in DOMAIN heap' /\ heap'[ptr'[q]].is_used
    BY <1>3, <1>4, <1>5, <2>1 DEF HeapInv, OneOwner
  <2>3. \A q, o \in Ptr : ptr'[q] \in Offset /\ ptr'[q] = ptr'[o] => q = o
    BY <1>4, <2>1 DEF HeapInv, OneOwner
  <2>4. \A c \in DOMAIN heap' : heap'[c].is_used => \E q \in Ptr : ptr'[q] = c
    <3> SUFFICES ASSUME NEW c \in DOMAIN heap', heap'[c].is_used
                 PROVE  \E q \in Ptr : ptr'[q] = c
      OBVIOUS
    <3>1. c # b /\ c \in DOMAIN heap /\ heap[c].is_used
      BY <1>3
    <3>2. PICK q \in Ptr : ptr[q] = c
      BY <3>1 DEF HeapInv, OneOwner
    <3> QED BY <1>0, <1>4, <3>1, <3>2
  <2> QED BY <2>2, <2>3, <2>4 DEF OneOwner
<1>9. FreedIsWiped'
  <2> SUFFICES ASSUME NEW w \in secret'
               PROVE  \E c \in DOMAIN heap' : heap'[c].is_used /\ w \in Data(c, heap'[c].size)
    BY DEF FreedIsWiped, Data
  <2>1. PICK c \in DOMAIN heap : heap[c].is_used /\ w \in Data(c, heap[c].size)
    BY <1>1 DEF HeapInv, FreedIsWiped
  <2>2. c # b
    BY <1>1, <2>1
  <2> QED BY <1>3, <2>1, <2>2
<1> QED BY <1>6, <1>7, <1>8, <1>9 DEF HeapInv

(* A step that moves only a pointer that is not into the heap.             *)
OutsideStep(p, v) ==
  /\ ptr[p] \notin Offset
  /\ ptr' = [ptr EXCEPT ![p] = v]
  /\ UNCHANGED <<heap, secret, private_heap_used>>

(* The invariant survives the system allocator's malloc and free.          *)
LEMMA OutsideInv ==
  ASSUME HeapInv, NEW p \in Ptr, NEW v \in {Null, Outside}, OutsideStep(p, v)
  PROVE  HeapInv'
<1>1. Null \notin Offset /\ Outside \notin Offset
  BY PointersAssumption DEF Offset
<1>2. \A q \in Ptr : IF q = p THEN ptr'[q] = v ELSE ptr'[q] = ptr[q]
  BY DEF HeapInv, TypeOK, OutsideStep
<1>3. heap' = heap /\ secret' = secret /\ private_heap_used' = private_heap_used
  BY DEF OutsideStep
<1>4. TypeOK'
  BY <1>3 DEF HeapInv, TypeOK, OutsideStep
<1>5. OneOwner'
  <2>1. ptr[p] \notin Offset /\ \A c \in DOMAIN heap : c \in Offset
    BY DEF HeapInv, TypeOK, OutsideStep
  <2> QED BY <1>1, <1>2, <1>3, <2>1 DEF HeapInv, OneOwner
<1>6. Tiled' /\ Coalesced' /\ FreedIsWiped'
  BY <1>3 DEF HeapInv, Tiled, Coalesced, FreedIsWiped, TiledList, Placed, End, Data
<1> QED BY <1>4, <1>5, <1>6 DEF HeapInv

-----------------------------------------------------------------------------
(* The invariant holds in every reachable state of the heap, whatever the  *)
(* order of the calls of sqlcipher_malloc and sqlcipher_free.              *)
THEOREM HeapInductive == Spec => []HeapInv
<1>1. Init => HeapInv
  <2> SUFFICES ASSUME Init PROVE HeapInv
    OBVIOUS
  <2>1. /\ DOMAIN heap = {0} /\ 0 \in Offset /\ HeapSz - Header \in Nat
        /\ heap[0] = [next |-> Null, size |-> HeapSz - Header, is_used |-> FALSE]
    BY SizesAssumption DEF Init, Offset
  <2>2. heap \in [DOMAIN heap -> private_block] /\ DOMAIN heap \subseteq Offset
    BY <2>1 DEF Init, private_block
  <2>3. End(heap, 0) = HeapSz
    BY <2>1, SizesAssumption DEF End
  <2>4. Tiled
    BY <2>1, <2>3, SizesAssumption DEF Tiled, TiledList, Placed
  <2>5. Coalesced
    BY <2>1 DEF Coalesced
  <2>6. \A p \in Ptr : ptr[p] = Null
    BY DEF Init
  <2>7. OneOwner
    BY <2>1, <2>6, PointersAssumption DEF OneOwner, Offset
  <2> QED BY <2>2, <2>4, <2>5, <2>7 DEF Init, HeapInv, TypeOK, FreedIsWiped
<1>2. HeapInv /\ [Next]_heapVars => HeapInv'
  <2> SUFFICES ASSUME HeapInv, [Next]_heapVars PROVE HeapInv'
    OBVIOUS
  <2>2. ASSUME NEW p \in Ptr, NEW n \in Request, sqlcipher_internal_malloc(p, n)
        PROVE  HeapInv'
    <3>1. OutsideStep(p, Outside)
      BY <2>2, PointersAssumption DEF sqlcipher_internal_malloc, OutsideStep, Offset
    <3> QED BY <3>1, OutsideInv
  <2>3. ASSUME NEW p \in Ptr, sqlcipher_internal_free(p)
        PROVE  HeapInv'
    <3>1. OutsideStep(p, Null)
      BY <2>3, PointersAssumption DEF sqlcipher_internal_free, OutsideStep, Offset
    <3> QED BY <3>1, OutsideInv
  <2>4. CASE UNCHANGED heapVars
    BY <2>4 DEF heapVars, HeapInv, TypeOK, Tiled, Coalesced, OneOwner, FreedIsWiped, TiledList,
                Placed, End, Data
  <2> QED BY <2>2, <2>3, <2>4, MallocInv, FreeInv DEF Next
<1> QED BY <1>1, <1>2, PTL DEF Spec

(* The offsets, sizes and pointers stay in the heap.                       *)
THEOREM HeapTypeOK == Spec => []TypeOK
<1>1. HeapInv => TypeOK
  BY DEF HeapInv
<1> QED BY <1>1, HeapInductive, PTL

(* sqlcipher_free leaves no two neighbouring free blocks.                  *)
THEOREM HeapCoalesced == Spec => []Coalesced
<1>1. HeapInv => Coalesced
  BY DEF HeapInv
<1> QED BY <1>1, HeapInductive, PTL

(* The blocks always cover the heap, without gap or overlap.               *)
THEOREM HeapTiled == Spec => []Tiled
<1>1. HeapInv => Tiled
  BY DEF HeapInv
<1> QED BY <1>1, HeapInductive, PTL

(* No two allocations share memory and none is lost.                       *)
THEOREM HeapOwners == Spec => []OneOwner
<1>1. HeapInv => OneOwner
  BY DEF HeapInv
<1> QED BY <1>1, HeapInductive, PTL

(* Memory given back by sqlcipher_free holds no key material.              *)
THEOREM HeapWiped == Spec => []FreedIsWiped
<1>1. HeapInv => FreedIsWiped
  BY DEF HeapInv
<1> QED BY <1>1, HeapInductive, PTL

(* Once every allocation is freed the heap is one free block again.        *)
THEOREM HeapWhole == Spec => []EmptyHeapIsWhole
<1>1. HeapInv => EmptyHeapIsWhole
  <2> SUFFICES ASSUME HeapInv, \A p \in Ptr : ptr[p] \notin Offset
               PROVE  heap = [b \in {0} |-> [next |-> Null, size |-> HeapSz - Header,
                                             is_used |-> FALSE]]
    BY DEF EmptyHeapIsWhole
  <2>1. HeapOK(heap) /\ 0 \in DOMAIN heap
    BY DEF HeapInv, HeapOK, TypeOK, Tiled, TiledList
  <2>2. \A b \in DOMAIN heap : ~heap[b].is_used
    BY <2>1 DEF HeapInv, OneOwner, HeapOK
  <2>3. heap[0].next = Null
    BY <2>1, <2>2, NextIsBlock DEF HeapInv, Coalesced
  <2>4. heap[0] \in private_block /\ heap[0].size \in Nat
    BY <2>1 DEF HeapOK, private_block
  <2>5. 0 + Header + heap[0].size = HeapSz
    BY <2>1, <2>3, <2>4, SizesAssumption, PointersAssumption DEF HeapOK, TiledList, Placed, End
  <2>6. heap[0] = [next |-> Null, size |-> HeapSz - Header, is_used |-> FALSE]
    <3>1. heap[0].size = HeapSz - Header
      BY <2>4, <2>5, SizesAssumption
    <3>2. heap[0].is_used = FALSE
      BY <2>1, <2>2, <2>4 DEF private_block
    <3> QED BY Zenon, <2>3, <2>4, <3>1, <3>2 DEF private_block
  <2>7. ASSUME NEW c \in DOMAIN heap PROVE c = 0
    <3>1. c \in 0 .. HeapSz - 1
      BY <2>1 DEF HeapOK, Offset
    <3>2. 0 < c => HeapSz <= c
      BY <2>1, <2>5 DEF HeapOK, TiledList, Placed, End
    <3> QED BY <3>1, <3>2, SizesAssumption
  <2>8. DOMAIN heap = {0}
    BY <2>1, <2>7
  <2>9. heap = [b \in DOMAIN heap |-> heap[b]]
    BY <2>1 DEF HeapOK
  <2> QED BY <2>6, <2>8, <2>9
<1> QED BY <1>1, HeapInductive, PTL
=============================================================================
