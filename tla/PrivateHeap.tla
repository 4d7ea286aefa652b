----------------------------- MODULE PrivateHeap ----------------------------
(***************************************************************************)
(* The private heap of sqlcipher.c, where keys and passes are kept: a      *)
(* list of blocks inside one locked allocation, searched first-fit by      *)
(* sqlcipher_malloc, split when enough is left over, and merged with its   *)
(* free neighbours by sqlcipher_free.  A request that fits nowhere falls   *)
(* back to the system allocator.  Both functions run under                 *)
(* SQLCIPHER_MUTEX_MEM, so each is one step.                               *)
(*                                                                         *)
(* A block is known by its offset in the heap and is a header followed by  *)
(* its data.  What the callers store is abstracted to the set of words     *)
(* that hold key material.                                                 *)
(***************************************************************************)
EXTENDS Integers

CONSTANTS
  HeapSz,   \* private_heap_sz
  Header,   \* sizeof(private_block)
  MinSplit, \* SQLCIPHER_PRIVATE_HEAP_MIN_SPLIT_SIZE
  Align,    \* SQLCIPHER_PRIVATE_HEAP_ALIGNMENT
  Ptr,      \* the pointers the library keeps to its allocations
  Request,  \* the sizes it asks for
  Null, Outside

VARIABLES
  heap,              \* the list of blocks, by offset
  ptr,               \* where each pointer points
  secret,            \* the words of the heap that hold key material
  private_heap_used

heapVars == <<heap, ptr, secret, private_heap_used>>

ASSUME SizesAssumption ==
  /\ Header \in Nat \ {0} /\ Align \in Nat \ {0} /\ MinSplit \in Nat
  /\ HeapSz \in Nat /\ HeapSz > Header
  /\ Request \subseteq Nat \ {0}
ASSUME PointersAssumption == Null \notin Nat /\ Outside \notin Nat /\ Null # Outside

Offset == 0 .. HeapSz - 1
private_block == [next : Offset \cup {Null}, size : Nat, is_used : BOOLEAN]

(* SQLCIPHER_PRIVATE_HEAP_ROUNDUP *)
Roundup(n) == IF n % Align # 0 THEN ((n \div Align) + 1) * Align ELSE n

(* Where the block b of the heap h ends.                                   *)
End(h, b) == b + Header + h[b].size
(* The words of the data of length n in the block at b.                    *)
Data(b, n) == {w \in Offset : w % Align = 0 /\ b + Header <= w /\ w < b + Header + n}

Init ==
  /\ heap = [b \in {0} |-> [next |-> Null, size |-> HeapSz - Header, is_used |-> FALSE]]
  /\ ptr = [p \in Ptr |-> Null]
  /\ secret = {}
  /\ private_heap_used = 0

-----------------------------------------------------------------------------
(* Mutant: a block in use is taken again.                                  *)
Fits_Used(n) == {b \in DOMAIN heap : heap[b].size >= n}

(* The free blocks that can hold n bytes.                                  *)
Fits(n) == {b \in DOMAIN heap : ~heap[b].is_used /\ heap[b].size >= n}

(* Mutant: the block is split whatever is left over.                       *)
Taken_AlwaysSplit(b, n) ==
  LET rest == b + Header + n
  IN  [c \in DOMAIN heap \cup {rest} |->
         IF c = b THEN [next |-> rest, size |-> n, is_used |-> TRUE]
         ELSE IF c = rest THEN [next |-> heap[b].next, size |-> heap[b].size - n - Header,
                                is_used |-> FALSE]
         ELSE heap[c]]

(* The heap after n bytes are taken from the block b.                      *)
Taken(b, n) ==
  LET rest == b + Header + n
  IN  IF heap[b].size >= n + Header + MinSplit
      THEN [c \in DOMAIN heap \cup {rest} |->
              IF c = b THEN [next |-> rest, size |-> n, is_used |-> TRUE]
              ELSE IF c = rest THEN [next |-> heap[b].next, size |-> heap[b].size - n - Header,
                                     is_used |-> FALSE]
              ELSE heap[c]]
      ELSE [heap EXCEPT ![b].is_used = TRUE]

(* sqlcipher_malloc takes the first block that fits (the list is in the    *)
(* order of the offsets) and zeroes it; the caller then fills it.          *)
sqlcipher_malloc(p, n) ==
  /\ ptr[p] = Null
  /\ \E b \in Fits(Roundup(n)) :
       /\ \A c \in Fits(Roundup(n)) : b <= c
       /\ heap' = Taken(b, Roundup(n))
       /\ ptr' = [ptr EXCEPT ![p] = b]
       /\ secret' = secret \cup Data(b, n)
       /\ private_heap_used' = private_heap_used + heap'[b].size

(* Nothing fits: sqlcipher_internal_malloc.  If it fails too, the caller   *)
(* is given NULL.                                                          *)
sqlcipher_internal_malloc(p, n) ==
  /\ ptr[p] = Null
  /\ Fits(Roundup(n)) = {}
  /\ ptr' = [ptr EXCEPT ![p] = Outside]
  /\ UNCHANGED <<heap, secret, private_heap_used>>

-----------------------------------------------------------------------------
(* Mutant: the header of the absorbed block is not counted.                *)
Absorb_NoHeader(h, b) ==
  [c \in DOMAIN h \ {h[b].next} |->
     IF c = b THEN [h[b] EXCEPT !.size = @ + h[h[b].next].size,
                                !.next = h[h[b].next].next]
     ELSE h[c]]

(* The heap h after the block b has taken in the block that follows it.    *)
Absorb(h, b) ==
  [c \in DOMAIN h \ {h[b].next} |->
     IF c = b THEN [h[b] EXCEPT !.size = @ + Header + h[h[b].next].size,
                                !.next = h[h[b].next].next]
     ELSE h[c]]

(* Mutant: a freed block is not merged with the block before it.           *)
Freed_NotBackward(b) ==
  LET h == [heap EXCEPT ![b].is_used = FALSE]
      after == h[b].next
  IN  IF after # Null /\ ~h[after].is_used THEN Absorb(h, b) ELSE h

(* Mutant: a freed block is merged with one neighbour at most.             *)
Freed_OneSide(b) ==
  LET h == [heap EXCEPT ![b].is_used = FALSE]
      prev == {c \in DOMAIN heap : heap[c].next = b /\ ~heap[c].is_used}
      after == h[b].next
  IN  IF prev # {} THEN Absorb(h, CHOOSE c \in prev : TRUE)
      ELSE IF after # Null /\ ~h[after].is_used THEN Absorb(h, b) ELSE h

(* The heap after the block b is freed: merged with the block before it,   *)
(* then with the one after it, if they are free.                           *)
Freed(b) ==
  LET h1 == [heap EXCEPT ![b].is_used = FALSE]
      prev == {c \in DOMAIN heap : heap[c].next = b /\ ~heap[c].is_used}
      first == IF prev = {} THEN b ELSE CHOOSE c \in prev : TRUE
      h2 == IF prev = {} THEN h1 ELSE Absorb(h1, first)
      after == h2[first].next
  IN  IF after # Null /\ ~h2[after].is_used THEN Absorb(h2, first) ELSE h2

(* Mutant: a block is overwritten only if the block before it is in use.   *)
sqlcipher_free_NoWipe(p) ==
  /\ ptr[p] \in DOMAIN heap
  /\ heap' = Freed(ptr[p])
  /\ secret' = IF ptr[p] \in DOMAIN heap' THEN secret \ Data(ptr[p], heap[ptr[p]].size) ELSE secret
  /\ private_heap_used' = private_heap_used - heap[ptr[p]].size
  /\ ptr' = [ptr EXCEPT ![p] = Null]

sqlcipher_free(p) ==
  /\ ptr[p] \in DOMAIN heap
  /\ heap' = Freed(ptr[p])
  /\ secret' = secret \ Data(ptr[p], heap[ptr[p]].size)
  /\ private_heap_used' = private_heap_used - heap[ptr[p]].size
  /\ ptr' = [ptr EXCEPT ![p] = Null]

(* The pointer is not found in the list: sqlcipher_internal_free.          *)
sqlcipher_internal_free(p) ==
  /\ ptr[p] = Outside
  /\ ptr' = [ptr EXCEPT ![p] = Null]
  /\ UNCHANGED <<heap, secret, private_heap_used>>

Next ==
  \E p \in Ptr :
    \/ \E n \in Request : sqlcipher_malloc(p, n) \/ sqlcipher_internal_malloc(p, n)
    \/ sqlcipher_free(p) \/ sqlcipher_internal_free(p)

Spec == Init /\ [][Next]_heapVars

-----------------------------------------------------------------------------
(* The variables hold values the code can put there.                       *)
TypeOK ==
  /\ heap \in [DOMAIN heap -> private_block] /\ DOMAIN heap \subseteq Offset
  /\ ptr \in [Ptr -> Offset \cup {Null, Outside}]
  /\ secret \subseteq Offset
  /\ private_heap_used \in Int

(* The block b of the list h ends inside the heap, where the next one      *)
(* begins or the heap ends, and overlaps no block after it.                *)
Placed(h, b) ==
  /\ End(h, b) <= HeapSz
  /\ h[b].next = IF End(h, b) = HeapSz THEN Null ELSE End(h, b)
  /\ End(h, b) < HeapSz => End(h, b) \in DOMAIN h
  /\ \A c \in DOMAIN h : b < c => End(h, b) <= c

TiledList(h) == 0 \in DOMAIN h /\ \A b \in DOMAIN h : Placed(h, b)

(* Splitting and merging (sqlcipher_malloc, sqlcipher_free) lose and share *)
(* no byte: the blocks always cover the heap without overlap.              *)
Tiled == TiledList(heap)

(* No two neighbouring blocks are free: sqlcipher_free merges all it can,  *)
(* whatever the order of the calls before.                                 *)
Coalesced ==
  \A b \in DOMAIN heap : ~heap[b].is_used /\ heap[b].next # Null => heap[heap[b].next].is_used

(* Every block in use belongs to exactly one pointer and every pointer     *)
(* into the heap has a block in use: allocations never share memory, and   *)
(* none is lost.                                                           *)
OneOwner ==
  /\ \A p \in Ptr : ptr[p] \in Offset => ptr[p] \in DOMAIN heap /\ heap[ptr[p]].is_used
  /\ \A p, q \in Ptr : ptr[p] \in Offset /\ ptr[p] = ptr[q] => p = q
  /\ \A b \in DOMAIN heap : heap[b].is_used => \E p \in Ptr : ptr[p] = b

(* Key material is only in blocks that are in use: what sqlcipher_free     *)
(* gives back has been overwritten.                                        *)
FreedIsWiped ==
  secret \subseteq UNION {Data(b, heap[b].size) : b \in {c \in DOMAIN heap : heap[c].is_used}}

(* When every allocation has been freed, the heap is one free block again: *)
(* no sequence of calls fragments it for good.                             *)
EmptyHeapIsWhole ==
  (\A p \in Ptr : ptr[p] \notin Offset) =>
    heap = [b \in {0} |-> [next |-> Null, size |-> HeapSz - Header, is_used |-> FALSE]]
=============================================================================
