------------------------------ MODULE Umalloc ------------------------------
(***************************************************************************)
(* The allocator of user programs (umalloc.c).                             *)
(*                                                                         *)
(* Addresses count headers: p + 1 is the next header after p.  The static  *)
(* header base lies below the heap, which sbrk() makes longer at its end.  *)
(* A call is one action, since a process has one thread.                   *)
(***************************************************************************)
EXTENDS Integers, FiniteSetsExt

CONSTANTS MinCore,     \* morecore() asks for this many headers at least (4096)
          Limit,       \* sbrk() fails beyond this address
          MaxUnits     \* bound on the size of a request

base == 0
HeapStart == 2
Address == base .. Limit

VARIABLES header,      \* size and ptr of the header at an address, if a block starts there
          freep,       \* where the last search ended; 0 before the first call
          brk,         \* the end of the heap
          given,       \* the size asked for, of every block the program has
          refused      \* what the last call asked for in vain, or 0

vars == <<header, freep, brk, given, refused>>

Null == -1

NoHeader == [size |-> 0, ptr |-> Null]

TypeOK ==
  /\ header \in [Address -> [size : 0 .. Limit, ptr : Address \cup {Null}]]
  /\ freep \in Address \cup {Null}
  /\ brk \in HeapStart .. Limit
  /\ DOMAIN given \subseteq Address /\ \A a \in DOMAIN given : given[a] \in 1 .. MaxUnits
  /\ refused \in 0 .. MaxUnits

Init ==
  /\ header = [a \in Address |-> NoHeader]
  /\ freep = Null
  /\ brk = HeapStart
  /\ given = <<>>
  /\ refused = 0

(* The state the code's functions work on.                                 *)
Heap == [header |-> header, freep |-> freep, brk |-> brk]

(* bp goes between p and the next block: it lies between them, or at one   *)
(* of the ends of the heap.                                                *)
Between(h, p, bp) ==
  LET next == h.header[p].ptr IN
  (bp > p /\ bp < next) \/ (p >= next /\ (bp > p \/ bp < next))

(* The blocks of the list from freep on, round the circle.                 *)
walk(h) ==
  LET block[k \in 0 .. Limit] == IF k = 0 THEN h.freep ELSE h.header[block[k - 1]].ptr IN block

(* Where the loop of free() stops.                                         *)
Find(h, bp) == walk(h)[Min({k \in 0 .. Limit : Between(h, walk(h)[k], bp)})]

Joined(lower, upper) == [size |-> lower.size + upper.size, ptr |-> upper.ptr]

Linked(block, next) == [block EXCEPT !.ptr = next]

(* Faulty: a block is not joined with the one below.                       *)
freeApart(h, bp) ==
  LET p == Find(h, bp)
      next == h.header[p].ptr
      upper == bp + h.header[bp].size = next
      joined == IF upper THEN Joined(h.header[bp], h.header[next]) ELSE Linked(h.header[bp], next)
  IN [h EXCEPT !.header = [a \in Address |->
                             CASE a = p -> Linked(h.header[p], bp)
                               [] a = bp -> joined
                               [] a = next /\ upper -> NoHeader
                               [] OTHER -> h.header[a]],
               !.freep = p]

(* bp is joined with the free block above, and the one below with bp, if   *)
(* there is nothing between them.                                          *)
free(h, bp) ==
  LET p == Find(h, bp)
      next == h.header[p].ptr
      upper == bp + h.header[bp].size = next
      lower == p + h.header[p].size = bp
      joined == IF upper THEN Joined(h.header[bp], h.header[next]) ELSE Linked(h.header[bp], next)
  IN [h EXCEPT !.header = [a \in Address |->
                             CASE a = p -> IF lower THEN Joined(h.header[p], joined)
                                           ELSE Linked(h.header[p], bp)
                               [] a = bp -> IF lower THEN NoHeader ELSE joined
                               [] a = next /\ upper -> NoHeader
                               [] OTHER -> h.header[a]],
               !.freep = p]

Core(nu) == IF nu < MinCore THEN MinCore ELSE nu

(* sbrk() makes room for one block, which is put on the list.              *)
morecore(h, nu) ==
  free([h EXCEPT !.header = [@ EXCEPT ![h.brk] = [size |-> Core(nu), ptr |-> Null]],
                 !.brk = @ + Core(nu)],
       h.brk)

(* nunits headers of p, which follows prevp: all of it, or the end.        *)
Carve(h, prevp, p, nunits) ==
  LET size == h.header[p].size
      a == p + size - nunits
  IN [heap |->
        [h EXCEPT !.freep = prevp,
                  !.header = IF size = nunits THEN [@ EXCEPT ![prevp].ptr = h.header[p].ptr, ![p].ptr = Null]
                             ELSE [@ EXCEPT ![p].size = size - nunits,
                                            ![a] = [size |-> nunits, ptr |-> Null]]],
      block |-> a]

(* The steps from freep to the first block that is large enough, going     *)
(* round once and looking at freep last; 0 if there is none.               *)
FirstFit(h, nunits) ==
  LET round == Min({k \in 1 .. Limit : walk(h)[k] = h.freep})
      fit == {k \in 1 .. round : h.header[walk(h)[k]].size >= nunits}
  IN IF fit = {} THEN 0 ELSE Min(fit)

(* The first call makes base the only block of the list.                   *)
Started(h) ==
  IF h.freep # Null THEN h
  ELSE [h EXCEPT !.freep = base, !.header = [@ EXCEPT ![base] = [size |-> 0, ptr |-> base]]]

(* A block of the list.  If none is large enough more memory is got, and   *)
(* the search begins again.                                                *)
malloc(h, nunits) ==
  LET s == Started(h)
      more == morecore(s, nunits)
      fit(t) == FirstFit(t, nunits)
      take(t) == Carve(t, walk(t)[fit(t) - 1], walk(t)[fit(t)], nunits)
  IN IF fit(s) # 0 THEN take(s)
     ELSE IF s.brk + Core(nunits) > Limit THEN [heap |-> s, block |-> Null]
     ELSE take(more)
-----------------------------------------------------------------------------
Set(h) == header' = h.header /\ freep' = h.freep /\ brk' = h.brk

Malloc(nunits) ==
  LET m == malloc(Heap, nunits) IN
  /\ Set(m.heap)
  /\ IF m.block = Null
     THEN refused' = nunits /\ UNCHANGED given
     ELSE /\ refused' = 0
          /\ given' = [a \in DOMAIN given \cup {m.block} |-> IF a = m.block THEN nunits ELSE given[a]]

Free(bp) ==
  /\ bp \in DOMAIN given
  /\ Set(free(Heap, bp))
  /\ given' = [a \in DOMAIN given \ {bp} |-> given[a]]
  /\ refused' = 0

(* A request has room for its header: malloc(0) is given that alone.       *)
Next == \/ \E nunits \in 1 .. MaxUnits : Malloc(nunits)
        \/ \E bp \in Address : Free(bp)

Spec == Init /\ [][Next]_vars
-----------------------------------------------------------------------------
(* Properties.                                                             *)

FreeBlocks ==
  IF freep = Null THEN {} ELSE {walk(Heap)[k] : k \in 0 .. Limit} \ {base}

Units(a) == a .. a + header[a].size - 1

(* Every part of the heap is in one block, free or given away; a block     *)
(* given away is as large as was asked; no two free blocks lie side by     *)
(* side, so that memory that is freed can be given out as one block; and   *)
(* malloc() has failed only if no free block is large enough and sbrk()    *)
(* has no more, wherever in the circle the last search ended.              *)
HeapSound ==
  LET blocks == FreeBlocks \cup DOMAIN given IN
  /\ FreeBlocks \cap DOMAIN given = {}
  /\ \A a, b \in blocks : a # b => Units(a) \cap Units(b) = {}
  /\ UNION {Units(a) : a \in blocks} = HeapStart .. brk - 1
  /\ \A a \in DOMAIN given : header[a].size = given[a]
  /\ \A a \in FreeBlocks : a + header[a].size \notin FreeBlocks
  /\ refused # 0 => /\ brk + Core(refused) > Limit
                    /\ \A a \in FreeBlocks : header[a].size < refused
=============================================================================
