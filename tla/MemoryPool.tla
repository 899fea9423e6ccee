----------------------------- MODULE MemoryPool -----------------------------
(***************************************************************************)
(* tools/memory_pool.cpp: a stack of buffers in one block of memory.  A    *)
(* caller gives back what it took by size alone, so the stack discipline   *)
(* is the callers' affair; held records the buffers they think they have.  *)
(***************************************************************************)
EXTENDS Naturals, Sequences

\* create_mem_pool
NewPool(max) == [max |-> max, usage |-> 0, held |-> <<>>]

\* The assertion of mem_pool_alloc, for the last of k buffers of one size.
Fits(pool, k, size) == pool.max >= pool.usage + k * size

\* mem_pool_alloc, k times for one size; a size of 0 takes nothing.
AllocOverlapping(pool, k, size) ==
  IF size = 0 THEN pool
  ELSE [pool EXCEPT
          !.usage = @ + k * size,
          !.held = @ \o [i \in 1 .. k |-> [at |-> pool.usage, size |-> size]]]

Alloc(pool, k, size) ==
  IF size = 0 THEN pool
  ELSE [pool EXCEPT
          !.usage = @ + k * size,
          !.held = @ \o [i \in 1 .. k |-> [at |-> pool.usage + (i - 1) * size,
                                           size |-> size]]]

\* mem_pool_free, k times for one size, by the owner of the k last buffers.
FreeOnce(pool, k, size) ==
  IF size = 0 THEN pool
  ELSE [pool EXCEPT !.usage = @ - size,
                    !.held = SubSeq(@, 1, Len(@) - k)]

Free(pool, k, size) ==
  IF size = 0 THEN pool
  ELSE [pool EXCEPT !.usage = @ - k * size,
                    !.held = SubSeq(@, 1, Len(@) - k)]

\* The buffers callers hold lie one behind the other and below usage.
Stacked(pool) ==
  LET h == pool.held IN
  /\ \A i \in DOMAIN h : h[i].at + h[i].size <= pool.usage
  /\ \A i, j \in DOMAIN h : i < j => h[i].at + h[i].size <= h[j].at
=============================================================================
