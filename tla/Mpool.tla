-------------------------------- MODULE Mpool --------------------------------
(***************************************************************************)
(* Memory pools: a shared pool, and pools local to a thread that fall back *)
(* on it.  A pool has a list of single entries and a list of chunks; both  *)
(* live inside the free memory itself, so an entry that is in two places   *)
(* is corrupted.  Lists are only touched with the lock of their pool held, *)
(* so each critical section is one step; mpool_fini keeps its lock over    *)
(* many critical sections of the fallback.                                 *)
(***************************************************************************)
EXTENDS Naturals, Sequences, FiniteSets

CONSTANTS
  Thread,
  ppool,        \* the shared pool
  entry_size,   \* in bytes
  Region,       \* memory handed to the pool by its first owner: [begin, size]
  Counts,       \* numbers of entries asked for at once
  Aligns,       \* alignments asked for, in entries
  NULL

\* The local pool of a thread is named by the thread.
Pool == Thread \cup {ppool}

ASSUME MpoolAssumption ==
  /\ entry_size \in Nat \ {0}
  /\ Region \in [begin : Nat, size : Nat]
  /\ Counts \subseteq Nat \ {0} /\ Aligns \subseteq Nat \ {0}
  /\ ppool \notin Thread /\ NULL \notin Pool

VARIABLES
  entry_list, chunk_list, \* free memory of each pool, first to last
  fallback,
  live,                   \* pools that are initialised
  lock,                   \* pools locked by a mpool_fini in progress
  op,                     \* the allocation or fini a thread is in
  held                    \* blocks a thread owns: [begin, size]

vars == <<entry_list, chunk_list, fallback, live, lock, op, held>>

Idle == [op |-> "idle"]

Block(b, s) == [begin |-> b, size |-> s]
Chunk(b, l) == [begin |-> b, limit |-> l]

RoundUp(x, n) == ((x + n - 1) \div n) * n
RoundDown(x, n) == (x \div n) * n

-----------------------------------------------------------------------------
Init ==
  /\ entry_list = [p \in Pool |-> <<>>]
  /\ chunk_list = [p \in Pool |-> <<>>]
  /\ fallback = [p \in Pool |-> NULL]
  /\ live = {ppool}
  /\ lock = {}
  /\ op = [t \in Thread |-> Idle]
  /\ \E t \in Thread : held = [u \in Thread |-> IF u = t THEN {Region} ELSE {}]

\* The pools a thread may name: its own and the shared one.
Uses(t) == {t, ppool} \cap live

-----------------------------------------------------------------------------
\* mpool_init_with_fallback of the local pool.
mpool_init_with_fallback(t) ==
  /\ op[t] = Idle /\ t \notin live
  /\ live' = live \cup {t}
  /\ fallback' = [fallback EXCEPT ![t] = ppool]
  /\ entry_list' = [entry_list EXCEPT ![t] = <<>>]
  /\ chunk_list' = [chunk_list EXCEPT ![t] = <<>>]
  /\ UNCHANGED <<lock, op, held>>

\* mpool_init_from: the local pool takes all the shared one has, and no
\* fallback.
mpool_init_from(t) ==
  /\ op[t] = Idle /\ t \notin live /\ ppool \notin lock
  /\ live' = live \cup {t}
  /\ entry_list' = [entry_list EXCEPT ![t] = entry_list[ppool], ![ppool] = <<>>]
  /\ chunk_list' = [chunk_list EXCEPT ![t] = chunk_list[ppool], ![ppool] = <<>>]
  /\ fallback' = [fallback EXCEPT ![t] = fallback[ppool], ![ppool] = NULL]
  /\ UNCHANGED <<lock, op, held>>

-----------------------------------------------------------------------------

\* The part of a block that mpool_add_chunk uses.
Usable(b) == Chunk(RoundUp(b.begin, entry_size), RoundDown(b.begin + b.size, entry_size))

HasRoom(c) == c.begin < c.limit /\ c.limit - c.begin >= entry_size

Push(c, s) == IF HasRoom(c) THEN <<c>> \o s ELSE s

\* Without room for an entry it returns false and changes nothing.
mpool_add_chunk(t) ==
  /\ op[t] = Idle
  /\ \E p \in Uses(t) \ lock, b \in held[t] :
       /\ HasRoom(Usable(b))
       /\ chunk_list' = [chunk_list EXCEPT ![p] = Push(Usable(b), @)]
       /\ held' = [held EXCEPT ![t] = @ \ {b}]
  /\ UNCHANGED <<entry_list, fallback, live, lock, op>>

\* Single entries only.
mpool_free(t) ==
  /\ op[t] = Idle
  /\ \E p \in Uses(t) \ lock, b \in held[t] :
       /\ b.size = entry_size /\ b.begin % entry_size = 0
       /\ entry_list' = [entry_list EXCEPT ![p] = <<b.begin>> \o @]
       /\ held' = [held EXCEPT ![t] = @ \ {b}]
  /\ UNCHANGED <<chunk_list, fallback, live, lock, op>>

-----------------------------------------------------------------------------
\* The two allocators walk the pool and its fallbacks, one pool per step; op
\* holds the request while the walk goes on in a fallback.
At(t, name) == IF op[t] = Idle THEN Uses(t) ELSE IF op[t].op = name THEN {op[t].pool} ELSE {}

Return(t, begin, count) ==
  /\ held' = [held EXCEPT ![t] = @ \cup {Block(begin, count * entry_size)}]
  /\ op' = [op EXCEPT ![t] = Idle]

\* Nothing found in p: go on with its fallback, or return NULL.
GoOn(t, p, request) ==
  /\ op' = [op EXCEPT ![t] = IF fallback[p] = NULL THEN Idle ELSE [request EXCEPT !.pool = fallback[p]]]
  /\ UNCHANGED <<entry_list, chunk_list, held>>

\* The first chunk without its first entry.
CutEntry(s) ==
  LET c == Head(s) IN
  IF c.begin + entry_size >= c.limit THEN Tail(s)
  ELSE <<Chunk(c.begin + entry_size, c.limit)>> \o Tail(s)

mpool_alloc(t) ==
  /\ \E p \in At(t, "alloc") \ lock :
     \/ /\ entry_list[p] # <<>>
        /\ Return(t, Head(entry_list[p]), 1)
        /\ entry_list' = [entry_list EXCEPT ![p] = Tail(@)]
        /\ UNCHANGED chunk_list
     \/ /\ entry_list[p] = <<>> /\ chunk_list[p] # <<>>
        /\ Return(t, Head(chunk_list[p]).begin, 1)
        /\ chunk_list' = [chunk_list EXCEPT ![p] = CutEntry(@)]
        /\ UNCHANGED entry_list
     \/ /\ entry_list[p] = <<>> /\ chunk_list[p] = <<>>
        /\ GoOn(t, p, [op |-> "alloc", pool |-> p])
  /\ UNCHANGED <<fallback, live, lock>>

Start(c, align) == RoundUp(c.begin, align * entry_size)

Fits(c, count, align) == Start(c, align) + count * entry_size <= c.limit

\* Mutant: the gap before the block is not added back.
CutNoGap(c, count, align) ==
  Push(Chunk(Start(c, align) + count * entry_size, c.limit), <<>>)

\* What is left of a chunk: the gap before the block, and what follows it.
Cut(c, count, align) ==
  Push(Chunk(c.begin, Start(c, align)),
       Push(Chunk(Start(c, align) + count * entry_size, c.limit), <<>>))

\* The first chunk of p that the request fits in is cut.
AllocContiguousFrom(t, p, n, a) ==
  LET s == chunk_list[p] IN
  \/ \E i \in DOMAIN s :
       /\ Fits(s[i], n, a) /\ \A j \in 1..(i - 1) : ~Fits(s[j], n, a)
       /\ Return(t, Start(s[i], a), n)
       /\ chunk_list' = [chunk_list EXCEPT ![p] =
            SubSeq(s, 1, i - 1) \o Cut(s[i], n, a) \o SubSeq(s, i + 1, Len(s))]
       /\ UNCHANGED entry_list
  \/ /\ \A i \in DOMAIN s : ~Fits(s[i], n, a)
     /\ GoOn(t, p, [op |-> "contiguous", pool |-> p, count |-> n, align |-> a])

mpool_alloc_contiguous(t) ==
  /\ \E p \in At(t, "contiguous") \ lock, n \in Counts, a \in Aligns :
       /\ op[t] # Idle => n = op[t].count /\ a = op[t].align
       /\ AllocContiguousFrom(t, p, n, a)
  /\ UNCHANGED <<fallback, live, lock>>

-----------------------------------------------------------------------------
\* mpool_fini of the local pool: its lock is kept while entry after entry and
\* chunk after chunk goes to the fallback; without a fallback nothing happens.
CallFini(t) ==
  /\ op[t] = Idle /\ t \in live /\ t \notin lock /\ fallback[t] # NULL
  /\ lock' = lock \cup {t}
  /\ op' = [op EXCEPT ![t] = [op |-> "fini", entry |-> 1, chunk |-> 1]]
  /\ UNCHANGED <<entry_list, chunk_list, fallback, live, held>>

FiniEntry(t) ==
  LET i == op[t].entry IN
  /\ op[t].op = "fini" /\ fallback[t] \notin lock /\ i <= Len(entry_list[t])
  /\ entry_list' = [entry_list EXCEPT ![fallback[t]] = <<entry_list[t][i]>> \o @]
  /\ op' = [op EXCEPT ![t].entry = i + 1]
  /\ UNCHANGED <<chunk_list, fallback, live, lock, held>>

FiniChunk(t) ==
  LET i == op[t].chunk
      c == chunk_list[t][i] IN
  /\ op[t].op = "fini" /\ fallback[t] \notin lock
  /\ op[t].entry > Len(entry_list[t]) /\ i <= Len(chunk_list[t])
  /\ chunk_list' = [chunk_list EXCEPT ![fallback[t]] = Push(Usable(Block(c.begin, c.limit - c.begin)), @)]
  /\ op' = [op EXCEPT ![t].chunk = i + 1]
  /\ UNCHANGED <<entry_list, fallback, live, lock, held>>

FiniEnd(t) ==
  /\ op[t].op = "fini"
  /\ op[t].entry > Len(entry_list[t]) /\ op[t].chunk > Len(chunk_list[t])
  /\ entry_list' = [entry_list EXCEPT ![t] = <<>>]
  /\ chunk_list' = [chunk_list EXCEPT ![t] = <<>>]
  /\ fallback' = [fallback EXCEPT ![t] = NULL]
  /\ lock' = lock \ {t} /\ live' = live \ {t}
  /\ op' = [op EXCEPT ![t] = Idle]
  /\ UNCHANGED held

-----------------------------------------------------------------------------
Next == \E t \in Thread :
  \/ mpool_init_with_fallback(t) \/ mpool_init_from(t)
  \/ mpool_add_chunk(t) \/ mpool_free(t)
  \/ mpool_alloc(t) \/ mpool_alloc_contiguous(t)
  \/ CallFini(t) \/ FiniEntry(t) \/ FiniChunk(t) \/ FiniEnd(t)

Spec == Init /\ [][Next]_vars

-----------------------------------------------------------------------------
\* The part of the lists of a pool that mpool_fini has not given away yet.
InFini(p) == p \in Thread /\ op[p].op = "fini"
Entries(p) == {i \in DOMAIN entry_list[p] : InFini(p) => i >= op[p].entry}
Chunks(p) == {i \in DOMAIN chunk_list[p] : InFini(p) => i >= op[p].chunk}

\* Where a byte is: in an entry or a chunk of a pool, or in a block of a thread.
Places(x) ==
  UNION {{<<"entry", p, i>> : i \in {j \in Entries(p) : x \in entry_list[p][j]..(entry_list[p][j] + entry_size - 1)}} : p \in Pool}
  \cup
  UNION {{<<"chunk", p, i>> : i \in {j \in Chunks(p) : x \in chunk_list[p][j].begin..(chunk_list[p][j].limit - 1)}} : p \in Pool}
  \cup
  UNION {{<<"held", t, b>> : b \in {c \in held[t] : x \in c.begin..(c.begin + c.size - 1)}} : t \in Thread}

\* No memory is lost and none is given out twice: through splits of chunks,
\* alignment gaps, fallbacks and a mpool_fini in progress, each byte of the
\* usable memory is in exactly one list of one pool or in one thread's block.
Conserved ==
  LET u == Usable(Region) IN \A x \in u.begin..(u.limit - 1) : Cardinality(Places(x)) = 1

=============================================================================
