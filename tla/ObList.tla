-------------------------------- MODULE ObList --------------------------------
(***************************************************************************)
(* ObList<T> (src/lib/list/ob_list.h): a circular doubly linked list whose *)
(* sentinel root_ holds only next / prev, nodes from allocator_, and one    *)
(* caller iterator (list::Iterator, a bare node pointer).                 *)
(*                                                                         *)
(* Memory is a function from pointers to node records; every statement of *)
(* a method is one EXCEPT, in the code's order, so that aliasing (an     *)
(* empty list's root_.prev is root_ itself) is what the code makes of it. *)
(* The allocator hands out any free node or NULL; a freed node keeps its  *)
(* stale contents.                                                        *)
(***************************************************************************)
EXTENDS Integers, Sequences, FiniteSets, SequencesExt, Functions

CONSTANTS
    Nodes,        \* node memory the allocator can hand out
    Root,         \* &root_
    Null,         \* NULL
    Values,       \* values stored (T)
    None,         \* data of the sentinel and of never-used nodes
    Containers,   \* sequences handed to assign / deserialize
    AllocMayFail, \* allocator_.alloc() may return NULL with nodes left
    ItemMayFail   \* item.deserialize / decode_i64 may fail

Ptrs == Nodes \cup {Root}

VARIABLES
    mem,        \* the node records, root_ included
    size,       \* size_
    pool,       \* nodes the allocator holds free
    iter,       \* the caller's iterator (node_)
    iterValid,  \* ghost: iter's node has not been freed since it was taken
    out         \* the value last written by pop_back(v) / pop_front(v)

vars == <<mem, size, pool, iter, iterValid, out>>

-----------------------------------------------------------------------------
(* Statement sequences of the methods, as functions of memory.             *)

\* Variant that links root_.prev before the old tail (order check).
PushBackMem_swapped(m, tmp, v) ==
    LET m1 == [m EXCEPT ![tmp].data = v, ![tmp].prev = m[Root].prev, ![tmp].next = Root]
        m2 == [m1 EXCEPT ![Root].prev = tmp]
    IN [m2 EXCEPT ![m2[Root].prev].next = tmp]

\* push_back, lines 284-288.
PushBackMem(m, tmp, v) ==
    LET m1 == [m EXCEPT ![tmp].data = v]
        m2 == [m1 EXCEPT ![tmp].prev = m1[Root].prev]
        m3 == [m2 EXCEPT ![tmp].next = Root]
        m4 == [m3 EXCEPT ![m3[Root].prev].next = tmp]
    IN [m4 EXCEPT ![Root].prev = tmp]

\* push_front, lines 301-305.
PushFrontMem(m, tmp, v) ==
    LET m1 == [m EXCEPT ![tmp].data = v]
        m2 == [m1 EXCEPT ![tmp].prev = Root]
        m3 == [m2 EXCEPT ![tmp].next = m2[Root].next]
        m4 == [m3 EXCEPT ![m3[Root].next].prev = tmp]
    IN [m4 EXCEPT ![Root].next = tmp]

\* pop_back, lines 317-318 (and 333-335): unlink root_.prev.
PopBackMem(m) ==
    LET tmp == m[Root].prev
        m1 == [m EXCEPT ![Root].prev = m[tmp].prev]
    IN [m1 EXCEPT ![m1[tmp].prev].next = Root]

\* Variant that forgets to relink the new first node's prev (missing update).
PopFrontMem_no_prev(m) == [m EXCEPT ![Root].next = m[m[Root].next].next]

\* pop_front, lines 349-350 (and 365-367): unlink root_.next.
PopFrontMem(m) ==
    LET tmp == m[Root].next
        m1 == [m EXCEPT ![Root].next = m[tmp].next]
    IN [m1 EXCEPT ![m1[tmp].next].prev = Root]

\* Variant that links the new node after the iterator's node (off by one).
InsertMem_after(m, it, tmp, v) ==
    LET m1 == [m EXCEPT ![tmp].data = v, ![tmp].prev = it, ![tmp].next = m[it].next]
        m2 == [m1 EXCEPT ![m1[it].next].prev = tmp]
    IN [m2 EXCEPT ![it].next = tmp]

\* insert, lines 381-385: link tmp before iter.node_.
InsertMem(m, it, tmp, v) ==
    LET m1 == [m EXCEPT ![tmp].data = v]
        m2 == [m1 EXCEPT ![tmp].next = it]
        m3 == [m2 EXCEPT ![tmp].prev = m2[it].prev]
        m4 == [m3 EXCEPT ![m3[it].prev].next = tmp]
    IN [m4 EXCEPT ![it].prev = tmp]

\* erase(iterator), lines 400-401.
EraseMem(m, tmp) ==
    LET m1 == [m EXCEPT ![m[tmp].next].prev = m[tmp].prev]
    IN [m1 EXCEPT ![m1[tmp].prev].next = m1[tmp].next]

\* The nodes from p to the sentinel along next, at most k of them.
RECURSIVE ChainFrom(_, _, _)
ChainFrom(m, p, k) ==
    IF p = Root \/ p \notin Nodes \/ k = 0 THEN <<>>
    ELSE <<p>> \o ChainFrom(m, m[p].next, k - 1)

\* clear(), lines 439-443: free every node from root_.next on.
ClearFreed(m) == ToSet(ChainFrom(m, m[Root].next, Cardinality(Nodes)))

\* Lines 444-446.
ClearMem(m) == [m EXCEPT ![Root].next = Root, ![Root].prev = Root]

\* Consecutive push_backs of vs into the nodes ns.
RECURSIVE PushAllMem(_, _, _)
PushAllMem(m, ns, vs) ==
    IF vs = <<>> THEN m ELSE PushAllMem(PushBackMem(m, Head(ns), Head(vs)), Tail(ns), Tail(vs))

-----------------------------------------------------------------------------
(* The caller's view.                                                      *)

Chain == ChainFrom(mem, mem[Root].next, Cardinality(Nodes) + 1)
Contents == [i \in 1..Len(Chain) |-> mem[Chain[i]].data]

IsLive(p) == \E i \in 1..Len(Chain) : Chain[i] = p

\* An iterator a caller may dereference, ++, -- or pass to insert.
Usable(it) == it = Root \/ (iterValid /\ IsLive(it))

\* What an iterator stands for in ObListSpec.
CursorOf ==
    CASE iter = Null -> [at |-> "null", i |-> 0]
      [] iter = Root -> [at |-> "end", i |-> 0]
      [] iterValid /\ IsLive(iter) -> [at |-> "pos", i |-> CHOOSE i \in 1..Len(Chain) : Chain[i] = iter]
      [] OTHER -> [at |-> "dangling", i |-> 0]

\* allocator_.alloc(): a free node, or NULL.
AllocOutcomes == pool \cup (IF AllocMayFail \/ pool = {} THEN {Null} ELSE {})

\* Freeing the iterator's node leaves the caller a dangling iterator.
Frees(ns) ==
    /\ pool' = pool \cup ns
    /\ iterValid' = (iterValid /\ iter \notin ns)

-----------------------------------------------------------------------------

\* ObList(): root_ points at itself.
Init ==
    /\ mem = [p \in Ptrs |-> [next |-> IF p = Root THEN Root ELSE Null,
                              prev |-> IF p = Root THEN Root ELSE Null, data |-> None]]
    /\ size = 0
    /\ pool = Nodes
    /\ iter = Null
    /\ iterValid = TRUE
    /\ out = None

\* push_back / push_front, lines 276-309.
Push(front) ==
    \E v \in Values, tmp \in AllocOutcomes :
        IF tmp = Null
        THEN UNCHANGED vars
        ELSE /\ mem' = IF front THEN PushFrontMem(mem, tmp, v) ELSE PushBackMem(mem, tmp, v)
             /\ size' = size + 1 /\ pool' = pool \ {tmp}
             /\ UNCHANGED <<iter, iterValid, out>>

\* Variant without the `0 >= size_` check (dropped guard).
Pop_unguarded(front) ==
    \E withValue \in BOOLEAN :
        LET tmp == IF front THEN mem[Root].next ELSE mem[Root].prev
        IN /\ mem' = IF front THEN PopFrontMem(mem) ELSE PopBackMem(mem)
           /\ out' = IF withValue THEN mem[tmp].data ELSE out
           /\ Frees({tmp})
           /\ size' = size - 1
           /\ UNCHANGED iter

\* pop_back / pop_front, with and without the value, lines 311-372.
Pop(front) ==
    \E withValue \in BOOLEAN :
        IF size <= 0
        THEN UNCHANGED vars
        ELSE LET tmp == IF front THEN mem[Root].next ELSE mem[Root].prev
             IN /\ mem' = IF front THEN PopFrontMem(mem) ELSE PopBackMem(mem)
                /\ out' = IF withValue THEN mem[tmp].data ELSE out
                /\ Frees({tmp})
                /\ size' = size - 1
                /\ UNCHANGED iter

\* insert(iter, v), lines 374-389.  The iterator must be usable: the code
\* dereferences iter.node_->prev unchecked.
Insert ==
    /\ Usable(iter)
    /\ \E v \in Values, tmp \in AllocOutcomes :
        IF tmp = Null
        THEN UNCHANGED vars
        ELSE /\ mem' = InsertMem(mem, iter, tmp, v)
             /\ size' = size + 1 /\ pool' = pool \ {tmp}
             /\ UNCHANGED <<iter, iterValid, out>>

\* erase(iterator) of node it, lines 390-406 (the caller's iterator is
\* NULL, end() or a live node; erasing a freed node is undefined).
EraseNode(it) ==
    CASE size <= 0 -> UNCHANGED <<mem, size, pool, iterValid>>
      [] it = Null \/ it = Root -> UNCHANGED <<mem, size, pool, iterValid>>
      [] OTHER -> /\ mem' = EraseMem(mem, it)
                  /\ Frees({it})
                  /\ size' = size - 1
     
EraseIter ==
    /\ iter = Null \/ Usable(iter)
    /\ EraseNode(iter)
    /\ UNCHANGED <<iter, out>>

\* erase(value), lines 408-419: the first node holding value, if any.
EraseValue ==
    \E v \in Values :
        /\ IF \E i \in 1..Len(Chain) : mem[Chain[i]].data = v
           THEN EraseNode(Chain[SelectInSeq(Chain, LAMBDA p : mem[p].data = v)])
           ELSE UNCHANGED <<mem, size, pool, iterValid>>
        /\ UNCHANGED <<iter, out>>

\* clear(), lines 437-448; reset() and the destructor call it, destroy()
\* also releases the allocator's blocks.
Clear ==
    /\ mem' = ClearMem(mem)
    /\ Frees(ClearFreed(mem))
    /\ size' = 0
    /\ UNCHANGED <<iter, out>>

\* Consecutive push_backs of a prefix of c into distinct nodes of the free
\* set fr: the loop stops early only on a failed allocation or, when
\* itemStop, on an item that fails to decode.  Pairs <<memory, nodes>>.
PushPrefix(m, fr, c, itemStop) ==
    { <<PushAllMem(m, ns, SubSeq(c, 1, Len(ns))), ns>> :
        ns \in { ns \in UNION {[1..k -> fr] : k \in 0..Len(c)} :
                   /\ IsInjective(ns)
                   /\ Len(ns) < Len(c) => (itemStop \/ AllocMayFail \/ Len(ns) = Cardinality(fr)) } }

\* assign(container), lines 541-552: push_back each item, stop at the first
\* failure; the list is not emptied first.
Assign ==
    \E c \in Containers : \E r \in PushPrefix(mem, pool, c, FALSE) :
        /\ mem' = r[1]
        /\ size' = size + Len(r[2])
        /\ pool' = pool \ Range(r[2])
        /\ UNCHANGED <<iter, iterValid, out>>

\* deserialize, lines 490-518: the count may fail to decode before anything
\* changes; otherwise clear(), then per item decode and push_back, stopping
\* at the first failure of either.
Deserialize ==
    \E c \in Containers :
        \/ ItemMayFail /\ UNCHANGED vars
        \/ LET freed == ClearFreed(mem)
           IN \E r \in PushPrefix(ClearMem(mem), pool \cup freed, c, ItemMayFail) :
                /\ mem' = r[1]
                /\ size' = Len(r[2])
                /\ pool' = (pool \cup freed) \ Range(r[2])
                /\ iterValid' = (iterValid /\ iter \notin freed)
                /\ UNCHANGED <<iter, out>>

\* begin() / end(), lines 421-436.
TakeIterator ==
    /\ \/ iter' = mem[Root].next
       \/ iter' = Root
    /\ iterValid' = TRUE
    /\ UNCHANGED <<mem, size, pool, out>>

\* operator++ / operator--, lines 191-212: follow next / prev; from end()
\* they wrap around through the sentinel.
Step ==
    /\ Usable(iter)
    /\ \/ iter' = mem[iter].next
       \/ iter' = mem[iter].prev
    /\ UNCHANGED <<mem, size, pool, iterValid, out>>

Next ==
    \/ \E front \in BOOLEAN : Push(front) \/ Pop(front)
    \/ Insert \/ EraseIter \/ EraseValue \/ Clear \/ Assign \/ Deserialize
    \/ TakeIterator \/ Step

Spec == Init /\ [][Next]_vars

-----------------------------------------------------------------------------
(* Properties.                                                             *)

Node == [next : Ptrs \cup {Null}, prev : Ptrs \cup {Null}, data : Values \cup {None}]

TypeOK ==
    /\ mem \in [Ptrs -> Node]
    /\ size \in 0..Cardinality(Nodes)
    /\ pool \subseteq Nodes
    /\ iter \in Ptrs \cup {Null}
    /\ iterValid \in BOOLEAN
    /\ out \in Values \cup {None}

(* After every sequence of calls the structure is a ring through root_:    *)
(* following next from root_ comes back to root_ over distinct nodes, prev *)
(* is next reversed, size_ counts the ring, and the allocator's free set is *)
(* exactly the nodes not on it (no node leaked, none linked while free).   *)
ListWellLinked ==
    LET ch == Chain
        n == Len(ch)
    IN /\ n <= Cardinality(Nodes)
       /\ IsInjective(ch)
       /\ mem[IF n = 0 THEN Root ELSE ch[n]].next = Root
       /\ mem[Root].prev = (IF n = 0 THEN Root ELSE ch[n])
       /\ \A i \in 1..n : mem[ch[i]].prev = (IF i = 1 THEN Root ELSE ch[i - 1])
       /\ size = n
       /\ pool = Nodes \ Range(ch)

Abs == INSTANCE ObListSpec WITH seq <- Contents, cursor <- CursorOf, got <- out

(* ObList implements ObListSpec: read front to back, the ring is the      *)
(* sequence the calls made, the caller's iterator keeps denoting the same  *)
(* element (or end()) across every other insertion and removal, pops      *)
(* return the element removed, and a failed allocation changes nothing.   *)
ObListImplementsSpec == Abs!ASpec

====
