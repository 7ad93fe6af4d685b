------------------------------ MODULE ObListSpec ------------------------------
(***************************************************************************)
(* What ObList (src/lib/list/ob_list.h) promises its caller: a sequence of *)
(* values and one iterator into it.  The iterator is NULL (default         *)
(* constructed), end(), the position of an element, or dangling once its  *)
(* element is removed.  An element's iterator stays valid, and follows its *)
(* element, across every other insertion and removal; a failed allocation *)
(* leaves the sequence as it was.                                         *)
(***************************************************************************)
EXTENDS Integers, Sequences, SequencesExt

CONSTANTS
    Values,      \* values stored
    Containers,  \* sequences handed to assign / deserialize
    None         \* no value popped yet

VARIABLES
    seq,     \* the elements, front to back
    cursor,  \* the caller's iterator: NULL, end(), dangling or a position
    got      \* the value the last pop_back(v) / pop_front(v) returned

avars == <<seq, cursor, got>>

\* An iterator value: one of the three kinds, or the element at position i.
It(kind) == [at |-> kind, i |-> 0]
At(i) == [at |-> "pos", i |-> i]
NullIt == It("null")
EndIt == It("end")
Dangling == It("dangling")

IsPos(c) == c.at = "pos"

\* Positions after the element at p is inserted / removed.
ShiftIns(c, p) == IF IsPos(c) /\ c.i >= p THEN At(c.i + 1) ELSE c
ShiftDel(c, p) ==
    IF ~IsPos(c) THEN c ELSE IF c.i = p THEN Dangling ELSE IF c.i > p THEN At(c.i - 1) ELSE c

\* Emptying the list invalidates every element iterator, not end().
AfterClear(c) == IF IsPos(c) THEN Dangling ELSE c

AInit == seq = <<>> /\ cursor = NullIt /\ got = None

AddBack(v)  == seq' = Append(seq, v) /\ UNCHANGED <<cursor, got>>
AddFront(v) == seq' = <<v>> \o seq /\ cursor' = ShiftIns(cursor, 1) /\ UNCHANGED got

TakeBack(withValue) ==
    /\ seq # <<>>
    /\ seq' = Front(seq) /\ cursor' = ShiftDel(cursor, Len(seq))
    /\ got' = IF withValue THEN Last(seq) ELSE got

TakeFront(withValue) ==
    /\ seq # <<>>
    /\ seq' = Tail(seq) /\ cursor' = ShiftDel(cursor, 1)
    /\ got' = IF withValue THEN Head(seq) ELSE got

\* insert(iter, v): before the iterator's element, or at the back for end().
AddBefore(v) ==
    /\ cursor \notin {NullIt, Dangling}
    /\ LET p == IF cursor = EndIt THEN Len(seq) + 1 ELSE cursor.i
       IN seq' = InsertAt(seq, p, v) /\ cursor' = ShiftIns(cursor, p)
    /\ UNCHANGED got

TakeAtCursor == IsPos(cursor) /\ seq' = RemoveAt(seq, cursor.i) /\ cursor' = Dangling /\ UNCHANGED got

TakeValue(v) ==
    /\ seq' = RemoveFirst(seq, v)
    /\ cursor' = IF \E i \in 1..Len(seq) : seq[i] = v
                 THEN ShiftDel(cursor, SelectInSeq(seq, LAMBDA x : x = v)) ELSE cursor
    /\ UNCHANGED got

Empty == seq' = <<>> /\ cursor' = AfterClear(cursor) /\ UNCHANGED got

\* assign appends to what is there, up to the first failed push_back.
AppendPrefix(c) == \E s \in Prefixes(c) : seq' = seq \o s /\ UNCHANGED <<cursor, got>>

\* deserialize empties the list and refills it, up to the first failure.
Refill(c) == \E s \in Prefixes(c) : seq' = s /\ cursor' = AfterClear(cursor) /\ UNCHANGED got

MoveBegin == cursor' = (IF seq = <<>> THEN EndIt ELSE At(1)) /\ UNCHANGED <<seq, got>>
MoveEnd   == cursor' = EndIt /\ UNCHANGED <<seq, got>>
\* ++ from end() wraps to begin(), -- from begin() to end().
MoveNext ==
    /\ cursor \notin {NullIt, Dangling}
    /\ cursor' = CASE cursor = EndIt        -> IF seq = <<>> THEN EndIt ELSE At(1)
                   [] cursor.i = Len(seq)  -> EndIt
                   [] OTHER                -> At(cursor.i + 1)
    /\ UNCHANGED <<seq, got>>
MovePrev ==
    /\ cursor \notin {NullIt, Dangling}
    /\ cursor' = CASE cursor = EndIt -> IF seq = <<>> THEN EndIt ELSE At(Len(seq))
                   [] cursor.i = 1   -> EndIt
                   [] OTHER          -> At(cursor.i - 1)
    /\ UNCHANGED <<seq, got>>

ANext ==
    \/ \E v \in Values : AddBack(v) \/ AddFront(v) \/ AddBefore(v) \/ TakeValue(v)
    \/ \E b \in BOOLEAN : TakeBack(b) \/ TakeFront(b)
    \/ TakeAtCursor \/ Empty
    \/ \E c \in Containers : AppendPrefix(c) \/ Refill(c)
    \/ MoveBegin \/ MoveEnd \/ MoveNext \/ MovePrev

ASpec == AInit /\ [][ANext]_avars

====
