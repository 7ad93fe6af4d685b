--------------------------- MODULE ObSqlParseResult ---------------------------
(***************************************************************************)
(* ObSqlParseResult (src/obproxy/obutils/ob_proxy_sql_parser.h): the      *)
(* result of parsing one statement, copied between sessions with          *)
(* operator= and set_text_ps_info, and emptied with release and reset.    *)
(*                                                                         *)
(* Its name strings are ObStrings (a pointer and a length) into buffers   *)
(* embedded in the object: dml_buf_, which shares its bytes with          *)
(* internal_select_buf_ (a union, so table_name_ and col_name_ point into *)
(* the same buffer), origin_dml_buf_ and trace_id_buf_.  The text ps name *)
(* lives in a block of the object's own arena allocator_, and the route   *)
(* server of a sql comment in an ObTargetDbServer from op_alloc.  A       *)
(* buffer's bytes are abstracted to one name (a model value) whose length *)
(* is NameLen[name].                                                       *)
(*                                                                         *)
(* load_result and the setters it calls are not in the repository: Load  *)
(* fills a result the caller has reset, as their buffers show.  Whether   *)
(* ObArenaAllocator::free gives the block back is outside the repository  *)
(* too: ArenaFreeReleases says which outcomes are possible.               *)
(***************************************************************************)
EXTENDS Integers, FiniteSets

CONSTANTS
    Results,            \* the ObSqlParseResult objects
    Names,              \* the names a buffer may hold
    NameLen,            \* the length of each name
    Zero,               \* the bytes of a buffer nothing has written
    Blocks,             \* the memory blocks arena allocators hand out
    Servers,            \* the ObTargetDbServer objects op_alloc hands out
    TraceIds,           \* trace ids a statement may carry (Empty: none)
    TextPsNames,        \* text ps names a statement may carry (Empty: none)
    RouteAddrs,         \* route servers a sql comment may name (Empty: none)
    Null,               \* a NULL pointer
    ArenaFreeReleases,  \* the outcomes of allocator_.free: {FALSE}, or BOOLEAN
    ServerAllocMayFail, \* whether op_alloc may fail though a server is free
    MaxCalls            \* bound on the calls made

VARIABLES
    mem,    \* the bytes of every buffer and block
    str,    \* str[r][f]: the ObString field f of r, [ptr, len]
    tpbuf,  \* text_ps_buf_ (a block or Null)
    arena,  \* the blocks r's allocator_ has handed out and not released
    target, \* target_db_server_ (a server or Null)
    alloc,  \* the servers op_alloc has handed out and op_free not taken back
    srv,    \* the address each server holds (Zero before any)
    view,   \* view[r][f]: what the getter of f should return after the
            \* last load, copy or reset of r
    calls

vars == <<mem, str, tpbuf, arena, target, alloc, srv, view, calls>>

\* The buffer each name string of the model points into; col_name_buf_ is
\* table_name_buf_ through the union.
BufOf == [table |-> "dml", col |-> "dml", origin_table |-> "origin", trace |-> "trace"]
Fields == DOMAIN BufOf
Bufs == {BufOf[f] : f \in Fields}
Locs == (Results \X Bufs) \cup Blocks

Empty == "empty"
NullStr == [ptr |-> Null, len |-> 0]

\* The string an ObString reads: the name in its buffer and its length.
Read(s) == IF s.len = 0 THEN Empty ELSE <<mem[s.ptr], s.len>>
AsView(n) == <<n, NameLen[n]>>

\* The blocks some allocator_ still holds.
LiveBlocks == UNION {arena[r] : r \in Results}

Step == calls < MaxCalls /\ calls' = calls + 1

-----------------------------------------------------------------------------
(* Copying the names (operator= and set_text_ps_info alike)               *)

\* dml_buf_ and internal_select_buf_ (one union) copied whole.
CopyDmlBuf(a, b) ==
    [l \in Locs |-> IF l = <<a, "dml">> THEN mem[<<b, "dml">>] ELSE mem[l]]

\* Then origin_dml_buf_ copied whole and the trace id copied for
\* other.trace_id_.length() bytes.
CopyBufs(a, b) ==
    LET m == CopyDmlBuf(a, b)
    IN  [l \in Locs |->
            IF \/ l = <<a, "origin">>
               \/ l = <<a, "trace">> /\ str[b].trace.len > 0
            THEN mem[<<b, l[2]>>]
            ELSE m[l]]

\* Variant of CopyStrs that points the copy into other's buffers.
CopyStrs_other(a, b) ==
    [f \in Fields |-> [ptr |-> <<b, BufOf[f]>>, len |-> str[b][f].len]]

\* assign_ptr into a's own buffer with other's length.
CopyStrs(a, b) ==
    [f \in Fields |-> [ptr |-> <<a, BufOf[f]>>, len |-> str[b][f].len]]

\* Variant of CopyTarget that copies the pointer instead of allocating.
CopyTarget_shallow(a, b) ==
    CASE target[b] = Null /\ target[a] # Null ->
           /\ target' = [target EXCEPT ![a] = Null]
           /\ alloc' = alloc \ {target[a]}
           /\ UNCHANGED srv
      [] target[b] = Null ->
           UNCHANGED <<target, alloc, srv>>
      [] target[a] = Null ->
           /\ target' = [target EXCEPT ![a] = target[b]]
           /\ UNCHANGED <<alloc, srv>>
      [] OTHER ->
           /\ srv' = [srv EXCEPT ![target[a]] = srv[target[b]]]
           /\ UNCHANGED <<target, alloc>>

\* "copy target db server in sql comment": free a's when b has none, else
\* op_alloc one when a has none (which may fail), and copy b's address.
CopyTarget(a, b) ==
    CASE target[b] = Null /\ target[a] # Null ->
           /\ target' = [target EXCEPT ![a] = Null]
           /\ alloc' = alloc \ {target[a]}
           /\ UNCHANGED srv
      [] target[b] = Null ->
           UNCHANGED <<target, alloc, srv>>
      [] target[a] = Null ->
           \/ /\ \E s \in Servers \ alloc :
                   /\ target' = [target EXCEPT ![a] = s]
                   /\ alloc' = alloc \cup {s}
                   /\ srv' = [srv EXCEPT ![s] = srv[target[b]]]
           \/ /\ Servers \ alloc = {} \/ ServerAllocMayFail
              /\ UNCHANGED <<target, alloc, srv>>
      [] OTHER ->
           /\ srv' = [srv EXCEPT ![target[a]] = srv[target[b]]]
           /\ UNCHANGED <<target, alloc>>

-----------------------------------------------------------------------------
(* Operations                                                              *)

\* operator=(other): the fields, the names, then the text ps buffer: the
\* old one freed, and a copy of other's allocated when it has one, which
\* may fail; text_ps_name_ is assigned only with the new copy.
Assign(a, b) ==
    /\ Step
    /\ a # b
    /\ \E released \in ArenaFreeReleases :
       LET kept == IF tpbuf[a] # Null /\ released THEN arena[a] \ {tpbuf[a]}
                   ELSE arena[a]
           ar == [arena EXCEPT ![a] = kept]
           m0 == CopyBufs(a, b)
           free == Blocks \ UNION {ar[r] : r \in Results}
           s0 == [str[a] EXCEPT !.table = CopyStrs(a, b).table,
                                !.col = CopyStrs(a, b).col,
                                !.origin_table = CopyStrs(a, b).origin_table,
                                !.trace = CopyStrs(a, b).trace]
       IN  \/ /\ tpbuf[b] = Null \/ str[b].text_ps.len = 0
              /\ mem' = m0
              /\ str' = [str EXCEPT ![a] = s0]
              /\ tpbuf' = [tpbuf EXCEPT ![a] = Null]
              /\ arena' = ar
           \/ /\ tpbuf[b] # Null /\ str[b].text_ps.len > 0
              /\ \E k \in free :
                   /\ mem' = [m0 EXCEPT ![k] = mem[tpbuf[b]]]
                   /\ str' = [str EXCEPT ![a] = [s0 EXCEPT !.text_ps =
                                 [ptr |-> k, len |-> str[b].text_ps.len]]]
                   /\ tpbuf' = [tpbuf EXCEPT ![a] = k]
                   /\ arena' = [ar EXCEPT ![a] = @ \cup {k}]
           \/ /\ tpbuf[b] # Null /\ str[b].text_ps.len > 0
              /\ free = {}
              /\ mem' = m0
              /\ str' = [str EXCEPT ![a] = s0]
              /\ tpbuf' = [tpbuf EXCEPT ![a] = Null]
              /\ arena' = ar
    /\ CopyTarget(a, b)
    /\ view' = [view EXCEPT ![a] = view[b]]

\* set_text_ps_info(other): the same fields and names, the target server,
\* and nothing of the text ps buffer; there is no check for this == &other.
SetTextPsInfo(a, b) ==
    /\ Step
    /\ mem' = CopyBufs(a, b)
    /\ str' = [str EXCEPT ![a] = [@ EXCEPT !.table = CopyStrs(a, b).table,
                                           !.col = CopyStrs(a, b).col,
                                           !.origin_table = CopyStrs(a, b).origin_table,
                                           !.trace = CopyStrs(a, b).trace]]
    /\ CopyTarget(a, b)
    /\ view' = [view EXCEPT ![a] = [@ EXCEPT !.table = view[b].table,
                                             !.col = view[b].col,
                                             !.origin_table = view[b].origin_table,
                                             !.trace = view[b].trace,
                                             !.target = view[b].target]]
    /\ UNCHANGED <<tpbuf, arena>>

\* release(): the target server freed (the parameter arrays are not
\* modelled).
ReleaseTarget(r) ==
    /\ target' = [target EXCEPT ![r] = Null]
    /\ alloc' = IF target[r] # Null THEN alloc \ {target[r]} ELSE alloc
    /\ UNCHANGED srv

Release(r) ==
    /\ Step
    /\ ReleaseTarget(r)
    /\ view' = [view EXCEPT ![r].target = Empty]
    /\ UNCHANGED <<mem, str, tpbuf, arena>>

\* Variant of Reset that leaves text_ps_name_ as it was.
Reset_keep_text_ps(r, resetOrigin) ==
    /\ Step
    /\ ReleaseTarget(r)
    /\ str' = [str EXCEPT ![r] =
                 [f \in DOMAIN str[r] |->
                     IF f = "text_ps" \/ (f = "origin_table" /\ ~resetOrigin)
                     THEN str[r][f] ELSE NullStr]]
    /\ arena' = [arena EXCEPT ![r] = {}]
    /\ tpbuf' = [tpbuf EXCEPT ![r] = Null]
    /\ view' = [view EXCEPT ![r] =
                  [f \in DOMAIN view[r] |->
                      IF f = "origin_table" /\ ~resetOrigin THEN view[r][f] ELSE Empty]]
    /\ UNCHANGED mem

\* reset(is_reset_origin_db_table): release(), every name emptied (the
\* origin names only with the flag), allocator_.reset() and the text ps
\* buffer dropped.
Reset(r, resetOrigin) ==
    /\ Step
    /\ ReleaseTarget(r)
    /\ str' = [str EXCEPT ![r] =
                 [f \in DOMAIN str[r] |->
                     IF f = "origin_table" /\ ~resetOrigin THEN str[r][f] ELSE NullStr]]
    /\ arena' = [arena EXCEPT ![r] = {}]
    /\ tpbuf' = [tpbuf EXCEPT ![r] = Null]
    /\ view' = [view EXCEPT ![r] =
                  [f \in DOMAIN view[r] |->
                      IF f = "origin_table" /\ ~resetOrigin THEN view[r][f] ELSE Empty]]
    /\ UNCHANGED mem

\* The state reset() leaves, in which the parser fills a result.
IsReset(r) ==
    /\ \A f \in Fields \ {"origin_table"} : str[r][f].len = 0
    /\ str[r].text_ps.len = 0
    /\ tpbuf[r] = Null
    /\ target[r] = Null

\* load_result (not in the repository): a DML statement's table name, or an
\* internal select's column name, copied into dml_buf_, the table name also
\* saved as origin name when asked, a trace id, a text ps name in a block
\* of allocator_, and a route server from a sql comment.
Load(r, kind, n, save, t, tp, addr) ==
    /\ Step
    /\ IsReset(r)
    /\ LET main == IF kind = "dml" THEN "table" ELSE "col"
           own(f) == [ptr |-> <<r, BufOf[f]>>, len |-> NameLen[n]]
           s0 == [str[r] EXCEPT ![main] = own(main),
                                !.origin_table = IF save THEN own("origin_table") ELSE @,
                                !.trace = IF t = Empty THEN NullStr
                                          ELSE [ptr |-> <<r, "trace">>, len |-> NameLen[t]]]
           m0 == [mem EXCEPT ![<<r, "dml">>] = n,
                             ![<<r, "origin">>] = IF save THEN n ELSE @,
                             ![<<r, "trace">>] = IF t = Empty THEN @ ELSE t]
           v0 == [view[r] EXCEPT ![main] = AsView(n),
                                 !.origin_table = IF save THEN AsView(n) ELSE @,
                                 !.trace = IF t = Empty THEN Empty ELSE AsView(t)]
       IN  \/ /\ tp = Empty \/ Blocks \ LiveBlocks = {}
              /\ mem' = m0 /\ str' = [str EXCEPT ![r] = s0]
              /\ view' = [view EXCEPT ![r] = [v0 EXCEPT !.target = addr]]
              /\ UNCHANGED <<tpbuf, arena>>
           \/ /\ tp # Empty
              /\ \E k \in Blocks \ LiveBlocks :
                   /\ mem' = [m0 EXCEPT ![k] = tp]
                   /\ str' = [str EXCEPT ![r] = [s0 EXCEPT !.text_ps =
                                 [ptr |-> k, len |-> NameLen[tp]]]]
                   /\ tpbuf' = [tpbuf EXCEPT ![r] = k]
                   /\ arena' = [arena EXCEPT ![r] = @ \cup {k}]
                   /\ view' = [view EXCEPT ![r] =
                                 [v0 EXCEPT !.target = addr, !.text_ps = AsView(tp)]]
    /\ IF addr = Empty
       THEN UNCHANGED <<target, alloc, srv>>
       ELSE \E s \in Servers \ alloc :
              /\ target' = [target EXCEPT ![r] = s]
              /\ alloc' = alloc \cup {s}
              /\ srv' = [srv EXCEPT ![s] = addr]

-----------------------------------------------------------------------------

Init ==
    /\ mem = [l \in Locs |-> Zero]
    /\ str = [r \in Results |-> [f \in Fields \cup {"text_ps"} |-> NullStr]]
    /\ tpbuf = [r \in Results |-> Null]
    /\ arena = [r \in Results |-> {}]
    /\ target = [r \in Results |-> Null]
    /\ alloc = {}
    /\ srv = [s \in Servers |-> Zero]
    /\ view = [r \in Results |-> [f \in Fields \cup {"text_ps", "target"} |-> Empty]]
    /\ calls = 0

Next ==
    \/ \E r \in Results, kind \in {"dml", "internal"}, n \in Names, save \in BOOLEAN,
          t \in TraceIds, tp \in TextPsNames, addr \in RouteAddrs :
         Load(r, kind, n, save, t, tp, addr)
    \/ \E a, b \in Results : Assign(a, b) \/ SetTextPsInfo(a, b)
    \/ \E r \in Results : Release(r) \/ \E flag \in BOOLEAN : Reset(r, flag)
    \/ calls = MaxCalls /\ UNCHANGED vars

Spec == Init /\ [][Next]_vars

-----------------------------------------------------------------------------
(* Properties                                                              *)

\* Every ObTargetDbServer op_alloc handed out is held by exactly one result,
\* and a result holds only servers not yet freed: operator=,
\* set_text_ps_info, release and reset neither leak a server (one freed
\* when the source has none), nor share one between two results (whose
\* release would free it twice), also when op_alloc fails.
TargetServersOwned ==
    /\ \A r \in Results : target[r] # Null => target[r] \in alloc
    /\ \A s \in alloc : Cardinality({r \in Results : target[r] = s}) = 1

\* Every name getter of a result (table, column, origin table, trace id)
\* returns what the last load, copy or reset of that result gave it, and
\* its route server holds the address it was given, whatever is later done
\* to the result it was copied from: operator= and set_text_ps_info copy
\* the bytes and point the copy into its own buffers.
CopiesAreIndependent ==
    \A r \in Results :
        /\ \A f \in Fields : Read(str[r][f]) = view[r][f]
        /\ target[r] # Null => srv[target[r]] = view[r].target

\* A non-empty text ps name points into a block its own allocator_ still
\* holds: reset() releases the arena and empties the name with it.
TextPsNameInLiveMemory ==
    \A r \in Results :
        str[r].text_ps.len > 0 => str[r].text_ps.ptr \in arena[r]


\* get_text_ps_name() of a result returns the text ps name of the result
\* last copied into it with operator=, as for every other name: a copy
\* whose source has no text ps buffer has none either.
TextPsNameFollowsCopy ==
    \A r \in Results : Read(str[r].text_ps) = view[r].text_ps

====
