# TLA+ models of obproxy components

This directory holds TLA+ models of the parts of obproxy (the OceanBase
database proxy) under `src/`, and the TLC configurations that check them.
`PROJECT.json` lists every component, every run, the mutants, the line map
from each definition to the code, the findings and the hazards.

## The system and how its parts interact

A statement reaches the proxy and is routed to a partition in three steps:

1. **Expression parser** (`src/src/obproxy/opsql/expr_parser/ob_expr_parser_utf8_tab.c`).
   This is a bison parser of the WHERE clause of a SELECT/UPDATE/DELETE, or
   of the SET clause, column list and VALUES rows of an INSERT. Its semantic
   actions build two lists:
   - `relation_info_`: relations on partition-key columns, used for routing;
   - `all_relation_info_`: the column/value pairs of an INSERT.

   Each relation is a left token list, a comparison and a right token list.
   Placeholders are numbered in textual order.
2. **Shard decision** (spec 4.4).
   This step reads the relations. Per key column, EQ values are candidates
   and range relations bound them. It then computes the partition of each
   candidate value. Only its headers are in `src/`, and one class with
   inline code: ObSqlParseResult (`src/src/obproxy/obutils/ob_proxy_sql_parser.h`),
   the parse result a session keeps and copies (operator=, set_text_ps_info)
   between the parser and the shard decision.
3. **Partition router** (`src/src/share/part/ob_part_desc_key.cpp`).
   For KEY/HASH partitioning, `get_part` maps one value to a partition id
   and a tablet id, and `get_part_by_num` maps a number. The caller calls it
   once per candidate value, appending to the same two arrays.

Five more components are modelled on their own; they do not interact
with the routing path or with each other in `src/`:

4. **ObList** (`src/src/lib/list/ob_list.h`), the intrusive circular doubly
   linked list used across the proxy, with its allocator and iterators.
5. **VIP tenant cache** (`src/src/obproxy/obutils/ob_vip_tenant_cache.cpp`),
   a cache from VIP address to tenant shared by the proxy's threads under a
   read-write lock, refreshed by switching between two hash maps. Its key,
   ObVipAddr, is an IP address or a VPC identity; `get` refuses an address
   that is not `is_valid()`.
6. **Async log file struct** (`src/src/lib/oblog/ob_async_log_struct.cpp`),
   the descriptors of a log file and its `.wf` companion across open,
   reopen after rotation and close.
7. **Oracle date format models** (`src/src/lib/timezone/ob_oracle_format_models.cpp`),
   the parser and checker of TO_DATE / TO_CHAR format strings and the
   readers of numbers in a date string.
8. **MySQL packets** (`src/src/rpc/obmysql/packet/ompk_handshake_response.cpp`,
   `ompk_eof.cpp`): the handshake response a client sends at login, which
   the proxy decodes and also writes towards a server, and the EOF packet.
9. **ObNewRow and ObColumnInfo** (`src/src/common/ob_row.cpp`): a row of
   ObObj cells with an optional projector, serialized, deserialized into
   arrays the caller allocated, and deep-copied into one buffer; and the
   column index and collation of a result column.

The compressors, the event system and generated gRPC code are not
modelled; see the last section.

## Modules

### `ExprParser.tla` — the parser's semantic actions

**State.** The variables are the fields of `ObExprParseResult` that the
actions write:

- `relations` (relation_info_) and `allRelations` (all_relation_info_);
- `rightValueNum` (right_value_num_);
- `keyIdx` and `keyExist` (the part keys' idx_ and is_exist_in_sql_);
- `columnIdx`, `valuesListIdx`, `multiParamValues`, `placeholderIdx` and
  `hasRowid`.

A `state` variable records where the grammar is: WHERE chain, SET list,
column list, VALUES row, accepted or aborted.

There are three ghost variables: `clause` (the predicates written, with
their connectives), `columns` and `rows` (the INSERT column list and VALUES
rows as reduced token lists). The properties compare the result with them.

**Actions.** Each action is one reduction, from a bool_pri or a VALUES item
up to the enclosing chain. The token reductions (cases 48-60) and the
cond_expr / set_expr `check_and_add_relation` are folded in, because in the
code they always run in the same order, with nothing in between.

| Action | Grammar rules | What it does |
|---|---|---|
| `ReduceComparison` | 26-28, 33-39 | `add_relation`, then `get_relation` with operand swap and `get_reverse_func`, then `check_and_add_relation` |
| `ReduceIn` | 29, 40-41 | items merged by `add_token_list` into one EQ relation |
| `ReduceBetween` | 30 | a GE and an LE relation, each checked and added |
| `ReduceIsNull` | 31-32 | no relation |
| `NoColumnList` | 74 | `init_part_key_all_match` |
| `ReduceColumn` | 76-78 | `set_part_key_column_idx`, `add_left_relation_value` |
| `ReduceValue` | 79-80 | `get_values_relation`, `add_right_relation_value`; first row only |
| `EndRow` | 72-73 | `multi_param_values_++` |
| `Accept` | 4-6, 68-70 | YYACCEPT |
| `SyntaxError` | 7 | yyerror is a no-op and recovery reduces `select_root: error`, which accepts with what was reduced so far |
| `AllocAbort` | `malloc_node`/`malloc_list` | YYABORT |

A failed allocation inside `get_relation`, `add_relation` or
`add_left_relation_value` is a nondeterministic `ok` flag when
`RelAllocMayFail` is TRUE. The code swallows these failures.

**Data abstraction.**
- An operand is a record: a column with optional db/table qualifiers, an
  integer, a string, `?`, ROW_ID, or `+`.
- Names are compared as the code compares them (`is_equal`,
  `get_part_key_idx`).
- Arithmetic and functions are opaque tokens.

### `PartDescKey.tla` — ObPartDescKey

**State.** The variables are `partIds` and `tabletIds` (the caller's
arrays), `ret`, `clusterVersion`, `stopped` (a push_back failed and the
caller gave up), and the ghost `routed` (what each part id was routed from).

**Actions.**
- `get_part` covers:
  - the obj-count check;
  - cast and accuracy failures, as a nondeterministic outcome;
  - the hash selection by cluster version and function type;
  - abs and `%`;
  - the `part_array_` indirection;
  - `part_space_ << BITS | id`;
  - the two pushes.
- `get_part_by_num` is the same without the hash.

**Word arithmetic.** `int64_t` is scaled to `W` = 8 bits.
- `CRem` is C's truncating `%`.
- `|` is Bitwise's.
- Negating INT64_MIN is undefined behaviour. The model chooses
  nondeterministically between the wrapped result (still negative) and the
  unsigned one.
- An out-of-bounds array read returns any value of `Garbage`.

**Hashes.** The hashes are fixed tables from values to signed W-bit words.
One value hashes to INT64_MIN under murmur.

### `ObList.tla` and `ObListSpec.tla` — the list and what it promises

**State.** `mem` maps every pointer (the sentinel `root_` and the nodes the
allocator may hand out) to a node record `[data, prev, next]`; `size` is
`size_`, `pool` the allocator's free nodes, `iter` the caller's iterator
(a bare node pointer), `out` the value of the last `pop_back(v)` /
`pop_front(v)`. The ghost `iterValid` records whether `iter`'s node was
freed since the iterator was taken.

**Actions.** Each method is one action, and its statements are applied to
`mem` one EXCEPT at a time, in the code's order, so that aliasing (an empty
list's `root_.prev` is `root_`) does what it does in the code:
`Push` (push_back / push_front), `Pop` (with and without the value),
`Insert`, `EraseIter`, `EraseValue`, `Clear` (clear / reset / destroy),
`Assign` and `Deserialize` (which stop at the first failed push, leaving a
partial copy), `TakeIterator` (begin / end) and `Step` (++ / --).
Allocation may return NULL and an item may fail to decode.

**Refinement.** `ObListSpec` is what a caller relies on: a sequence of
values and one iterator that is NULL, end(), dangling, or at a position that
follows its element across other insertions and removals. `ObList`
instantiates it with `seq <- Contents` (the values read from `root_`
along `next`), `cursor <- CursorOf` (the iterator's position, or dangling
when `iterValid` is false) and `got <- out`, and checks `Abs!ASpec` as a
property.

### `VipTenantCache.tla` — ObVipTenantCache

**State.** `maps` (the two `vt_cache_map_array_` maps, VIP to tenant or
NULL), `cur` (which one `vt_cache_map_` points at, or NULL after
`destroy`), `writer` and `readers` (`rwlock_`), and per thread `pc`, `tmp`
(get's `tmp_vt`) and `calls`. Tenants are named `<<thread, call>>`;
`destroyed`, `held` (allocated by a caller and handed to `set`),
`created` and `fresh` (set since the last `update_cache_map`) are ghost
sets of tenants.

**Actions.** `Call` starts one of get / set / update / count / destroy;
`ReadLock` / `WriteLock` acquire `rwlock_` (the thread may wait there);
a writer's critical section is one step (`SetInsert`, `UpdateCacheMap`,
`Destroy`), since no other thread can see inside it; get is two steps,
`GetLookup` and `GetCopy`, because the tenant pointer read under the lock
is dereferenced at the copy; `CountRead`; `Done` releases the lock.
`update_cache_map` switches `vt_cache_map_` to the other map and clears the
old one with `clear_cache_map`, which destroys its tenants.

### `VipTenantAddr.tla` — ObVipAddr and the ObVipTenant setters

`va` is one ObVipAddr: an address pair or `NoAddr`, vid, vip_addr_type_
and the vpc_info_ bytes. `vt` is one ObVipTenant, with name lengths in
place of the names. `SetIp`, `SetIpv4`, `SetSockaddr` and `SetVpc` are the
four setters of the address. `SetIp` has the bad-input branch, the VPC
branch (vid -1, with a failing allocation) and the parse branch. `SetTenant`
is ObVipTenant::set, which checks the names and then copies the address with
operator= (`AssignAddr`). `SetTenantCluster`, `SetRequestTargetType`,
`SetRwType` and `ResetTenant` are the other tenant setters. The ghost
`given` holds the identity the last address setter was handed. The header
is not in the repository. So the enum ends, the name limits, the reset
object (its vip_addr_type_ either value) and whether set_ip_addr accepts
an ip are constants, and set_ipv4_addr's result is a free choice.

### `LogFileStruct.tla` — ObLogFileStruct

**State.** `table` is the process descriptor table (a function from
descriptors to what they refer to: closed, the terminal, some other file,
or generation g of the log or `.wf` file); `fd` and `wfFd` are `fd_` and
`wf_fd_`; `named`, `openWf`, `enableWf` the struct's flags; `gen` the
current generation of the file names (bumped by rotation); the ghosts
`logGen` / `wfGen` the generation of the last successful reopen.

**Actions.** `Open`, `Reopen`, `ReopenWf` and `CloseAll` are the methods,
each with its early returns; `::open` returns the lowest free descriptor or
fails, `fstat` may fail, `dup2` copies a table entry. The environment
rotates the files (`Rotate`) and opens and closes descriptors of its own
(`OtherOpen`, `OtherClose`).

### `OracleDfm.tla` — the Oracle datetime format models

The functions are pure, so the module is a library of operators, one per
function (the loops written as recursion), and a trivial state machine
that grows a string `s` one character at a time so that every string of up
to `MaxLen` characters over `Alphabet` is checked. `parsed` holds the parse
of `s`.

- `PatternList`, `GroupList`, `CONFLICT_GROUP_ERR`: the element tables.
- `WinnerFlag` (parse_one_elem's flag loop: the first longest match),
  `CaseMode` (its upper-case adjustment), `ParseLoop` /
  `parse_datetime_format_string`.
- `SemanticLoop` / `check_semantic`, with the mode as two booleans
  (fractional seconds allowed, time zone allowed).
- `IntLoop` / `match_int_value`, `CommaLoop` / `match_int_value_with_comma`,
  `check_int_value_length`.
- `special_mode_sprintf`, writing a name at `pos` of a buffer.

The helpers declared in the header, which is not in the repository, are
taken as their uses show: `is_split_char` is "neither letter nor digit",
`skip_separate_chars` skips split characters, `match_pattern_ignore_case` is
a case-insensitive prefix match, and `need_check_conflict(g)` holds for the
eight groups that index `CONFLICT_GROUP_ERR`.

### `MySQLPackets.tla` — handshake response and EOF packets

A packet body is a sequence of bytes (0..255) and a string a sequence of
bytes. `pkt` is the OMPKHandshakeResponse handed to serialize: `Init` sets
its capability flags and fields, and `add_connect_attr` (refusing an empty
key) appends attributes one at a time up to `MaxAttrs`. `eof` is an
OMPKEOF as its constructor leaves it (field count 0xfe) with its counters
set.

- `get_serialize_size`, `get_connect_attrs_len` and `AuthMode` (lenenc,
  then secure, then NUL-terminated).
- `Pieces` / `Store` / `serialize`: the store_* calls in order, each
  failing with OB_SIZE_OVERFLOW when it would pass `length`, stopping the
  OB_SUCC chain.
- `d`, the decoder: `StartDecode` hands it the bytes serialize wrote (or,
  with `CutShort`, any proper prefix of them). Then one action per stage of
  decode() runs, each with the function's `OB_SUCC(ret) && pos < end`
  guard: `DecodeHeader`, `DecodeUsername`, `DecodeAuth`, `DecodeDatabase`
  (with the connector/j probe), `DecodePlugin` and `DecodeAttrs`.
  `DecodeAttrIter` runs one pass of the attribute while loop. Its body,
  `AttrIter`, has every length check and the `pos > end` error.
  `DecodeAttrLoopExit` leaves the loop, and `DecodeAttrsEnd` applies the
  connector/j exception. `d.over` records any read past `end`.
- `eof_serialize`, `eof_decode`, `EofSize`.

ObMySQLUtil and ObString are not in the repository. Their store and get
helpers (`StoreInt`, `GetUint`, `StoreLength`, `GetLength`,
`get_number_store_len`, `StoreZt`, `StoreObstr`, `MakeString`) are written
after the MySQL client/server protocol: little-endian integers,
length-encoded integers (one byte below 251, else 0xfc/0xfd/0xfe and 2, 3
or 8 bytes), and NUL-terminated strings read with strlen. `get_length`
refusing 0xfb and 0xff is an assumption; no modelled packet contains them.
The capability flags take their MySQL bit values.

### `UnisCodec.tla` — the unified serialization

ob_row.cpp writes its fields with the OB_UNIS_ENCODE / OB_UNIS_DECODE
macros and `encode_vi64` / `decode_vi64`, which are not in the repository.
This module writes them after their known format: `EncodeVi` is the
variable-length integer (seven bits per byte, low bits first, high bit set
on every byte but the last), `ViLen` its length, `DecodeVi` / `Vi` the
reader, which fails when the bytes run out. An ObObj value is a model value
of `Vals`, written as `ObjSerSize[v]` bytes by `ObjBytes` and read back by
`DecodeObj`; `DecodeArray` reads `n` items of a kind in a row, as
OB_UNIS_DECODE_ARRAY does.

### `ObNewRow.tla` — ObNewRow

A row is a record `[cells, count, proj, psize]`: `cells` and `proj` are
sequences (the arrays) or `NullPtr`. The state is one row serialized
(`sent`, and the bytes `wire`), one row deserialized into (`dst`, with
`got` the return code and the row the bytes came from), and one row
deep-copied into (`copy`, with `pos` the buffer position and `dc` the last
call).

- `reset`, `get_count` / `get_cell` (the header's, with the projector),
  `RowEquals` (operator==), `get_deep_copy_size` (the cell array, the
  cells' data and the projector), `RowBytes` / `get_serialize_size`.
- `DecodeHalf` is one half of deserialize: read a count, fail with
  OB_ERR_SYS when it exceeds the capacity the row's own count field gives,
  store it, and decode that many items into the array. A count of zero on
  a NULL array is accepted, and items into a NULL array are OB_NOT_INIT.
  `deserialize` runs the cells half and then the projector half.
- `deep_copy` checks the whole size against `BufLen - pos`, places the
  cell array, copies each cell's data (`CopyCells`, with its own check),
  then the projector without a check.
- Actions: `Serialize(r)` for any row of up to `MaxCount` cells,
  `Deserialize` of the last bytes written into `dst`, `Assign(r)` giving
  `dst` fresh caller arrays (`Allocations`: capacities up to `MaxCount`,
  counts at or below them), `DeepCopy(src)` at the current `pos`, and
  `Reset` of the copy.

### `ObColumnInfo.tla` — ObColumnInfo

`col` is one ObColumnInfo `[index, cs_type]`. `Serialize` writes it into a
buffer of `ci_get_serialize_size(col)` bytes, `ci_serialize` failing with
OB_SIZE_OVERFLOW at whichever field does not fit, and `Deserialize` reads
the bytes back.

### `ObSqlParseResult.tla` — ObSqlParseResult

A result's names (table, column, origin table, trace id, text ps name) are
ObStrings, `str[r][f] = [ptr, len]`, pointing into one of the result's own
buffers (`BufOf`: table and column share the `dml_buf_` /
`internal_select_buf_` union) or into a block of its ObArenaAllocator
(`arena[r]`, from `Blocks`). `mem` holds what each buffer or block
contains, `tpbuf[r]` is text_ps_buf_, `target[r]` the ObTargetDbServer it
holds, allocated from `Servers` (`alloc`, `srv`). `view` is a ghost: what
each getter should return, set by the load or copy that gave it.
- `Assign(a, b)` is the whole of `operator=` (lines 820-905): the buffers
  are copied, the names re-pointed into a's own buffers (`CopyStrs`), the
  text ps buffer freed and, when b has one, reallocated and copied (the
  allocation may find no free block), then the target copied, freed or
  op_alloc'ed (`CopyTarget`, which may fail with `ServerAllocMayFail`).
- `SetTextPsInfo(a, b)` is set_text_ps_info, `Release(r)` release and
  `Reset(r, resetOrigin)` reset, which empties every name and gives back
  the arena.
- `Load(r, ...)` stands for load_result and the setters a parse calls on a
  reset result; their code is not in `src/`, so it is written after the
  header's fields (`spec_modelled`).
- `ArenaFreeReleases`: whether ObArenaAllocator::free gives a block back.
  The allocator is outside the repository; an arena frees only on reset, so
  the cfg uses `{FALSE}`.

### MC modules

- `MCExprParser` defines:
  - the part keys: `id` is a level-ONE key at schema column 1 and `sub` a
    level-TWO key at schema column 0;
  - the written operands, including alias- and db-qualified forms, and a
    column of another table with the same name;
  - the predicate sets the cfgs choose from.
- `MCPartDescKey` defines the hash tables, the partition arrays and the
  garbage values. The cfg cannot write negative numbers, so those sets are
  defined here.
- `MCVipTenantAddr` defines the ips, ports, vids and VPC infos. `MCObList` defines the container handed to assign / deserialize;
  `MCVipTenantCache` adds nothing; `MCLogFileStruct` defines the descriptor
  range 0..4; `MCOracleDfm` defines the alphabet; `MCMySQLPackets` defines the byte
  strings used as names, auth responses and attributes.
- `MCObNewRow` gives the two values their serialized sizes (2 and 5
  bytes) and deep-copy data sizes (0 and 3 bytes). `MCObColumnInfo` gives
  indexes 3 and 200 and collations 45 and 224 (utf8mb4_unicode_ci).
- `MCObSqlParseResult` gives name lengths (1 and 2 bytes) and the trace
  ids, text ps names and route addresses a load chooses from.

## Runs

### Passing runs

**`expr_parser`** (`ExprParser.cfg`, about 110k states). It covers SELECT
and INSERT, AND chains, at most 2 predicates, columns, rows and items per
row, and `MaxRelationNum` 3.
- `RelationsImpliedByWhere` (deep). Every valuation of the key columns and
  placeholders that satisfies the written chain is admitted by the relations
  the decision engine reads. The engine unions EQ values and intersects
  ranges per key, and excludes ROW_ID relations. So, for the AND chains with
  constant IN lists this run enumerates, routing never loses a row (OR,
  placeholder IN lists and arithmetic are the retired runs below): a swap
  without reversing the operator, a wrong-key match or a lost relation all
  break it.
- `InsertRelationsMatchFirstRow`. Every VALUES relation is on a key whose
  column sits at that item's position in the first row.
- `AllRelationsPairColumnsWithValues`. After the first row, the i-th
  column's relation holds the i-th value.
- `TypeOK`.

**`part_desc_key`** (`PartDescKey.cfg`). Part_num is 4, a power of two.
- `RoutedPartitionsMatchSpec`. The i-th part id is what spec 4.3 computes
  from the i-th routed value. The spec's hash selection is written
  independently of the code's. The i-th tablet id is the tablet of the same
  index. The tablet array lags by one only after the failed push that
  stopped the request.
- `TypeOK`: part ids are non-negative.

**`ob_list`** (`ObList.cfg`, 44k states). Every call on a list of up to
three nodes, values a and b, allocation and decode failures.
- `ListWellLinked`: from `root_`, `next` and `prev` form one ring whose
  length is `size_`, and the allocator's pool is exactly the nodes not on
  it, so no node is both in use and free.
- `ObListImplementsSpec`: the list refines `ObListSpec`; in particular an
  iterator survives every insertion and removal of other elements, and a
  partial assign or deserialize leaves a prefix of the container.
- `TypeOK`.

**`vip_cache`** (`VipTenantCache.cfg`, 49k states). Two threads, one VIP,
three calls each of any kind.
- `NoTenantReadAfterDestroy`: get never copies a tenant that
  `update_cache_map` or `destroy` has freed in between, because the lookup
  and the copy are under the same read lock.
- `MapsHoldOnlyLiveTenants`: the maps hold no freed tenant and no tenant
  still owned by a caller, and no tenant is in both maps.
- `LiveMapFresh`: the live map holds only tenants set since the last
  refresh.
- `CallsReturn` (liveness): every call returns.
- `TypeOK`.

**`log_file`** (`LogFileStruct.cfg`, 1.1k states). Descriptors 0..4 with
0-2 on the terminal, two rotations, `::open` and `fstat` failing.
- `NoLeakedLogDescriptor`: every descriptor on a log or `.wf` file, other
  than the redirected stdout and stderr, is `fd_` or `wf_fd_`.
- `DescriptorsFollowReopen`: `fd_` and `wf_fd_`, when opened, refer to the
  file generation of the last successful reopen, whatever other code
  opened and closed in between.
- `TypeOK`.

**`oracle_dfm`** (`OracleDfm.cfg`, 579k states, about 3 minutes). Every string
of up to five characters over 14 characters.
- `ParseFormatTokenizes`: the parser splits by maximal munch (longest
  pattern, first in table order among equals), only split characters lie
  between elements, `is_single_dot_before_` is right, and a format is
  refused exactly at a character that starts no pattern. Maximal munch
  refuses "DDAY" (DD then "AY") although D then DAY would parse; this is
  the design, not a finding.
- `CheckSemanticEnforcesRules`: check_semantic accepts a parsed format, in
  each of the four modes, exactly when no flag repeats, no checked conflict
  group has two elements, FF only with fractional seconds, TZ elements
  only with a time zone, and TZM only with TZH.
- `IntValueReadsNumber`: match_int_value reads the leading digits, at most
  the expected length, with the by-length and RR/RRRR rules, and refuses
  with OB_OPERATE_OVERFLOW a number above INT32_MAX. The cfg sets
  `INT32_MAX` to 1221 so that four-digit strings cross it; the code's
  `INT32_MAX / 10` and `INT32_MAX % 10` test is taken over unchanged.
- `CommaValueReadsDigits`: match_int_value_with_comma consumes the longest
  prefix of digits and single commas that the declarative definition
  allows, and fails on a letter before enough digits.
- `SprintfFollowsFormatCase`: a name printed for a name element takes the
  case of the element as written (MON, Mon, mon), is padded, and is
  written only when a byte of the buffer stays free.

**`mysql_packets`** (`MySQLPackets.cfg`, about 139k states, under a minute).
It covers every subset of the six capability flags the codec reads, user
name, database and plugin name empty or "a", and auth responses empty,
"a", "\0a" and 251 bytes. Up to two attributes are added, including a
refused empty key. Each object is then decoded stage by stage. The EOF
counters are 258 (bytes 0x02 0x01, so byte order shows).
- `SerializeFillsSize`: serialize into a buffer of exactly
  get_serialize_size() bytes succeeds and fills it.
- `HandshakeRoundTrip`: decode of what serialize wrote succeeds, reads
  nothing past end, and returns every field the flags carry. This includes
  the connector/j probe at the database position, when an empty plugin name
  or an attribute length of 0 is the byte probed. It is stated for objects
  whose NUL-terminated fields hold no NUL, which that encoding cannot carry.
- `EofRoundTrip`: an EOF decodes to what was written, and a body one byte
  short or long is refused.

**`new_row`** (`ObNewRow.cfg`, 1.2M states, about 80 s). Rows of up to
two cells over two values, with or without a projector of up to two
indexes; three calls of any kind; a 40-byte deep-copy buffer, so that a
second copy may not fit.
- `DeserializeWithinArrays`: count_ and projector_size_ never exceed the
  arrays the caller allocated, also when a row is deserialized into twice
  and its count has shrunk.
- `DeserializeRestoresRow`: an OB_SUCCESS deserialize gives the row
  serialize wrote, by operator== and cell by cell, projector included.
- `DeepCopyWithinBuffer`: pos stays within the buffer, and a successful
  copy advances it by exactly get_deep_copy_size.
- `DeepCopyIsFaithful`: a successful copy has the source's cells and,
  when it has one, its projector.

**`sql_parse_result`** (`ObSqlParseResult.cfg`, 783k states, about 50 s).
Two results, two names, two arena blocks, two route servers, four calls of
load, operator= in either direction, set_text_ps_info, release and reset.
- `TargetServersOwned`: every ObTargetDbServer in use is held by exactly
  one result, and every held one is allocated, across copies from results
  with or without one and failed op_allocs.
- `CopiesAreIndependent`: every name of every result reads what its load or
  last copy gave it, also after the source is reloaded or reset; its route
  server has the address it copied.
- `TextPsNameInLiveMemory`: a non-empty text ps name points into a block
  its own arena holds.

### Violation runs

Each violation run is a finding; `PROJECT.json` has the details.

| Run | Property | What TLC shows |
|---|---|---|
| `vip_cache_leak` | `TenantsAccountedFor` | a second `set` of a cached VIP returns OB_SUCCESS without storing the tenant, which nobody owns from then on (line 254) |
| `vip_addr_stale` | `ValidAddrIsLastSet` | `set("10.0.0.1", 2883, -1)` (a VPC address), then `set(NULL, -1, -1)`: addr_ is reset but the type and vpc_info_ stay, so the address is still valid under its old identity and `get` would look up the old VPC's tenant (line 69) |
| `handshake_truncated` | `DecodeReadsWithinPacket` | with `CutShort`, a handshake body of 2-8 bytes has its 9 fixed bytes read past end; a body cut inside a NUL-terminated string is scanned past end by strlen (lines 56-66) |

Nine more disagreements were shown by runs that are not kept, for the
run budget; the hazards in `PROJECT.json` record them. With
`InsertColumns = {"id", "sub", "c"}`, `MaxColumns = 3` and
`MaxRelationNum = 3` in insert mode, the column list fills
all_relation_info_ and no VALUES item is paired (line 625). With
`PartNum = 3` and the three-element arrays of `MCPartDescKey`, a value
hashing to INT64_MIN stays negative after the abs and indexes the part
array at -2 (line 77). With
`InPreds <- MCInPlaceholderPreds`, `id IN (?, ?)` keeps only the first
placeholder (`add_token_list`), while the spec says an IN list carries every
value. With OR among the
connectors, `rowid = 'x' OR id = ?` routes by `id = ?` alone, because case 24
adds OR operands as case 23 adds AND operands. With `RelAllocMayFail`, a
swallowed allocation failure in add_left_relation_value shifts the
column/value pairing (lines 609-611). With arithmetic
predicates (`MCArithPreds`), `1 + id = 2` becomes `id = 2`, because
`get_relation` takes the key from `column_node_`. With descriptor 0 closed
at start (`InitClosed = {0}`), the log file lands on descriptor 0, which
`fd_ > STDERR_FILENO` treats as not open, so the next open or reopen leaks
it. `ObColumnInfoSize.cfg` violates `ColumnInfoRoundTrip`:
get_serialize_size counts a local cs_type of 0 (1 byte), so a collation of
128 or more (224) does not fit and serialize returns OB_SIZE_OVERFLOW (ob_row.cpp
line 45). `ObSqlParseResultTextPs.cfg` violates `TextPsNameFollowsCopy`:
load p1 with a text ps name, then `p1 = p2` from a fresh p2; operator=
frees p1's text_ps_buf_ but, p2 having none, leaves text_ps_name_ naming the
old statement (ob_proxy_sql_parser.h lines 866-880), in a block given to
free.

### Mutants

Each property of a passing run is broken by a plausible bug in a mapped
definition:

| Definition | Mutated form | Property broken |
|---|---|---|
| `get_reverse_func` | without the GT case | `RelationsImpliedByWhere` |
| `check_and_add_relation` | without the bound | `TypeOK` |
| `set_part_key_column_idx` | idx taken after the increment | `InsertRelationsMatchFirstRow` |
| `add_right_relation_value` | right_value_num_ not advanced | `AllRelationsPairColumnsWithValues` |
| `PartIdxOutcomes` | without the abs | `TypeOK` |
| `UseMurmur` | without the 4.0 disjunct | `RoutedPartitionsMatchSpec` |
| `Pop` | without the `0 >= size_` check | `TypeOK` (ObList) |
| `PushBackMem` | root_.prev linked before the old tail | `ListWellLinked` |
| `InsertMem` | inserts after the iterator | `ObListImplementsSpec` |
| `UpdateCacheMap` | advances vt_cache_map_ instead of toggling | `TypeOK` (VipTenantCache) |
| `GetLookup` | without the read lock | `NoTenantReadAfterDestroy` |
| `ClearMap` | destroys the entries but keeps them | `MapsHoldOnlyLiveTenants` |
| `UpdateCacheMap` | switches without clearing | `LiveMapFresh` |
| `SetInsert` | NULL-map path returns with the write lock held | `CallsReturn` |
| `ReopenResults` | tmp_fd stored in fd_ before the failure check | `TypeOK` (LogFileStruct) |
| `ReopenResults` | tmp_fd not closed after dup2 | `NoLeakedLogDescriptor` |
| `ReopenResults` | dup2 arguments swapped | `DescriptorsFollowReopen` |
| `WinnerFlag` | last match wins | `ParseFormatTokenizes` |
| `check_semantic` | without the TZM/TZH check | `CheckSemanticEnforcesRules` |
| `IntLoop` | one digit past the limit | `IntValueReadsNumber` |
| `IntLoop` | overflow tested on `temp * 10` without the next digit | `IntValueReadsNumber` |
| `CommaLoop` | keeps the comma before ",," | `CommaValueReadsDigits` |
| `CaseMode` | tests one capital before two | `SprintfFollowsFormatCase` |
| `get_serialize_size` | without the lenenc prefix of the attributes | `SerializeFillsSize` |
| `AttrIter` | `end - pos > value_len` | `HandshakeRoundTrip` |
| `eof_decode` | without the `pos != end` check | `EofRoundTrip` |
| `DecodeHalf` | `count > capacity + 1` refused instead of `> capacity` | `DeserializeWithinArrays` |
| `DecodeHalf` | the count read not stored before the items | `DeserializeRestoresRow` |
| `get_deep_copy_size` | without the projector | `DeepCopyWithinBuffer` |
| `deep_copy` | projector copied without its size | `DeepCopyIsFaithful` |
| `CopyTarget` | shares the source's target pointer | `TargetServersOwned` |
| `CopyStrs` | names left pointing into the source's buffers | `CopiesAreIndependent` |
| `Reset` | text_ps_name_ not reset | `TextPsNameInLiveMemory` |

## Bounds and why they are enough

**Parser.**
- Two predicates are enough for every binary interaction: connective
  precedence, placeholder numbering across predicates, and a second relation
  on the same key.
- Two columns, two rows and two items per row cover the first-row-only rule
  and the column/value pairing.
- `MaxRelationNum` 3 is small enough that BETWEEN and the column lists reach
  the limit; with `MaxColumns` equal to `MaxRelationNum` a column list
  reaches it exactly (see the retired runs above).
- Values are 0..2, so both sides of every comparison with 1 occur.

**Router.**
- Three calls per request.
- Cluster versions 3 and 4 with `PartFuncType` "KEY" (not KEY_V3 or
  KEY_IMPLICIT_V2), so version 3 hashes with `hash()` and version 4 with
  `hash_murmur()`: both hash functions are used.
- Part_num 4 in the passing run, and 3 (not a power of two) in the
  violation run.
- Hash values include INT64_MIN, negative, and positive values above
  part_num.

**ObList.** Three nodes allow a list of three with one node freed and
reused, an iterator on each position, and a failed allocation with nodes
left; two values make erase-by-value pick the first of two.

**VIP cache.** Two threads are enough for every reader/writer pair, one
VIP for a set to collide with a cached entry, and three calls per thread for
set, refresh and get to interleave in every order.

**Log file.** Five descriptors hold stdin/stdout/stderr, the log, the
`.wf` file and one descriptor of other code; two rotations let a reopen
replace a file that was itself a reopened one.

**Format models.** Five characters reach the longest patterns (Y,YYY), two
elements with a separator between them, every "," / ",," case of the comma
reader and digit runs longer than the expected lengths 0-5. The alphabet
holds the letters of the overlapping patterns (D/DD/DDD/DY,
Y/YY/YYY/YYYY/Y,YYY, MI/MM, FF/FF1/FF2, I/IY, TZH/TZM, AD/A.D., AM/A.M.) in
both cases where the case matters. Ten-digit numbers, and so the int32
overflow guard, are out of reach.

**MySQL packets.** Every combination of flags covers each auth encoding
and the flag precedence (lenenc over secure), and each field present or
absent. It also covers each field empty, since an empty field at the
database position is what the connector/j probe reads. Two attributes
place a value at the packet's last byte, both after another attribute and
alone. The 251-byte response takes the three-byte lenenc length. A
secure-only response of 256 bytes or more, where the uint8_t cast bites,
is out of reach: every state would carry a 256-byte sequence.

**ObNewRow.** Two cells and two projector entries are the least for a
projector that reorders, and for a count that shrinks from 2 to 1 when a
row is deserialized into twice. Three calls reach serialize, deserialize
and a second deserialize, or two deep copies into one buffer; 40 bytes
hold one copy of the largest row and not two. Serialized sizes 2 and 5
and data sizes 0 and 3 make a wrong length show as a wrong position.
ObColumnInfo needs one index of each varint length and one collation of
each.

**ObSqlParseResult.** Two results are the least for a copy; four calls
fit a load, a copy, and a reload or reset of the source after it, which is
when a shared pointer shows. Two blocks and two servers let both results
hold one, so that an allocation may also fail for want of one; name lengths
1 and 2 make a length copied from the wrong name show.

**VIP address.** Three setter calls are enough for a VPC set followed by a
bad-input set, and for a tenant set in between. Ips cover NULL, "", one that
parses and one that does not; ports one negative and one valid; vids -1 and
0; names lengths 0, 1 and 3 around a limit of 2; and the enum ends with one
value beyond each.

## Fairness

Only the VIP cache claims liveness. Its specification has weak fairness on
each thread's steps inside a call (`InCall(t)`): the OS keeps running a
runnable thread, and a thread blocked on `rwlock_` is not runnable, so
fairness does not let it pass the lock. Starting a call is not fair: a
caller may never call again. Under this, `CallsReturn` holds for bounded
calls; with readers arriving forever a writer could starve, which the
bounded model does not show.

The other models check safety only; their final stuttering actions keep
TLC from reporting a deadlock at the bound.

## Not modelled

- **LALR tables and lexer.** Predicates are reduced whole. Parenthesised
  sub-conditions (rule 25) and function operands are not enumerated.
- **Shard decision engine.** Only its headers are in `src/`; its reading of
  the relations appears in ExprParser's properties (spec 4.4). Of
  ObSqlParseResult, the statement-type predicates, ObFixSizeString,
  DbpRouteInfo and the parameter arrays are not modelled: they are read
  and written by code not in `src/`, and no copy changes them apart from
  field-by-field assignment.
- **ObVipAddr copy constructor** (ob_vip_tenant_cache.cpp lines 26-36):
  no modelled code copies an address that way.
- **ObLogItemFactory** (ob_async_log_struct.cpp lines 22-112): an allocator
  front end over a global pool.
- **Format model helpers** find_first_separator, match_chars_until_space,
  match_char, calc_max_len_of_patterns and the EXPECTED_MATCHING_LENGTH
  table: scanning helpers and a table whose users are not in `src/`.
- **ObNewRow::deep_copy into a row that has a projector** keeps the old
  projector when the source has none; `DeepCopyIsFaithful` states the
  projector only for sources that have one, as callers copy into a reset
  row. ob_row.h and ObObj are outside the repository, so get_count,
  get_cell and each cell's sizes are assumptions (see `ObNewRow.tla`).
- **is_obproxy_client_mod** (ompk_handshake_response.cpp lines 369-386): a
  read-only search of the attributes.
- **Compressor pool and LZ4 compressor**: a name lookup and a wrapper over
  the LZ4 library, which is not in the repository.
- **Event system init**: a version check and one-time initialisation.
- **Generated gRPC stubs.**
