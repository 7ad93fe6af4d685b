------------------------------ MODULE OracleDfm ------------------------------
(***************************************************************************)
(* The Oracle datetime format model code of                                *)
(* src/lib/timezone/ob_oracle_format_models.cpp: the element table, the    *)
(* format-string parser (parse_datetime_format_string / parse_one_elem),   *)
(* the semantic check of a parsed format (check_semantic) and the integer *)
(* readers used when a date string is matched against a format            *)
(* (match_int_value, match_int_value_with_comma, check_int_value_length). *)
(*                                                                         *)
(* Strings are sequences of one-character strings.  The operators are    *)
(* the code's loops, written as recursion; each property compares them   *)
(* with a declarative definition of what they compute, for every string  *)
(* over a small alphabet up to a length bound (the variable s grows one   *)
(* character per step).                                                   *)
(*                                                                         *)
(* Helpers whose definitions are in the header, not in src/, are taken as *)
(* they are used here: is_split_char is "neither letter nor digit";      *)
(* skip_separate_chars skips a run of split characters;                  *)
(* match_pattern_ignore_case compares a prefix ignoring case;             *)
(* need_check_conflict(g) is g >= 0, the groups that index               *)
(* CONFLICT_GROUP_ERR (lines 163-176).                                   *)
(***************************************************************************)
EXTENDS Integers, Sequences, SequencesExt, TLC

CONSTANTS
    Alphabet,   \* characters of the strings checked
    MaxLen,     \* bound: length of the strings checked
    INT32_MAX   \* the largest int32_t; a run scales it to what MaxLen digits reach

VARIABLES
    s,       \* the string: a format, or the date text matched against one
    parsed   \* parse_datetime_format_string(s)

Digits == {"0", "1", "2", "3", "4", "5", "6", "7", "8", "9"}
DigitVal == [c \in Digits |-> CHOOSE n \in 0..9 : <<"0","1","2","3","4","5","6","7","8","9">>[n + 1] = c]
\* toupper / tolower on the letters the model uses.
CasePairs == {<<"a", "A">>, <<"d", "D">>, <<"f", "F">>, <<"h", "H">>, <<"m", "M">>,
              <<"n", "N">>, <<"o", "O">>, <<"y", "Y">>, <<"z", "Z">>}
Lower == {cp[1] : cp \in CasePairs}
Upper(c) == IF c \in Lower THEN (CHOOSE cp \in CasePairs : cp[1] = c)[2] ELSE c
LowerOf(c) == IF \E cp \in CasePairs : cp[2] = c THEN (CHOOSE cp \in CasePairs : cp[2] = c)[1] ELSE c
IsUpperCase(c) == c \in {"A","B","C","D","E","F","H","I","J","L","M","N","O",
                          "P","Q","R","S","T","W","X","Y","Z"}
IsLetter(c) == c \in Lower \/ IsUpperCase(c)
IsSplit(c) == ~IsLetter(c) /\ c \notin Digits

-----------------------------------------------------------------------------
(* The element table, lines 36-239.  Flags are the C enum values 0..59.  *)

PatternList == <<
    <<"A","D">>, <<"A",".","D",".">>, <<"B","C">>, <<"B",".","C",".">>,
    <<"C","C">>, <<"S","C","C">>, <<"D">>, <<"D","A","Y">>, <<"D","D">>,
    <<"D","D","D">>, <<"D","Y">>, <<"F","F","1">>, <<"F","F","2">>,
    <<"F","F","3">>, <<"F","F","4">>, <<"F","F","5">>, <<"F","F","6">>,
    <<"F","F","7">>, <<"F","F","8">>, <<"F","F","9">>, <<"F","F">>,
    <<"H","H">>, <<"H","H","2","4">>, <<"H","H","1","2">>, <<"I","W">>,
    <<"I">>, <<"I","Y">>, <<"I","Y","Y">>, <<"I","Y","Y","Y">>, <<"M","I">>,
    <<"M","M">>, <<"M","O","N","T","H">>, <<"M","O","N">>, <<"A","M">>,
    <<"A",".","M",".">>, <<"P","M">>, <<"P",".","M",".">>, <<"Q">>,
    <<"R","R">>, <<"R","R","R","R">>, <<"S","S">>, <<"S","S","S","S","S">>,
    <<"W","W">>, <<"W">>, <<"Y",",","Y","Y","Y">>, <<"Y","E","A","R">>,
    <<"S","Y","E","A","R">>, <<"Y","Y","Y","Y">>, <<"S","Y","Y","Y","Y">>,
    <<"Y","Y","Y">>, <<"Y","Y">>, <<"Y">>, <<"D","S">>, <<"D","L">>,
    <<"T","Z","H">>, <<"T","Z","M">>, <<"T","Z","D">>, <<"T","Z","R">>,
    <<"X">>, <<"J">> >>

Flags == 0..59
PATTERN(f) == PatternList[f + 1]

FF1 == 11
FF == 20
RR == 38
RRRR == 39
TZH == 54
TZM == 55
TZD == 56
TZR == 57
AD == 0
AD2 == 1
BC == 2
BC2 == 3
DAY == 7
DY == 10
MONTH == 31
MON == 32
AM == 33
AM2 == 34
PM == 35
PM2 == 36

\* Conflict groups: the eight that index CONFLICT_GROUP_ERR, in its order,
\* and the two that are never checked.
NEVER == 0
YEARG == 1
MERIDIAN == 2
WEEKDAY == 3
ERA == 4
HOUR == 5
MONTHG == 6
DOY == 7
NONCONFLICT == -1
RUNTIME == -2

GroupList == <<
    ERA, ERA, ERA, ERA, NEVER, NEVER, WEEKDAY, WEEKDAY, NONCONFLICT, DOY,
    WEEKDAY, NONCONFLICT, NONCONFLICT, NONCONFLICT, NONCONFLICT, NONCONFLICT,
    NONCONFLICT, NONCONFLICT, NONCONFLICT, NONCONFLICT, NONCONFLICT,
    HOUR, HOUR, HOUR, NEVER, NEVER, NEVER, NEVER, NEVER, NONCONFLICT,
    MONTHG, MONTHG, MONTHG, MERIDIAN, MERIDIAN, MERIDIAN, MERIDIAN,
    NONCONFLICT, YEARG, YEARG, NONCONFLICT, RUNTIME, NEVER, NEVER, YEARG,
    NEVER, NEVER, YEARG, YEARG, YEARG, YEARG, YEARG, RUNTIME, RUNTIME,
    RUNTIME, RUNTIME, RUNTIME, RUNTIME, NONCONFLICT, DOY >>
CONFLICT_GROUP_MAP(f) == GroupList[f + 1]

CONFLICT_GROUP_ERR == <<
    "FORMAT_CODE_CANNOT_APPEAR", "YEAR_MAY_ONLY_BE_SPECIFIED_ONCE",
    "AM_PM_CONFLICTS_WITH_USE_OF_AM_DOT_PM_DOT",
    "DAY_OF_WEEK_SPECIFIED_MORE_THAN_ONCE",
    "BC_AD_CONFLICT_WITH_USE_OF_BC_DOT_AD_DOT",
    "HOUR_MAY_ONLY_BE_SPECIFIED_ONCE", "MONTH_MAY_ONLY_BE_SPECIFIED_ONCE",
    "JULIAN_DATE_PRECLUDES_USE_OF_DAY_OF_YEAR" >>

need_check_conflict(g) == g >= 0

-----------------------------------------------------------------------------
(* Parsing a format string, lines 426-531.                                 *)

\* match_pattern_ignore_case at position p (1-based).
MatchAt(str, p, pat) ==
    /\ p + Len(pat) - 1 <= Len(str)
    /\ \A i \in 1..Len(pat) : Upper(str[p + i - 1]) = pat[i]

\* The flags whose pattern matches at p.
Matching(str, p) == {f \in Flags : MatchAt(str, p, PATTERN(f))}

NoMatch == [flag |-> -1, len |-> 0]

\* Variant of the flag loop without the `max_matched_len <` comparison:
\* the last matching pattern in table order wins.
WinnerFlag_last(str, p) ==
    LET M == Matching(str, p)
    IN IF M = {} THEN NoMatch
       ELSE LET f == CHOOSE g \in M : \A h \in M : h <= g
            IN [flag |-> f, len |-> Len(PATTERN(f))]

\* parse_one_elem, lines 468-476: the loop over flag = 0 ..
\* MAX_FLAG_NUMBER - 1 takes a matching pattern only when it is longer
\* than the best so far, so the winner is the longest match, the first in
\* table order among equally long ones.
WinnerFlag(str, p) ==
    LET M == Matching(str, p)
        best == {f \in M : \A h \in M : Len(PATTERN(h)) <= Len(PATTERN(f))}
    IN IF M = {} THEN NoMatch
       ELSE LET f == CHOOSE g \in best : \A h \in best : g <= h
            IN [flag |-> f, len |-> Len(PATTERN(f))]

\* skip_separate_chars: the length of the run of split characters at p.
RECURSIVE SkipLen(_, _)
SkipLen(str, p) == IF p <= Len(str) /\ IsSplit(str[p]) THEN 1 + SkipLen(str, p + 1) ELSE 0

\* Variant of the case adjustment that tests the first character alone
\* before testing the first two.
CaseMode_first_check(str, q, f) ==
    CASE f \in {MON, MONTH, DAY, DY, AM, PM, AD, BC} ->
             IF IsUpperCase(str[q]) THEN "ONLY_FIRST_CHARACTER"
             ELSE IF IsUpperCase(str[q]) /\ IsUpperCase(str[q + 1]) THEN "ALL_CHARACTER"
             ELSE "NON_CHARACTER"
      [] f \in {AM2, PM2, AD2, BC2} ->
             IF IsUpperCase(str[q]) THEN "ALL_CHARACTER" ELSE "NON_CHARACTER"
      [] OTHER -> "UNSET"

\* The upper-case adjustment of parse_one_elem, lines 478-513, for the
\* winner f at q: names follow the case of their first two characters,
\* the dotted forms that of the first.  (The remain_len_ checks cannot
\* fail: the pattern matched, so at least its length remains.)  Other
\* elements keep the mode they were constructed with.
CaseMode(str, q, f) ==
    CASE f \in {MON, MONTH, DAY, DY, AM, PM, AD, BC} ->
             IF IsUpperCase(str[q]) /\ IsUpperCase(str[q + 1]) THEN "ALL_CHARACTER"
             ELSE IF IsUpperCase(str[q]) THEN "ONLY_FIRST_CHARACTER"
             ELSE "NON_CHARACTER"
      [] f \in {AM2, PM2, AD2, BC2} ->
             IF IsUpperCase(str[q]) THEN "ALL_CHARACTER" ELSE "NON_CHARACTER"
      [] OTHER -> "UNSET"

\* parse_datetime_format_string, lines 435-452: skip separators, parse one
\* element, push it, until the string is consumed or an element fails
\* (OB_INVALID_DATE_FORMAT).  Elements are [flag, offset, dot]; dot is
\* is_single_dot_before_.
RECURSIVE ParseLoop(_, _, _)
ParseLoop(str, p, elems) ==
    LET skipped == SkipLen(str, p)
        q == p + skipped
        w == WinnerFlag(str, q)
    IN IF q > Len(str) THEN [ok |-> TRUE, elems |-> elems]
       ELSE IF w.flag = -1 THEN [ok |-> FALSE, elems |-> elems]
       ELSE ParseLoop(str, q + w.len,
                      Append(elems, [flag |-> w.flag, offset |-> q - 1,
                                     upper |-> CaseMode(str, q, w.flag),
                                     dot |-> q > 1 /\ skipped = 1 /\ str[q - 1] = "."]))

parse_datetime_format_string(str) == ParseLoop(str, 1, <<>>)

-----------------------------------------------------------------------------
(* check_semantic, lines 589-664, for a mode with or without fractional   *)
(* seconds (HAS_TYPE_ORACLE) and time zone (HAS_TYPE_TIMEZONE).            *)

Modes == [oracle : BOOLEAN, tz : BOOLEAN]

\* The loop of lines 596-652: the error of the first element that breaks a
\* rule, or success with the set of flags seen (flag_bitmap).
RECURSIVE SemanticLoop(_, _, _, _, _)
SemanticLoop(elems, mode, i, bitmap, groups) ==
    IF i > Len(elems) THEN [ret |-> "OB_SUCCESS", bitmap |-> bitmap]
    ELSE LET f == elems[i].flag
             g == CONFLICT_GROUP_MAP(f)
             Fail(e) == [ret |-> e, bitmap |-> bitmap]
         IN CASE f >= FF1 /\ f <= FF /\ ~mode.oracle -> Fail("INVALID_DATE_FORMAT")
              [] ~mode.tz /\ f \in {TZD, TZR, TZH, TZM} -> Fail("INVALID_DATE_FORMAT")
              [] f \in bitmap -> Fail("FORMAT_CODE_APPEARS_TWICE")
              [] need_check_conflict(g) /\ g \in groups -> Fail(CONFLICT_GROUP_ERR[g + 1])
              [] OTHER -> SemanticLoop(elems, mode, i + 1, bitmap \cup {f},
                                       IF need_check_conflict(g) THEN groups \cup {g} ELSE groups)

\* Variant without the TZM-needs-TZH check after the loop.
check_semantic_no_tzm(elems, mode) == SemanticLoop(elems, mode, 1, {}, {}).ret

\* check_semantic, lines 589-664: the loop, then TZM without TZH is refused.
check_semantic(elems, mode) ==
    LET r == SemanticLoop(elems, mode, 1, {}, {})
    IN IF r.ret = "OB_SUCCESS" /\ TZM \in r.bitmap /\ TZH \notin r.bitmap
       THEN "INVALID_DATE_FORMAT" ELSE r.ret

-----------------------------------------------------------------------------
(* special_mode_sprintf, lines 533-587: writes str at pos of a buffer of   *)
(* bufLen bytes in the element's case mode, padded with spaces to        *)
(* padding.  Returns the return code, the bytes written and the new pos.  *)

CaseChar(mode, i, c) ==
    CASE ~IsLetter(c) -> c
      [] mode = "ALL_CHARACTER" -> Upper(c)
      [] mode = "ONLY_FIRST_CHARACTER" -> IF i = 1 THEN Upper(c) ELSE LowerOf(c)
      [] OTHER -> LowerOf(c)

special_mode_sprintf(str, mode, padding, pos, bufLen) ==
    LET width == IF padding > 0 THEN padding ELSE Len(str)
        \* an unknown mode fails at the first letter, after what precedes it
        bad == {i \in 1..Len(str) : IsLetter(str[i])}
        stop == IF mode \in {"ALL_CHARACTER", "ONLY_FIRST_CHARACTER", "NON_CHARACTER"} \/ bad = {}
                THEN 0 ELSE CHOOSE i \in bad : \A j \in bad : i <= j
        out == [i \in 1..Len(str) |-> CaseChar(mode, i, str[i])]
               \o [i \in 1..(padding - Len(str)) |-> " "]
    IN CASE Len(str) <= 0 \/ (padding > 0 /\ padding < Len(str)) ->
              [ret |-> "INVALID_ARGUMENT", out |-> <<>>, pos |-> pos]
         [] pos + width >= bufLen ->
              [ret |-> "SIZE_OVERFLOW", out |-> <<>>, pos |-> pos]
         [] stop > 0 ->
              [ret |-> "INVALID_ARGUMENT", out |-> SubSeq(str, 1, stop - 1), pos |-> pos + stop - 1]
         [] OTHER -> [ret |-> "OB_SUCCESS", out |-> out, pos |-> pos + Len(out)]

-----------------------------------------------------------------------------
(* Reading integers from a date string, lines 263-319 and 355-424.  byLen *)
(* is ctx.is_matching_by_expected_len_, rr that the expected element is RR *)
(* or RRRR.                                                                *)

\* check_int_value_length, lines 355-377.
check_int_value_length(byLen, rr, expected, real) ==
    IF ~byLen THEN "OB_SUCCESS"
    ELSE IF (IF rr THEN real \in {2, 4} ELSE expected <= 0 \/ real = expected)
         THEN "OB_SUCCESS" ELSE "INVALID_DATE_VALUE"

\* Variant of the digit loop's overflow guard without the digit
\* (`temp_value * 10LL > INT32_MAX`).
RECURSIVE IntLoop_no_digit(_, _, _, _)
IntLoop_no_digit(str, maxLen, real, temp) ==
    IF real < maxLen /\ str[real + 1] \in Digits
    THEN LET d == DigitVal[str[real + 1]]
         IN IF temp * 10 > INT32_MAX THEN [ret |-> "OPERATE_OVERFLOW", real |-> real, temp |-> temp]
            ELSE IntLoop_no_digit(str, maxLen, real + 1, temp * 10 + d)
    ELSE [ret |-> "OB_SUCCESS", real |-> real, temp |-> temp]

\* Variant of the digit loop of match_int_value that reads one digit past
\* min(remain_len_, expected_len) (off by one).
RECURSIVE IntLoop_over(_, _, _, _)
IntLoop_over(str, maxLen, real, temp) ==
    IF real <= maxLen /\ real < Len(str) /\ str[real + 1] \in Digits
    THEN LET d == DigitVal[str[real + 1]]
         IN IF temp * 10 > INT32_MAX - d THEN [ret |-> "OPERATE_OVERFLOW", real |-> real, temp |-> temp]
            ELSE IntLoop_over(str, maxLen, real + 1, temp * 10 + d)
    ELSE [ret |-> "OB_SUCCESS", real |-> real, temp |-> temp]

\* match_int_value, lines 400-412: digits while fewer than
\* min(remain_len_, expected_len), stopping before int32 overflow.
RECURSIVE IntLoop(_, _, _, _)
IntLoop(str, maxLen, real, temp) ==
    IF real < maxLen /\ str[real + 1] \in Digits
    THEN LET d == DigitVal[str[real + 1]]
         IN IF temp * 10 > INT32_MAX - d THEN [ret |-> "OPERATE_OVERFLOW", real |-> real, temp |-> temp]
            ELSE IntLoop(str, maxLen, real + 1, temp * 10 + d)
    ELSE [ret |-> "OB_SUCCESS", real |-> real, temp |-> temp]

\* match_int_value, lines 379-424 (value_sign 1).
match_int_value(str, expected, byLen, rr) ==
    IF Len(str) = 0 \/ expected < 0 THEN [ret |-> "INVALID_ARGUMENT", len |-> 0, value |-> 0]
    ELSE IF str[1] \notin Digits THEN [ret |-> "NON_NUMERIC_CHARACTER_VALUE", len |-> 0, value |-> 0]
    ELSE LET r == IntLoop(str, IF Len(str) < expected THEN Len(str) ELSE expected, 0, 0)
             c == check_int_value_length(byLen, rr, expected, r.real)
         IN IF r.ret # "OB_SUCCESS" THEN [ret |-> r.ret, len |-> 0, value |-> 0]
            ELSE IF c # "OB_SUCCESS" THEN [ret |-> c, len |-> 0, value |-> 0]
            ELSE [ret |-> "OB_SUCCESS", len |-> r.real, value |-> r.temp]

\* Variant of the comma loop that keeps the first comma of a ",," pair
\* (no --real_data_len).
RECURSIVE CommaLoop_keep_comma(_, _, _, _, _, _)
CommaLoop_keep_comma(str, expected, real, digits, commas, temp) ==
    IF real >= Len(str) \/ digits >= expected
    THEN [ret |-> "OB_SUCCESS", real |-> real, temp |-> temp]
    ELSE LET c == str[real + 1]
         IN CASE c = "," /\ commas + 1 = 2 -> [ret |-> "OB_SUCCESS", real |-> real, temp |-> temp]
              [] c = "," -> CommaLoop_keep_comma(str, expected, real + 1, digits, commas + 1, temp)
              [] IsSplit(c) -> [ret |-> "OB_SUCCESS", real |-> real, temp |-> temp]
              [] c \notin Digits -> [ret |-> "NON_NUMERIC_CHARACTER_VALUE", real |-> real, temp |-> temp]
              [] OTHER -> CommaLoop_keep_comma(str, expected, real + 1, digits + 1, 0, temp * 10 + DigitVal[c])

\* match_int_value_with_comma, lines 279-309: digits and single commas; a
\* second comma in a row stops before the first one, a split character
\* stops, anything else is an error.
RECURSIVE CommaLoop(_, _, _, _, _, _)
CommaLoop(str, expected, real, digits, commas, temp) ==
    IF real >= Len(str) \/ digits >= expected
    THEN [ret |-> "OB_SUCCESS", real |-> real, temp |-> temp]
    ELSE LET c == str[real + 1]
         IN CASE c = "," /\ commas + 1 = 2 -> [ret |-> "OB_SUCCESS", real |-> real - 1, temp |-> temp]
              [] c = "," -> CommaLoop(str, expected, real + 1, digits, commas + 1, temp)
              [] IsSplit(c) -> [ret |-> "OB_SUCCESS", real |-> real, temp |-> temp]
              [] c \notin Digits -> [ret |-> "NON_NUMERIC_CHARACTER_VALUE", real |-> real, temp |-> temp]
              [] OTHER -> CommaLoop(str, expected, real + 1, digits + 1, 0, temp * 10 + DigitVal[c])

\* match_int_value_with_comma, lines 263-319.
match_int_value_with_comma(str, expected, byLen, rr) ==
    IF Len(str) = 0 THEN [ret |-> "INVALID_ARGUMENT", len |-> 0, value |-> 0]
    ELSE LET r == CommaLoop(str, expected, 0, 0, 0, 0)
             c == check_int_value_length(byLen, rr, expected, r.real)
         IN IF r.ret # "OB_SUCCESS" THEN [ret |-> r.ret, len |-> 0, value |-> 0]
            ELSE IF c # "OB_SUCCESS" THEN [ret |-> c, len |-> 0, value |-> 0]
            ELSE [ret |-> "OB_SUCCESS", len |-> r.real, value |-> r.temp]

-----------------------------------------------------------------------------
(* Every string over Alphabet up to MaxLen characters.                     *)

Init == s = <<>> /\ parsed = parse_datetime_format_string(<<>>)

Extend ==
    /\ Len(s) < MaxLen
    /\ \E c \in Alphabet : s' = Append(s, c)
    /\ parsed' = parse_datetime_format_string(s')

Done == Len(s) = MaxLen /\ UNCHANGED <<s, parsed>>

Next == Extend \/ Done

Spec == Init /\ [][Next]_<<s, parsed>>

-----------------------------------------------------------------------------
(* What the parser and the matchers compute, stated without their loops.  *)

\* The value of a string of digits.
Num(str) == FoldLeft(LAMBDA a, c : a * 10 + DigitVal[c], 0, str)

\* The 1-based position after element i (0 before the first element).
ElemEnd(elems, i) == IF i = 0 THEN 0 ELSE elems[i].offset + Len(PATTERN(elems[i].flag))

\* parse_datetime_format_string splits the format by maximal munch: every
\* element's pattern is at its offset, it is the longest pattern there and
\* the first in table order among the longest, only split characters lie
\* between elements, and is_single_dot_before_ holds exactly when the gap
\* before the element is one '.'.  The format is refused exactly when,
\* after the elements so read and the split characters after them, a
\* character starts no pattern.  (Maximal munch refuses some formats that
\* another split would accept: "DDAY" is DD then an unknown "AY", not D
\* then DAY.)
ParseFormatTokenizes ==
    LET r == parsed
        e == r.elems
        n == Len(e)
        gapEnd == IF r.ok THEN Len(s)
                  ELSE CHOOSE q \in ElemEnd(e, n) + 1..Len(s) : ~IsSplit(s[q])
    IN /\ \A i \in 1..n :
            LET p == e[i].offset + 1
                len == Len(PATTERN(e[i].flag))
            IN /\ MatchAt(s, p, PATTERN(e[i].flag))
               /\ \A f \in Flags : MatchAt(s, p, PATTERN(f)) =>
                      Len(PATTERN(f)) < len \/ (Len(PATTERN(f)) = len /\ f >= e[i].flag)
               /\ e[i].dot <=> (e[i].offset - ElemEnd(e, i - 1) = 1 /\ s[e[i].offset] = ".")
       /\ \A i \in 1..n + 1 :
            \A q \in ElemEnd(e, i - 1) + 1 .. (IF i <= n THEN e[i].offset ELSE gapEnd - 1) :
                IsSplit(s[q])
       /\ ~r.ok => \A f \in Flags : ~MatchAt(s, gapEnd, PATTERN(f))

\* A format passes check_semantic in a mode exactly when no flag occurs
\* twice, no two elements share a conflict group that is checked,
\* fractional seconds occur only for oracle timestamp types, time zone
\* elements only for types with a time zone, and TZM only with TZH.
SemanticallyValid(elems, mode) ==
    LET fl == {elems[i].flag : i \in 1..Len(elems)}
    IN /\ \A i, j \in 1..Len(elems) : i # j =>
              /\ elems[i].flag # elems[j].flag
              /\ need_check_conflict(CONFLICT_GROUP_MAP(elems[i].flag)) =>
                     CONFLICT_GROUP_MAP(elems[i].flag) # CONFLICT_GROUP_MAP(elems[j].flag)
       /\ mode.oracle \/ \A f \in fl : f < FF1 \/ f > FF
       /\ mode.tz \/ fl \cap {TZD, TZR, TZH, TZM} = {}
       /\ TZM \in fl => TZH \in fl

\* check_semantic accepts a parsed format in a mode if and only if it is
\* semantically valid there.
CheckSemanticEnforcesRules ==
    LET r == parsed
    IN r.ok => \A m \in Modes :
                   (check_semantic(r.elems, m) = "OB_SUCCESS") <=> SemanticallyValid(r.elems, m)

\* The length a by-length match must have (check_int_value_length).
LengthOk(byLen, rr, k, n) == ~byLen \/ (IF rr THEN n \in {2, 4} ELSE k = 0 \/ n = k)

\* The number of leading digits of str, at most k.
DigitRun(str, k) ==
    CHOOSE n \in 0..Len(str) :
        /\ n <= k
        /\ \A i \in 1..n : str[i] \in Digits
        /\ n = k \/ n = Len(str) \/ str[n + 1] \notin Digits

\* match_int_value reads the leading digits of the input, at most the
\* expected length of them, and returns their value; it fails on an
\* input that does not start with a digit, with OB_OPERATE_OVERFLOW on a
\* run whose value does not fit an int32_t (checked before the length),
\* and, when matching by expected length, on a run of the wrong length.
IntValueReadsNumber ==
    \A k \in 0..MaxLen, byLen, rr \in BOOLEAN :
        LET r == match_int_value(s, k, byLen, rr)
            n == DigitRun(s, k)
            numeric == Len(s) > 0 /\ s[1] \in Digits
        IN CASE numeric /\ Num(SubSeq(s, 1, n)) > INT32_MAX -> r.ret = "OPERATE_OVERFLOW"
             [] numeric /\ LengthOk(byLen, rr, k, n) ->
                  r.ret = "OB_SUCCESS" /\ r.len = n /\ r.value = Num(SubSeq(s, 1, n))
             [] OTHER -> r.ret # "OB_SUCCESS"

Digs(str) == SelectSeq(str, LAMBDA c : c \in Digits)

\* A prefix match_int_value_with_comma may consume: digits and single
\* commas, at most k digits ending in a digit once k are read, and not a
\* comma that starts a ",," in the input.
CommaPrefixOk(str, k, n) ==
    LET P == SubSeq(str, 1, n)
    IN /\ \A i \in 1..n : P[i] \in Digits \cup {","}
       /\ \A i \in 1..n - 1 : ~(P[i] = "," /\ P[i + 1] = ",")
       /\ Len(Digs(P)) <= k
       /\ Len(Digs(P)) = k => n = 0 \/ P[n] \in Digits
       /\ n > 0 /\ n < Len(str) /\ P[n] = "," => str[n + 1] # ","

\* match_int_value_with_comma consumes the longest such prefix and returns
\* the value of its digits; it fails when a letter follows the prefix
\* before k digits are read, and, by expected length, on a wrong length.
CommaValueReadsDigits ==
    \A k \in 0..MaxLen, byLen, rr \in BOOLEAN :
        LET r == match_int_value_with_comma(s, k, byLen, rr)
            n == CHOOSE m \in 0..Len(s) : /\ CommaPrefixOk(s, k, m)
                                          /\ \A m2 \in m + 1..Len(s) : ~CommaPrefixOk(s, k, m2)
            stuck == n < Len(s) /\ Len(Digs(SubSeq(s, 1, n))) < k /\ IsLetter(s[n + 1])
        IN IF Len(s) > 0 /\ ~stuck /\ LengthOk(byLen, rr, k, n)
           THEN r.ret = "OB_SUCCESS" /\ r.len = n /\ r.value = Num(Digs(SubSeq(s, 1, n)))
           ELSE r.ret # "OB_SUCCESS"

\* Names and meridian / era strings as a caller may pass them to
\* special_mode_sprintf, in mixed case.
Names == {<<"M", "a", "y">>, <<"m", "A", "Y">>, <<"A", ".", "m", ".">>}

CaseFlags == {MON, MONTH, DAY, DY, AM, PM, AD, BC, AM2, PM2, AD2, BC2}

\* A name printed for a format element (parse_one_elem's case mode handed
\* to special_mode_sprintf) takes the case of the element as written: all
\* lower case when the element starts in lower case, all upper case when
\* it starts with two upper-case letters (one for A.M., P.M., A.D., B.C.),
\* otherwise a capital then lower case.  The output is padded with spaces
\* to the padding and is written only when it leaves a byte of the buffer
\* free.
SprintfFollowsFormatCase ==
    LET r == parsed
    IN r.ok =>
       \A i \in 1..Len(r.elems), name \in Names, pad \in {0, 4, 5}, pos \in 0..1, bl \in 4..6 :
          LET e == r.elems[i]
              q == e.offset + 1
              w == special_mode_sprintf(name, e.upper, pad, pos, bl)
              width == IF pad > Len(name) THEN pad ELSE Len(name)
              dotted == e.flag \in {AM2, PM2, AD2, BC2}
              Want(j, c) ==
                  CASE ~IsLetter(c) -> c
                    [] ~IsUpperCase(s[q]) -> LowerOf(c)
                    [] dotted \/ IsUpperCase(s[q + 1]) -> Upper(c)
                    [] j = 1 -> Upper(c)
                    [] OTHER -> LowerOf(c)
          IN e.flag \in CaseFlags /\ ~(pad > 0 /\ pad < Len(name)) =>
               /\ w.ret = "OB_SUCCESS" <=> pos + width < bl
               /\ w.ret = "OB_SUCCESS" =>
                    /\ w.pos = pos + width /\ Len(w.out) = width
                    /\ \A j \in 1..Len(name) : w.out[j] = Want(j, name[j])
                    /\ \A j \in Len(name) + 1..width : w.out[j] = " "

====
