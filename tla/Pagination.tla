----------------------------- MODULE Pagination -----------------------------
(***************************************************************************)
(* Limits and cursors (internal/platform/pagination/pagination.go), which  *)
(* no route uses yet, and what one page promises to the next request.      *)
(*                                                                         *)
(* A text is what TrimSpace, strconv.Atoi, base64 and JSON tell apart.  A  *)
(* time is counted from Go's zero time.                                    *)
(***************************************************************************)
EXTENDS Integers, Sequences, TLAPS

CONSTANTS
    MaxInt,       \* of the build: 2^63 - 1
    Characters,   \* of an id: well-formed, no white space
    JSONTimes     \* times of the years 0 to 9999, which time.Time can marshal

Blank == <<"blank", 0>>    \* empty or white space
Junk == <<"junk", 0>>      \* not a number; not base64 of a JSON cursor
LimitTexts == {Blank, Junk} \cup ({"number"} \X Int)

\* An id may hold a byte that is no UTF-8, for which JSON puts U+FFFD.
IDs == Seq(Characters \cup {"space", "invalid", "replacement"})
AsUTF8(id) == [i \in DOMAIN id |-> IF id[i] = "invalid" THEN "replacement" ELSE id[i]]
IsBlank(id) == \A i \in DOMAIN id : id[i] = "space"

Cursors == [createdAt : Int, id : IDs]
Repaired(cursor) == [createdAt |-> cursor.createdAt, id |-> AsUTF8(cursor.id)]
CursorTexts == {Blank, Junk} \cup ({"cursor"} \X [createdAt : JSONTimes, id : IDs])

Ok(value) == [err |-> "none", value |-> value]
Error(err) == [err |-> err]

-----------------------------------------------------------------------------

DefaultLimit == 50
MaxLimit == 100

\* A number that does not fit an int is an error for Atoi.
NormalizeLimit(text) ==
    IF text[1] = "blank" THEN Ok(DefaultLimit)
    ELSE IF text[1] = "junk" \/ text[2] < 1 \/ text[2] > MaxInt THEN Error("invalid limit")
    ELSE Ok(IF text[2] > MaxLimit THEN MaxLimit ELSE text[2])

ValidateCursor(cursor) == cursor.createdAt # 0 /\ ~IsBlank(cursor.id)

Encode(cursor) ==
    IF ~ValidateCursor(cursor) THEN Error("invalid cursor")
    ELSE IF cursor.createdAt \notin JSONTimes THEN Error("marshal")
    ELSE Ok(<<"cursor", Repaired(cursor)>>)

Decode(text) ==
    IF text[1] \in {"blank", "junk"} THEN Error("invalid cursor")
    ELSE IF ~ValidateCursor(text[2]) THEN Error("invalid cursor")
    ELSE Ok(text[2])

\* after is a pointer: nothing, or one cursor.
Parse(limitText, afterText) ==
    LET limit == NormalizeLimit(limitText)
        after == Decode(afterText)
    IN  IF limit.err # "none" THEN limit
        ELSE IF afterText[1] = "blank" THEN Ok([limit |-> limit.value, after |-> {}])
        ELSE IF after.err # "none" THEN after
        ELSE Ok([limit |-> limit.value, after |-> {after.value}])

NewPageInfo(hasMore, cursor) ==
    LET next == Encode(cursor)
    IN  IF ~hasMore THEN Ok([hasMore |-> FALSE, nextCursor |-> Blank])
        ELSE IF next.err # "none" THEN next
        ELSE Ok([hasMore |-> TRUE, nextCursor |-> next.value])

-----------------------------------------------------------------------------

\* Repairing an id neither makes it blank nor fills a blank one.
LEMMA BlankAsUTF8 ==
    ASSUME NEW id \in IDs
    PROVE  /\ AsUTF8(id) \in IDs
           /\ IsBlank(AsUTF8(id)) <=> IsBlank(id)
<1>1. AsUTF8(id) \in IDs
    BY DEF AsUTF8, IDs
<1>2. DOMAIN AsUTF8(id) = DOMAIN id
    BY DEF AsUTF8
<1>3. \A i \in DOMAIN id : AsUTF8(id)[i] = "space" <=> id[i] = "space"
    BY DEF AsUTF8
<1> QED
    BY <1>1, <1>2, <1>3 DEF IsBlank

\* What Encode makes of a cursor, Decode takes back to it, repaired.
LEMMA DecodeEncode ==
    ASSUME NEW cursor \in Cursors, Encode(cursor).err = "none"
    PROVE  /\ Encode(cursor).value \in CursorTexts
           /\ Encode(cursor).value[1] = "cursor"
           /\ Decode(Encode(cursor).value) = Ok(Repaired(cursor))
<1>1. ValidateCursor(cursor) /\ cursor.createdAt \in JSONTimes
    BY DEF Encode, Error
<1>2. Encode(cursor) = Ok(<<"cursor", Repaired(cursor)>>)
    BY <1>1 DEF Encode
<1>3. Repaired(cursor) \in [createdAt : JSONTimes, id : IDs]
    BY <1>1, BlankAsUTF8 DEF Cursors, Repaired
<1>4. ValidateCursor(Repaired(cursor))
    BY <1>1, BlankAsUTF8 DEF ValidateCursor, Cursors, Repaired
<1>5. <<"cursor", Repaired(cursor)>> \in CursorTexts
    BY <1>3 DEF CursorTexts
<1>6. Decode(<<"cursor", Repaired(cursor)>>) = Ok(Repaired(cursor))
    BY <1>4 DEF Decode
<1> QED
    BY <1>2, <1>5, <1>6 DEF Ok

\* Whatever limit a client sends, a list is asked for one to a hundred rows or
\* for none (NormalizeLimit): not zero, not a negative number, not all of them.
THEOREM LimitBounded ==
    ASSUME NEW text \in LimitTexts, NormalizeLimit(text).err = "none"
    PROVE  NormalizeLimit(text).value \in 1..MaxLimit
<1>1. CASE text[1] = "blank"
    BY <1>1 DEF NormalizeLimit, Ok, DefaultLimit, MaxLimit
<1>2. CASE text[1] # "blank"
    <2>1. ~(text[1] = "junk" \/ text[2] < 1 \/ text[2] > MaxInt)
        BY <1>2 DEF NormalizeLimit, Error
    <2>2. text[2] \in Int
        BY <1>2, <2>1 DEF LimitTexts, Blank, Junk
    <2>3. NormalizeLimit(text).value = IF text[2] > MaxLimit THEN MaxLimit ELSE text[2]
        BY <1>2, <2>1 DEF NormalizeLimit, Ok
    <2> QED
        BY <2>1, <2>2, <2>3 DEF MaxLimit
<1> QED
    BY <1>1, <1>2

\* The next_cursor of a page is always accepted as the after of the next
\* request, which then continues after this page's last row, the id repaired; a
\* last page's is none, and a client that sends it starts over.
THEOREM NextPageContinues ==
    ASSUME NEW cursor \in Cursors, NEW hasMore \in BOOLEAN, NEW text \in LimitTexts,
           NormalizeLimit(text).err = "none",
           NewPageInfo(hasMore, cursor).err = "none"
    PROVE  Parse(text, NewPageInfo(hasMore, cursor).value.nextCursor) =
              Ok([limit |-> NormalizeLimit(text).value,
                  after |-> IF hasMore THEN {Repaired(cursor)} ELSE {}])
<1>1. CASE ~hasMore
    BY <1>1 DEF NewPageInfo, Parse, Ok, Blank
<1>2. CASE hasMore
    <2>1. Encode(cursor).err = "none"
        BY <1>2 DEF NewPageInfo
    <2>2. NewPageInfo(hasMore, cursor).value.nextCursor = Encode(cursor).value
        BY <1>2, <2>1 DEF NewPageInfo, Ok
    <2>3. /\ Encode(cursor).value[1] = "cursor"
          /\ Decode(Encode(cursor).value) = Ok(Repaired(cursor))
        BY <2>1, DecodeEncode
    <2>4. Parse(text, Encode(cursor).value) =
             Ok([limit |-> NormalizeLimit(text).value, after |-> {Repaired(cursor)}])
        BY <2>3 DEF Parse, Ok
    <2> QED
        BY <1>2, <2>2, <2>4
<1> QED
    BY <1>1, <1>2

\* A cursor that was accepted can be handed out again: nothing a client sends
\* makes the page that follows it fail (Decode validates as Encode does).
THEOREM AcceptedCursorEncodes ==
    ASSUME NEW text \in CursorTexts, Decode(text).err = "none"
    PROVE  Encode(Decode(text).value).err = "none"
<1>1. text[1] = "cursor" /\ text[2].createdAt \in JSONTimes
    BY DEF Decode, Error, CursorTexts, Blank, Junk
<1>2. ValidateCursor(text[2]) /\ Decode(text).value = text[2]
    BY DEF Decode, Error, Ok
<1> QED
    BY <1>1, <1>2 DEF Encode, Ok
=============================================================================
