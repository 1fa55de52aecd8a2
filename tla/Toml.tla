--------------------------------- MODULE Toml ---------------------------------
(***************************************************************************)
(* The parser of the configuration (TOMLParser's toml_parser.hpp, is.hpp,  *)
(* get.hpp), which Runs::parse_runs gives the whole file.                  *)
(*                                                                         *)
(* A text is a sequence of characters, each a string of length one; a      *)
(* stream is a text and a position.  The read_ functions give a value's    *)
(* text back, the parse_ functions its value, tagged with its type; either *)
(* throws instead.  Two more outcomes are no exceptions: an endless loop   *)
(* ("hangs") and the use of a null pointer or of an element that is not    *)
(* there ("crashes").  An integer that nothing was written to is Garbage.  *)
(* Escapes by a character's code (\u, \U) are left out.                    *)
(*                                                                         *)
(* (X_Fault is X, defined after it, as a plausible bug would have it.)     *)
(***************************************************************************)
EXTENDS Integers, FiniteSets, SequencesExt

Eof == "eof"
Peek(t, p) == IF p <= Len(t) THEN t[p] ELSE Eof

Ok(val, at) == [out |-> "ok", val |-> val, at |-> at]
Throws == [out |-> "throws", val |-> << >>, at |-> 0]
Hangs == [out |-> "hangs", val |-> << >>, at |-> 0]
Crashes == [out |-> "crashes", val |-> << >>, at |-> 0]

Then(result, next(_)) == IF result.out = "ok" THEN next(result) ELSE result

Digits == <<"0", "1", "2", "3", "4", "5", "6", "7", "8", "9">>
IsDigit(c) == c \in Range(Digits)
BareKeyChars ==
    Range(Digits) \cup {"_", "-"}
      \cup {"a", "b", "c", "d", "e", "f", "g", "h", "i", "j", "k", "l", "m", "n", "o", "p", "q",
            "r", "s", "t", "u", "v", "w", "x", "y", "z", "E", "T", "Z"}
Whitespace == {" ", "\t"}

(***************************************************************************)
(* Skipping                                                                *)
(***************************************************************************)
(* The first position from p on at which the set no longer goes on.        *)
After(t, p, chars) == Min({q \in p .. Len(t) + 1 : Peek(t, q) \notin chars})
SkipWhitespace(t, p) == After(t, p, Whitespace)

NewlineLen(t, p) ==
    IF Peek(t, p) = "\n" THEN 1
    ELSE IF Peek(t, p) = "\r" /\ Peek(t, p + 1) = "\n" THEN 2 ELSE 0

SkipComment(t, p) ==
    LET end == Min({q \in p .. Len(t) + 1 : NewlineLen(t, q) > 0 \/ Peek(t, q) = Eof})
    IN end + NewlineLen(t, end)

RECURSIVE SkipIgnorable(_, _)
SkipIgnorable(t, p) ==
    IF Peek(t, p) \in Whitespace THEN SkipIgnorable(t, SkipWhitespace(t, p))
    ELSE IF NewlineLen(t, p) > 0 THEN SkipIgnorable(t, p + NewlineLen(t, p))
    ELSE IF Peek(t, p) = "#" THEN SkipIgnorable(t, SkipComment(t, p))
    ELSE p

(***************************************************************************)
(* Strings.  A quote is escaped by the character before it alone: a string *)
(* that ends in an escaped backslash does not end there.                   *)
(***************************************************************************)
Escaped(t, q) == t[q] = "\"" /\ t[q - 1] = "\\"
IsMultiLine(t, p) == Peek(t, p + 1) = t[p] /\ Peek(t, p + 2) = t[p]

Closing(t, p) ==
    IF IsMultiLine(t, p)
    THEN {q \in p + 5 .. Len(t) :
            /\ \A i \in q - 2 .. q : t[i] = t[p]
            /\ ~ Escaped(t, q - 2)}
    ELSE {q \in p + 1 .. Len(t) : t[q] = t[p] /\ ~ Escaped(t, q)}

ReadString(t, p) ==
    LET end == Min(Closing(t, p))
    IN IF Closing(t, p) = {} THEN Throws
       ELSE IF ~ IsMultiLine(t, p) /\ (\E i \in p .. end : t[i] = "\n") THEN Throws
       ELSE Ok(SubSeq(t, p, end), end + 1)

EscapeChars == [c \in {"b", "t", "n", "f", "r", "\"", "\\"} |->
                  CASE c = "t" -> "\t" [] c = "n" -> "\n" [] c = "r" -> "\r"
                    [] c \in {"\"", "\\"} -> c [] c = "b" -> "backspace" [] c = "f" -> "\f"]

(* An escape that is not known disappears.                                 *)
RECURSIVE Unescape(_)
Unescape(s) ==
    IF s = << >> THEN << >>
    ELSE IF Head(s) # "\\" THEN <<Head(s)>> \o Unescape(Tail(s))
    ELSE (IF Peek(s, 2) \in DOMAIN EscapeChars THEN <<EscapeChars[s[2]]>> ELSE << >>)
           \o Unescape(SubSeq(s, 3, Len(s)))

(* A backslash at the end of a line joins it with the next one.            *)
RECURSIVE SkipBlank(_, _), Joined(_, _)
SkipBlank(s, p) ==
    IF NewlineLen(s, p) > 0 THEN SkipBlank(s, p + NewlineLen(s, p))
    ELSE IF Peek(s, p) \in Whitespace THEN SkipBlank(s, p + 1) ELSE p
Joined(s, p) ==
    LET q == IF Peek(s, p) = "\\" /\ NewlineLen(s, p + 1) > 0 THEN SkipBlank(s, p + 1) ELSE p
    IN IF q > Len(s) THEN << >> ELSE <<s[q]>> \o Joined(s, q + 1)

Inside(str, quotes) == SubSeq(str, quotes + 1, Len(str) - quotes)
WithoutFirstNewline(s) == SubSeq(s, NewlineLen(s, 1) + 1, Len(s))

ParseLiteralStringKey(str) ==
    IF Len(str) > 6 /\ IsMultiLine(str, 1) THEN WithoutFirstNewline(Inside(str, 3))
    ELSE Inside(str, 1)
ParseBasicStringKey(str) ==
    IF Len(str) > 3 /\ IsMultiLine(str, 1)
    THEN Unescape(Joined(WithoutFirstNewline(Inside(str, 3)), 1))
    ELSE Unescape(Inside(str, 1))
ParseStringKey(str) ==
    IF str[1] = "'" THEN ParseLiteralStringKey(str) ELSE ParseBasicStringKey(str)

(***************************************************************************)
(* The text of a value                                                     *)
(***************************************************************************)
ReadSimpleValue(t, p) ==
    LET end == Min({q \in p .. Len(t) + 1 :
                      \/ Peek(t, q) \in Whitespace \cup {"#", Eof, ",", "]", "}"}
                      \/ NewlineLen(t, q) > 0})
    IN Ok(SubSeq(t, p, end - 1), end)

(* Up to the brace that closes the first one, those in strings included.   *)
ReadInlineTable_Fault(t, p) ==
    LET closed == {q \in p .. Len(t) : t[q] = "}"}
    IN IF closed = {} THEN Throws ELSE Ok(SubSeq(t, p, Min(closed)), Min(closed) + 1)
ReadInlineTable(t, p) ==
    LET count(c, q) == Cardinality({i \in p .. q : t[i] = c})
        closed == {q \in p .. Len(t) : count("{", q) = count("}", q)}
    IN IF closed = {} THEN Throws ELSE Ok(SubSeq(t, p, Min(closed)), Min(closed) + 1)

(* After an element: past a comma, which need not be there.                *)
Comma(t, at) == IF Peek(t, SkipIgnorable(t, at)) = "," THEN <<",">> ELSE << >>
AfterElement(t, at) == SkipIgnorable(t, SkipIgnorable(t, at) + Len(Comma(t, at)))

(* An array is read without what is between its elements, so that two      *)
(* without a comma become one.  Where no element starts and the array does *)
(* not end, the loop goes on where it is.                                  *)
RECURSIVE ReadValue(_, _), ReadElements(_, _, _)
ReadElements(t, p, text) ==
    LET from == SkipIgnorable(t, p)
    IN Then(ReadValue(t, from), LAMBDA v :
         LET next == AfterElement(t, v.at)
             read == text \o v.val \o Comma(t, v.at)
         IN IF Peek(t, next) = "]" THEN Ok(Append(read, "]"), next + 1)
            ELSE IF Peek(t, next) = Eof THEN Throws
            ELSE IF next = from THEN Hangs
            ELSE ReadElements(t, next, read))
ReadArray(t, p) == ReadElements(t, p + 1, <<"[">>)

ReadValue(t, p) ==
    IF Peek(t, p) = "[" THEN ReadArray(t, p)
    ELSE IF Peek(t, p) = "{" THEN ReadInlineTable(t, p)
    ELSE IF Peek(t, p) \in {"'", "\""} THEN ReadString(t, p)
    ELSE ReadSimpleValue(t, p)

(***************************************************************************)
(* What a value's text is, and its value                                   *)
(***************************************************************************)
WithoutSign(s) == IF Peek(s, 1) \in {"+", "-"} THEN Tail(s) ELSE s
Occurrences(s, chars) == Cardinality({i \in DOMAIN s : s[i] \in chars})

IsBoolean(s) == s \in {<<"t", "r", "u", "e">>, <<"f", "a", "l", "s", "e">>}

(* Digits, and single underscores between them; so no character is one.    *)
IsInteger(s) ==
    LET body == WithoutSign(s)
    IN \A i \in DOMAIN body :
         \/ IsDigit(body[i])
         \/ body[i] = "_" /\ Peek(body, i + 1) # "_"

IsFloat(s) ==
    LET body == WithoutSign(s)
        exponent(i) == \E k \in 1 .. i - 1 : body[k] \in {"e", "E"}
    IN /\ Occurrences(s, {"e", "E"}) <= 1 /\ Occurrences(s, {"."}) <= 1
       /\ \A i \in DOMAIN body :
            /\ \/ IsDigit(body[i]) \/ body[i] \in {"_", "e", "E"}
               \/ body[i] \in {"+", "-"} /\ exponent(i)
               \/ body[i] = "." /\ ~ exponent(i)
            /\ body[i] = "_" => IsDigit(Peek(body, i + 1)) \/ i = Len(body)

IsString(s) ==
    /\ s # << >> /\ s[1] \in {"'", "\""}
    /\ IF IsMultiLine(s, 1) THEN \A i \in Len(s) - 2 .. Len(s) : s[i] = s[1]
       ELSE \A i \in 2 .. Len(s) - 1 : s[i] = s[1] => Escaped(s, i)

DigitsAt(s, p, n) == \A i \in p .. p + n - 1 : IsDigit(Peek(s, i))
IsTime(s, p) == DigitsAt(s, p, 2) /\ Peek(s, p + 2) = ":" /\ DigitsAt(s, p + 3, 2)
IsZone(s, p) ==
    \/ Len(s) = p - 1
    \/ Len(s) = p /\ s[p] \in {"Z", "z"}
    \/ Len(s) = p + 5 /\ s[p] \in {"+", "-"} /\ IsTime(s, p + 1)
IsDatetime(s) ==
    /\ DigitsAt(s, 1, 4) /\ Peek(s, 5) = "-" /\ DigitsAt(s, 6, 2) /\ Peek(s, 8) = "-"
    /\ DigitsAt(s, 9, 2)
    /\ \/ Len(s) = 10
       \/ /\ s[11] = "T" /\ IsTime(s, 12) /\ Peek(s, 17) = ":" /\ DigitsAt(s, 18, 2)
          /\ \/ IsZone(s, 20)
             \/ Peek(s, 20) = "." /\ DigitsAt(s, 21, 1) /\ IsZone(s, After(s, 21, Range(Digits)))

IsArray(s) == s[1] = "[" /\ s[Len(s)] = "]"
IsTable(s) == s[1] = "{" /\ s[Len(s)] = "}"

Garbage == <<"garbage">>
IntegerOf(s) ==
    LET digits == SelectSeq(WithoutSign(s), IsDigit)
        number == FoldLeft(LAMBDA n, d : 10 * n + SelectInSeq(Digits, LAMBDA x : x = d) - 1,
                           0, digits)
    IN IF Occurrences(s, {"_"}) = Len(s) THEN Garbage
       ELSE <<IF s[1] = "-" THEN 0 - number ELSE number>>

(* The numbers of a datetime, and the minutes that are added to it; of the *)
(* letters that IsDatetime accepts a small z is refused here.              *)
ParseDatetime(s) ==
    LET number(p, n) == IntegerOf(SubSeq(s, p, p + n - 1))[1]
        date == <<number(1, 4), number(6, 2), number(9, 2)>>
        zone == IF Peek(s, 20) = "." THEN After(s, 21, Range(Digits)) ELSE 20
        minutes == 60 * number(zone + 1, 2) + number(zone + 4, 2)
        time(shift) == Ok(<<"Datetime", date \o <<number(12, 2), number(15, 2), number(18, 2)>>,
                            SubSeq(s, 21, zone - 1), shift>>, 0)
    IN CASE Len(s) = 10 -> Ok(<<"Datetime", date \o <<0, 0, 0>>, << >>, 0>>, 0)
         [] Peek(s, zone) = Eof /\ Len(s) > 10 -> time(0)
         [] Peek(s, zone) = "Z" -> time(0)
         [] Peek(s, zone) = "z" -> Throws
         [] Peek(s, zone) = "+" -> time(minutes)
         [] Peek(s, zone) = "-" -> time(0 - minutes)

RECURSIVE ParseValue(_), SplitElements(_, _), SplitPairs(_, _)

(* All of them in turn, or the first that is none.                         *)
AllOk(results, collect(_)) ==
    LET bad == {i \in DOMAIN results : results[i].out # "ok"}
    IN IF bad = {} THEN Ok(collect([i \in DOMAIN results |-> results[i].val]), 0)
       ELSE results[Min(bad)]

SplitElements(s, p) ==
    Then(ReadValue(s, SkipIgnorable(s, p)), LAMBDA v :
      LET next == AfterElement(s, v.at)
      IN IF v.val = << >> THEN Throws
         ELSE IF Peek(s, next) = "]" THEN Ok(<<v.val>>, next)
         ELSE IF Peek(s, next) = Eof THEN Throws
         ELSE Then(SplitElements(s, next), LAMBDA rest : Ok(<<v.val>> \o rest.val, rest.at)))
SplitArray(s) == IF Peek(s, 2) = "]" THEN Ok(<< >>, 2) ELSE SplitElements(s, 2)

ParseArray(s) ==
    Then(SplitArray(s), LAMBDA split :
      AllOk([i \in DOMAIN split.val |-> ParseValue(split.val[i])], LAMBDA vals : <<"Array", vals>>))

ReadBareKey(t, p) == LET end == After(t, p, BareKeyChars) IN Ok(SubSeq(t, p, end - 1), end)
ParseKey(t, p) ==
    IF Peek(t, p) \in BareKeyChars THEN ReadBareKey(t, p)
    ELSE IF Peek(t, p) \in {"'", "\""}
         THEN Then(ReadString(t, p), LAMBDA str : Ok(ParseStringKey(str.val), str.at))
    ELSE Throws

ParseKeyValue(t, p) ==
    Then(ParseKey(t, p), LAMBDA key :
      LET equal == SkipWhitespace(t, key.at)
      IN IF Peek(t, equal) # "=" THEN Throws
         ELSE Then(ReadValue(t, SkipWhitespace(t, equal + 1)), LAMBDA text :
                Then(ParseValue(text.val), LAMBDA v : Ok(<<key.val, v.val>>, text.at))))

(* The pairs of an inline table, as texts again: a key that was in quotes  *)
(* is so no more.                                                          *)
SplitPairs(s, p) ==
    Then(ParseKey(s, SkipIgnorable(s, p)), LAMBDA key :
      LET equal == SkipIgnorable(s, key.at)
      IN IF key.val = << >> \/ Peek(s, equal) # "=" THEN Throws
         ELSE Then(ReadValue(s, SkipIgnorable(s, equal + 1)), LAMBDA v :
           LET next == AfterElement(s, v.at)
               pair == key.val \o <<" ", "=", " ">> \o v.val
           IN IF v.val = << >> THEN Throws
              ELSE IF Peek(s, next) = "}" THEN Ok(<<pair>>, next)
              ELSE IF Peek(s, next) = Eof THEN Throws
              ELSE Then(SplitPairs(s, next), LAMBDA rest : Ok(<<pair>> \o rest.val, rest.at))))
SplitTable(s) ==
    IF Peek(s, SkipWhitespace(s, 2)) = "}" THEN Ok(<< >>, 0)
    ELSE SplitPairs(s, SkipWhitespace(s, 2))

Emplace(table, key, value) ==
    [k \in DOMAIN table \cup {key} |-> IF k = key THEN value ELSE table[k]]
EmptyTable == [k \in {} |-> 0]
TableOf(pairs) == FoldLeft(LAMBDA table, pair : Emplace(table, pair[1], pair[2]), EmptyTable, pairs)

ParseInlineTable(s) ==
    Then(SplitTable(s), LAMBDA split :
      AllOk([i \in DOMAIN split.val |-> ParseKeyValue(split.val[i], 1)],
            LAMBDA pairs : <<"Table", TableOf(pairs)>>))

ParseValue(s) ==
    IF IsBoolean(s) THEN Ok(<<"Boolean", s[1] = "t">>, 0)
    ELSE IF IsInteger(s) THEN Ok(<<"Integer", IntegerOf(s)>>, 0)
    ELSE IF IsFloat(s) THEN Ok(<<"Float", SelectSeq(s, LAMBDA c : c # "_")>>, 0)
    ELSE IF IsString(s) THEN Ok(<<"String", ParseStringKey(s)>>, 0)
    ELSE IF IsDatetime(s) THEN ParseDatetime(s)
    ELSE IF IsArray(s) THEN ParseArray(s)
    ELSE IF IsTable(s) THEN ParseInlineTable(s)
    ELSE Throws

(***************************************************************************)
(* The whole text: pairs, then tables with names                           *)
(***************************************************************************)
(* Pairs up to the next name or the end; nothing has to end a line.        *)
RECURSIVE ParseTable(_, _, _)
ParseTable(t, from, table) ==
    LET p == SkipIgnorable(t, from)
    IN IF Peek(t, p) \in {Eof, "["} THEN Ok(<<"Table", table>>, p)
       ELSE Then(ParseKeyValue(t, p), LAMBDA pair :
              ParseTable(t, pair.at, Emplace(table, pair.val[1], pair.val[2])))

RECURSIVE ParseNames(_, _)
ParseNames(t, p) ==
    Then(ParseKey(t, SkipWhitespace(t, p)), LAMBDA key :
      LET next == SkipWhitespace(t, key.at)
      IN IF key.val = << >> THEN Throws
         ELSE IF Peek(t, next) = "."
              THEN Then(ParseNames(t, next + 1), LAMBDA rest : Ok(<<key.val>> \o rest.val, rest.at))
         ELSE Ok(<<key.val>>, next))

(* A name is [a.b] or [[a.b]], and the only one on its line, which ends.   *)
ParseTableName(t, p) ==
    LET brackets == IF Peek(t, p + 1) = "[" THEN 2 ELSE 1
    IN Then(ParseNames(t, p + brackets), LAMBDA names :
         LET end == SkipWhitespace(t, names.at + brackets)
         IN IF (\E i \in 0 .. brackets - 1 : Peek(t, names.at + i) # "]") THEN Throws
            ELSE IF NewlineLen(t, end) > 0
                 THEN Ok([name |-> names.val, array |-> brackets = 2], end + NewlineLen(t, end))
            ELSE IF Peek(t, end) = "#"
                 THEN Ok([name |-> names.val, array |-> brackets = 2], SkipComment(t, end))
            ELSE Throws)

RECURSIVE MakeNestedTable(_, _, _)
MakeNestedTable(name, contents, array) ==
    IF name # << >>
    THEN <<"Table", Emplace(EmptyTable, Head(name), MakeNestedTable(Tail(name), contents, array))>>
    ELSE IF array THEN <<"Array", <<contents>>>> ELSE contents

(* search_and_make_nested_table.  A name below an array is one below its   *)
(* last element; below anything but a table it follows a null pointer.     *)
RECURSIVE Nested(_, _, _, _)
Nested(root, name, contents, array) ==
    LET is_array == root[1] = "Array"
        last == Len(root[2])
        tab == IF is_array THEN root[2][last] ELSE root
        with(new_tab) == IF is_array THEN <<"Array", [root[2] EXCEPT ![last] = new_tab]>>
                         ELSE new_tab
        put(value) == with(<<"Table", Emplace(tab[2], Head(name), value)>>)
    IN IF name = << >>
       THEN IF is_array /\ array THEN Ok(<<"Array", Append(root[2], contents)>>, 0) ELSE Throws
       ELSE IF (is_array /\ root[2] = << >>) \/ tab[1] # "Table" THEN Crashes
       ELSE IF Head(name) \in DOMAIN tab[2]
            THEN Then(Nested(tab[2][Head(name)], Tail(name), contents, array),
                      LAMBDA nested : Ok(put(nested.val), 0))
       ELSE Ok(put(MakeNestedTable(Tail(name), contents, array)), 0)

RECURSIVE ParseRest(_, _, _)
ParseRest(t, p, data) ==
    IF Peek(t, p) = Eof THEN Ok(data, p)
    ELSE Then(ParseTableName(t, p), LAMBDA name :
           Then(ParseTable(t, name.at, EmptyTable), LAMBDA contents :
             Then(Nested(data, name.val.name, contents.val, name.val.array), LAMBDA nested :
               ParseRest(t, contents.at, nested.val))))

Parse(t) ==
    Then(ParseTable(t, 1, EmptyTable), LAMBDA root : ParseRest(t, root.at, root.val))

(***************************************************************************)
(* get<T> of a value, with T the tag, and of an array of tables            *)
(***************************************************************************)
Get(type, value) == IF value[1] = type THEN Ok(value[2], 0) ELSE Throws
GetTables(value) ==
    Then(Get("Array", value), LAMBDA array :
      AllOk([i \in DOMAIN array.val |-> Get("Table", array.val[i])], LAMBDA tables : tables))
=============================================================================
