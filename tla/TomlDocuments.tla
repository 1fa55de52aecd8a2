----------------------------- MODULE TomlDocuments -----------------------------
(***************************************************************************)
(* Configurations as TOML v0.4.0, which the parser's README.md:11 says it  *)
(* supports, lets a user write them, and what they mean there: a value     *)
(* printed in every layout, a sequence of named tables, and any short      *)
(* text.  What only the parser tells from the rest is named apart:         *)
(* Delicate, ParentsFirst, NoneBelowNumber, NoBraceInBrackets.             *)
(***************************************************************************)
EXTENDS Toml

(***************************************************************************)
(* Values, and their text with a pad between the tokens                    *)
(***************************************************************************)
RECURSIVE DigitsOf(_)
DigitsOf(n) == IF n < 10 THEN <<Digits[n + 1]>> ELSE Append(DigitsOf(n \div 10), Digits[(n % 10) + 1])
TwoDigits(n) == IF n < 10 THEN <<"0">> \o DigitsOf(n) ELSE DigitsOf(n)

EscapeOf(c) ==
    IF c \in {"\"", "\\"} THEN <<"\\", c>> ELSE IF c = "\n" THEN <<"\\", "n">> ELSE <<c>>

(* shift: the minutes to add to a local time to reach UTC; west of it they *)
(* are written with a minus (RFC 3339).                                    *)
DateText(fields, shift) ==
    LET minutes == IF shift < 0 THEN 0 - shift ELSE shift
    IN DigitsOf(fields[1]) \o <<"-">> \o TwoDigits(fields[2]) \o <<"-">> \o TwoDigits(fields[3])
         \o <<"T">> \o TwoDigits(fields[4]) \o <<":">> \o TwoDigits(fields[5])
         \o <<":">> \o TwoDigits(fields[6])
         \o (IF shift = 0 THEN <<"Z">>
             ELSE <<IF shift < 0 THEN "+" ELSE "-">> \o TwoDigits(minutes \div 60)
                    \o <<":">> \o TwoDigits(minutes % 60))

(* An array may go over several lines, with comments; an inline table must *)
(* not, but for an array in it.                                            *)
OnOneLine(pad) == IF "\n" \in ToSet(pad) THEN << >> ELSE pad

RECURSIVE Text(_, _)
Joint(parts, pad) ==
    FoldLeft(LAMBDA text, part : IF text = << >> THEN part ELSE text \o pad \o <<",">> \o pad \o part,
             << >>, parts)
Text(v, pad) ==
    CASE v[1] = "Integer" -> IF v[2][1] < 0 THEN <<"-">> \o DigitsOf(0 - v[2][1]) ELSE DigitsOf(v[2][1])
      [] v[1] = "Boolean" -> IF v[2] THEN <<"t", "r", "u", "e">> ELSE <<"f", "a", "l", "s", "e">>
      [] v[1] = "Float" -> v[2]
      [] v[1] = "String" -> <<"\"">> \o FlattenSeq([i \in DOMAIN v[2] |-> EscapeOf(v[2][i])]) \o <<"\"">>
      [] v[1] = "Datetime" -> DateText(v[2], v[4])
      [] v[1] = "Array" ->
           <<"[">> \o pad \o Joint([i \in DOMAIN v[2] |-> Text(v[2][i], pad)], pad) \o pad \o <<"]">>
      [] v[1] = "Table" ->
           LET blank == OnOneLine(pad)
               pairs == {key \o blank \o <<"=">> \o blank \o Text(v[2][key], pad) :
                           key \in DOMAIN v[2]}
           IN <<"{", " ">> \o Joint(SetToSeq(pairs), blank) \o <<" ", "}">>

Strings == {<< >>, <<"a">>, <<"a", "\"", "]">>, <<"}">>, <<"{">>, <<"\\">>, <<"\\", "a">>,
            <<"\\", "\"">>, <<"#", ",", " ">>, <<"\n", "'">>}
Scalars ==
    {<<"Integer", <<n>>>> : n \in {0, 12, -3}} \cup {<<"Boolean", b>> : b \in BOOLEAN}
      \cup {<<"Float", f>> : f \in {<<"1", ".", "5">>, <<"-", "2", "e", "-", "1">>}}
      \cup {<<"String", s>> : s \in Strings}
      \cup {<<"Datetime", <<1979, 5, 27, 7, 32, 0>>, << >>, shift>> : shift \in {0, 545, -90}}
(* The elements of an array are of one type.                               *)
Arrays(values) ==
    {<<"Array", a>> : a \in {a \in UNION {[1 .. n -> values] : n \in 0 .. 2} :
                              \A i, j \in DOMAIN a : a[i][1] = a[j][1]}}
Tables(values) == {<<"Table", t>> : t \in UNION {[keys -> values] : keys \in {{}, {<<"k">>}}}}
PairTable(v) == <<"Table", [key \in {<<"k">>, <<"1", "-">>} |-> v]>>
Values ==
    LET simple == {<<"Integer", <<12>>>>, <<"String", <<"a", "\"", "]">>>>, <<"String", <<"}">>>>}
        inner == Arrays(simple) \cup Tables(simple)
    IN Scalars \cup Arrays(Scalars) \cup Tables(Scalars) \cup Arrays(inner) \cup Tables(inner)
         \cup {PairTable(v) : v \in inner}
Pads == {<< >>, <<" ">>, <<"\n", "\t">>, <<"#", ",", "\n">>}

(* Values that are written with what the parser takes for something else:  *)
(* a string that ends in a backslash, a brace in a string of an inline     *)
(* table, a time of another zone.                                          *)
RECURSIVE Delicate(_, _)
Delicate(v, in_table) ==
    \/ v[1] = "String" /\ v[2] # << >> /\ Last(v[2]) = "\\"
    \/ v[1] = "String" /\ in_table /\ ToSet(v[2]) \cap {"{", "}"} # {}
    \/ v[1] = "Datetime" /\ v[4] # 0
    \/ v[1] = "Array" /\ \E i \in DOMAIN v[2] : Delicate(v[2][i], in_table)
    \/ v[1] = "Table" /\ \E key \in DOMAIN v[2] : Delicate(v[2][key], TRUE)

Line(key, v, pad) ==
    key \o <<" ", "=", "\t">> \o Text(v, pad) \o <<" ", "#", "\"", "\n">>

AsWritten(key, v, read) ==
    read.out = "ok" /\ read.val = <<"Table", [k \in {key} |-> v]>>

(***************************************************************************)
(* Documents of named tables: x = 0, then sections, the i-th with x = i    *)
(***************************************************************************)
A == <<"a">>
B == <<"b">>
X == <<"x">>
SectionNames == {<<A>>, <<A, B>>, <<X>>, <<A, X, B>>}
Section == [name : SectionNames, array : BOOLEAN]
Documents == UNION {[1 .. n -> Section] : n \in 0 .. 3}

Pair(number) == X \o <<"=">> \o DigitsOf(number) \o <<"\n">>
Header(section) ==
    LET name == FoldLeft(LAMBDA text, key : IF text = << >> THEN key ELSE text \o <<".">> \o key,
                         << >>, section.name)
    IN IF section.array THEN <<"[", "[">> \o name \o <<"]", "]", "\n">>
       ELSE <<"[">> \o name \o <<"]", "#", "\n">>
Document(sections) ==
    Pair(0) \o FlattenSeq([i \in DOMAIN sections |-> Header(sections[i]) \o Pair(i)])

(* The sections that are still in reach of the i-th: their tables have not *)
(* been left behind by another element of an array around them.            *)
Reached(doc, i) ==
    {j \in 1 .. i - 1 :
       ~ \E k \in j + 1 .. i - 1 : doc[k].array /\ IsStrictPrefix(doc[k].name, doc[j].name)}
(* One more element of an array that is in reach.                          *)
Appends(doc, i) == doc[i].array /\ \E j \in Reached(doc, i) : doc[j] = doc[i]
(* A name is given once, and the x of a table is its number: neither a     *)
(* table, nor one with more below it.  An array is not made of a table     *)
(* that a name below it has made.                                          *)
Clashes(doc, i) ==
    \/ doc[i].name = <<X>>
    \/ \E j \in Reached(doc, i) : IsPrefix(Append(doc[j].name, X), doc[i].name)
    \/ /\ ~ Appends(doc, i)
       /\ \E j \in Reached(doc, i) :
            \/ doc[j].name = doc[i].name
            \/ IsPrefix(Append(doc[i].name, X), doc[j].name)
            \/ doc[i].array /\ IsStrictPrefix(doc[i].name, doc[j].name)
Valid(doc) == \A i \in DOMAIN doc : ~ Clashes(doc, i)

(* No table is given after one below it, which v0.4.0 allows.              *)
ParentsFirst(doc) ==
    \A i \in DOMAIN doc :
      Appends(doc, i) \/ ~ \E j \in Reached(doc, i) : IsStrictPrefix(doc[i].name, doc[j].name)
(* Nothing is below a number.                                              *)
NoneBelowNumber(doc) ==
    \A i \in DOMAIN doc : \A j \in Reached(doc, i) : ~ IsPrefix(Append(doc[j].name, X), doc[i].name)

(* The numbers of a value that was read, each with its path, in order.     *)
RECURSIVE Numbers(_, _)
Numbers(v, path) ==
    CASE v[1] = "Integer" -> {<<path, v[2][1]>>}
      [] v[1] = "Table" -> UNION {Numbers(v[2][key], Append(path, key)) : key \in DOMAIN v[2]}
      [] v[1] = "Array" -> UNION {Numbers(v[2][i], path) : i \in DOMAIN v[2]}
(* All of the numbers are there, and the elements of [[a]] in their order. *)
Kept(doc, read) ==
    LET given == SelectSeq([i \in DOMAIN doc |-> i], LAMBDA i : doc[i].name = <<A>>)
    IN /\ Numbers(read.val, << >>)
            = {<<<<X>>, 0>>} \cup {<<Append(doc[i].name, X), i>> : i \in DOMAIN doc}
       /\ [name |-> <<A>>, array |-> TRUE] \in Range(doc) =>
            LET tables == GetTables(read.val[2][A]).val
            IN [k \in DOMAIN tables |-> tables[k][X]]
                 = [k \in DOMAIN given |-> <<"Integer", <<given[k]>>>>]

(***************************************************************************)
(* Any text after the equal sign                                           *)
(***************************************************************************)
TextChars == {"[", "]", "{", "}", "\"", "\\", ",", "1", "\n"}
Texts == UNION {[1 .. n -> TextChars] : n \in 0 .. 4}
(* No bracket is followed by a brace that closes.                          *)
NoBraceInBrackets(text) ==
    ~ \E i, j \in DOMAIN text : i < j /\ text[i] = "[" /\ text[j] = "}"
=============================================================================
