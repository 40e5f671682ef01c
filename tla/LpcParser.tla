----------------------------- MODULE LpcParser -----------------------------
(***************************************************************************)
(* The object format of pkg/lpc/oparser.go, in which the MUD saves its      *)
(* characters and its access map: the recursive descent parser, character   *)
(* by character, and beside it what a text of the format denotes, told by   *)
(* how it splits and not by how it is read.                                *)
(*                                                                         *)
(* A text is a sequence of characters, a character a string of length one   *)
(* or the name of a control character.  A parse from position i of text s   *)
(* gives the value and the position after it, or fails.                    *)
(***************************************************************************)
EXTENDS Integers, Sequences, SequencesExt, FiniteSetsExt

CONSTANT MaxDigits  \* digits of the longest number strconv.Atoi accepts

ASSUME LpcParserAssumption == MaxDigits \in Nat \ {0}

\* peek gives a zero byte at the end of the text, as it does at a zero byte.
NUL == "NUL"
End == NUL

Digit == {"0", "1", "2", "3", "4", "5", "6", "7", "8", "9"}
HexDigit == Digit \union {"a", "b", "c", "d", "e", "f", "A", "B", "C", "D", "E", "F"}
Lower == {"a", "b", "c", "d", "e", "f", "g", "h", "i", "j", "k", "l", "m", "n",
          "o", "p", "q", "r", "s", "t", "u", "v", "w", "x", "y", "z"}
Upper == {"A", "B", "C", "D", "E", "F", "G", "H", "I", "J", "K", "L", "M", "N",
          "O", "P", "Q", "R", "S", "T", "U", "V", "W", "X", "Y", "Z"}
Letter == Lower \union Upper
IdentChar == Letter \union Digit \union {"_"}
Space == {" ", "\t"}
Terminator == {",", ":", "]", "}", ")", "\n", End}

\* Unknown escapes stand for themselves.
Unescape(c) ==
  CASE c = "0" -> NUL  [] c = "a" -> "BEL" [] c = "b" -> "BS" [] c = "t" -> "\t"
    [] c = "n" -> "\n" [] c = "v" -> "VT"  [] c = "f" -> "\f" [] c = "r" -> "\r"
    [] OTHER -> c

At(s, i) == IF i <= Len(s) THEN s[i] ELSE End

\* Does w stand at position i?
Match(s, i, w) == i + Len(w) - 1 <= Len(s) /\ SubSeq(s, i, i + Len(w) - 1) = w

\* The first position from i on that holds none of the characters in C.
Skip(s, i, C) ==
  CHOOSE j \in i .. Len(s) + 1 : At(s, j) \notin C /\ \A k \in i .. j - 1 : s[k] \in C

-----------------------------------------------------------------------------
(* Values.  A number is its shortest decimal form; an array is a sequence   *)
(* and a mapping a function from keys, which are texts.                    *)

Value(t, v) == [type |-> t, is |-> v]
Nil == Value("nil", <<>>)

NoZeros(ds) == SubSeq(ds, Skip(ds, 1, {"0"}), Len(ds))
OrZero(ds) == IF ds = <<>> THEN <<"0">> ELSE ds

\* Both take a sign, <<>> or <<"-">>, and digits.
IntOf(sign, ds) ==
  Value("int", IF NoZeros(ds) = <<>> THEN <<"0">> ELSE sign \o NoZeros(ds))
FloatOf(sign, ds, frac) ==
  LET f == Reverse(NoZeros(Reverse(frac)))
  IN Value("float", sign \o OrZero(NoZeros(ds)) \o IF f = <<>> THEN f ELSE <<".">> \o f)

Fits(ds) == Len(NoZeros(ds)) <= MaxDigits

Figures == <<"0", "1", "2", "3", "4", "5", "6", "7", "8", "9">>

RECURSIVE Decimal(_)
Decimal(n) ==
  IF n < 10 THEN <<Figures[n + 1]>>
  ELSE Append(Decimal(n \div 10), Figures[(n % 10) + 1])

\* Are ds the digits of n?
Counts(ds, n) == OrZero(NoZeros(ds)) = Decimal(n)

\* A mapping's key as text: strconv.Itoa, strconv.FormatFloat.
KeyText(v) == IF v.type = "nil" THEN <<"n", "i", "l">> ELSE v.is
Complex(v) == v.type \in {"array", "map"}

Put(map, key, v) ==
  [k \in DOMAIN map \union {key} |-> IF k = key THEN v ELSE map[k]]
EmptyMap == [k \in {} |-> Nil]

-----------------------------------------------------------------------------
(* The parser.                                                             *)

Fail == [ok |-> FALSE, pos |-> 0, val |-> Nil]
Got(v, i) == [ok |-> TRUE, pos |-> i, val |-> v]

\* Mutant: a string ends with its text.
RECURSIVE StringOpenFrom(_, _, _)
StringOpenFrom(s, i, acc) ==
  IF i > Len(s) THEN Got(Value("string", acc), i)
  ELSE CASE s[i] = "\"" -> Got(Value("string", acc), i + 1)
         [] s[i] = "\n" -> Fail
         [] s[i] = "\\" -> IF i = Len(s) THEN Fail
                           ELSE StringOpenFrom(s, i + 2, Append(acc, Unescape(s[i + 1])))
         [] OTHER -> StringOpenFrom(s, i + 1, Append(acc, s[i]))

\* parseString after its opening quote, with acc read already.
RECURSIVE StringFrom(_, _, _)
StringFrom(s, i, acc) ==
  IF i > Len(s) THEN Fail
  ELSE CASE s[i] = "\"" -> Got(Value("string", acc), i + 1)
         [] s[i] = "\n" -> Fail
         [] s[i] = "\\" -> IF i = Len(s) THEN Fail
                           ELSE StringFrom(s, i + 2, Append(acc, Unescape(s[i + 1])))
         [] OTHER -> StringFrom(s, i + 1, Append(acc, s[i]))

\* [-]digits[.digits][=hexdigits]; the hexadecimal tail is not used.
ParseNumber(s, i) ==
  LET first == IF At(s, i) = "-" THEN i + 1 ELSE i
      point == Skip(s, first, Digit)
      hasPoint == At(s, point) = "."
      equals == IF hasPoint THEN Skip(s, point + 1, Digit) ELSE point
      hasTail == At(s, equals) = "="
      end == IF hasTail THEN Skip(s, equals + 1, HexDigit) ELSE equals
      sign == SubSeq(s, i, first - 1)
      whole == SubSeq(s, first, point - 1)
      frac == SubSeq(s, point + 1, equals - 1)
  IN IF \/ hasPoint /\ equals = point + 1
        \/ hasTail /\ end = equals + 1
        \/ whole = <<>>
       THEN Fail
     ELSE IF hasPoint \/ hasTail THEN Got(FloatOf(sign, whole, frac), end)
     ELSE IF Fits(whole) THEN Got(IntOf(sign, whole), end)
     ELSE Fail

\* The digits of parseCount and the "|" after them; val holds the digits.
ParseSize(s, i) ==
  LET bar == Skip(s, i, Digit)
      ds == SubSeq(s, i, bar - 1)
  IN IF ds = <<>> \/ ~Fits(ds) \/ At(s, bar) # "|" THEN Fail
     ELSE Got(Value("size", ds), bar + 1)

\* An element of a list, and where the list goes on: behind its close, or at
\* another element.
AfterElement(s, el, close) ==
  LET j == Skip(s, el.pos, Space)
      k == Skip(s, j + 1, Space)
  IN CASE ~el.ok -> [at |-> "error", pos |-> 0, val |-> el.val]
       [] el.ok /\ At(s, j) = "," /\ Match(s, k, close) ->
            [at |-> "close", pos |-> k + 2, val |-> el.val]
       [] el.ok /\ At(s, j) = "," /\ ~Match(s, k, close) ->
            [at |-> "element", pos |-> k, val |-> el.val]
       [] el.ok /\ Match(s, j, close) -> [at |-> "close", pos |-> j + 2, val |-> el.val]
       [] OTHER -> [at |-> "error", pos |-> j, val |-> el.val]

RECURSIVE ParseValue(_, _)

\* parseArray's loop, with acc parsed already; val is the elements.
RECURSIVE ElementsFrom(_, _, _)
TakeElement(s, acc, next) ==
  CASE next.at = "close" -> Got(Value("array", Append(acc, next.val)), next.pos)
    [] next.at = "element" -> ElementsFrom(s, next.pos, Append(acc, next.val))
    [] OTHER -> Fail
ElementsFrom(s, i, acc) ==
  TakeElement(s, acc, AfterElement(s, ParseValue(s, i), <<"}", ")">>))

\* What stands between the brackets of an array, and its closing bracket.
ArrayFrom(s, i) ==
  LET j == Skip(s, i, Space)
  IN IF Match(s, j, <<"}", ")">>) THEN Got(Value("array", <<>>), j + 2)
     ELSE IF Match(s, j, <<",", "}", ")">>) THEN Got(Value("array", <<>>), j + 3)
     ELSE ElementsFrom(s, j, <<>>)

\* Mutant: the size is not compared with the number of elements.
WithAnySize(size, list, n) == IF size.ok /\ list.ok THEN list ELSE Fail

\* A list whose size says how many elements it has.
WithSize(size, list, n) ==
  IF size.ok /\ list.ok /\ Counts(size.val.is, n) THEN list ELSE Fail

SizedArray(size, list) == WithSize(size, list, IF list.ok THEN Len(list.val.is) ELSE 0)

\* ({size|v1,v2,...}), with a comma allowed at the end, even of none.
ParseArray(s, i) ==
  LET size == ParseSize(s, i + 2)
  IN SizedArray(size, ArrayFrom(s, size.pos))

\* One entry put into map.  One with an array or a mapping for its key is
\* skipped, and may even do without a value.
PutEntry(map, key, v) ==
  IF ~v.ok THEN Fail
  ELSE Got(IF Complex(key) THEN map ELSE Put(map, KeyText(key), v.val), v.pos)
EntryAfter(s, map, key) ==
  LET colon == Skip(s, key.pos, Space)
  IN IF ~key.ok THEN Fail
     ELSE IF At(s, colon) = ":" THEN PutEntry(map, key.val, ParseValue(s, colon + 1))
     ELSE IF Complex(key.val) THEN Got(map, colon)
     ELSE Fail
ParseMapEntry(s, i, map) == EntryAfter(s, map, ParseValue(s, i))

\* parseMap's loop, with n entries in map already; val is the mapping and the
\* number of its entries.
RECURSIVE EntriesFrom(_, _, _, _)
TakeEntry(s, n, next) ==
  CASE next.at = "close" -> Got(<<next.val, n + 1>>, next.pos)
    [] next.at = "element" -> EntriesFrom(s, next.pos, next.val, n + 1)
    [] OTHER -> Fail
EntriesFrom(s, i, map, n) ==
  TakeEntry(s, n, AfterElement(s, ParseMapEntry(s, i, map), <<"]", ")">>))

MapFrom(s, i) ==
  LET j == Skip(s, i, Space)
  IN IF Match(s, j, <<"]", ")">>) THEN Got(<<EmptyMap, 0>>, j + 2)
     ELSE EntriesFrom(s, j, EmptyMap, 0)

SizedMap(size, list) ==
  IF WithSize(size, list, IF list.ok THEN list.val[2] ELSE 0).ok
    THEN Got(Value("map", list.val[1]), list.pos)
    ELSE Fail

\* ([size|k1:v1,k2:v2,...]).
ParseMap(s, i) ==
  LET size == ParseSize(s, i + 2)
  IN SizedMap(size, MapFrom(s, size.pos))

ParseValue(s, i) ==
  LET j == Skip(s, i, Space)
      c == At(s, j)
  IN CASE c = "\"" -> StringFrom(s, j + 1, <<>>)
       [] c = "-" \/ c \in Digit -> ParseNumber(s, j)
       [] c = "(" /\ At(s, j + 1) = "{" -> ParseArray(s, j)
       [] c = "(" /\ At(s, j + 1) = "[" -> ParseMap(s, j)
       [] Match(s, j, <<"n", "i", "l">>) /\ At(s, j + 3) \in Terminator -> Got(Nil, j + 3)
       [] OTHER -> Fail

\* "key value" up to the end of the line, or to a zero byte: val is the pair.
\* A line that begins with a zero byte has no key.
ParseLine(s) ==
  LET space == Skip(s, 1, IdentChar)
      Under(key, v) == IF v.ok /\ At(s, v.pos) = End THEN Got(<<key, v.val>>, v.pos) ELSE Fail
  IN CASE At(s, 1) = End -> Got(<<<<>>, Nil>>, 1)
       [] /\ At(s, 1) \in Letter
          /\ At(s, space) = " "
          /\ At(s, space + 1) \notin Space ->
            Under(SubSeq(s, 1, space - 1), ParseValue(s, space + 1))
       [] OTHER -> Fail

\* Where the lines of a text begin, and the line at i without its end.
Starts(text) == {1} \union {i + 1 : i \in {j \in DOMAIN text : text[j] = "\n"}}
LineAt(text, i) == SubSeq(text, i, Min({j \in Starts(text) : j > i} \union {Len(text) + 2}) - 2)

\* Blank lines and lines that begin with "#" say nothing.
Said(text) == {i \in Starts(text) : LineAt(text, i) # <<>> /\ LineAt(text, i)[1] # "#"}

\* What the good lines of a text give; the last of several with one key counts.
Entered(parsed) ==
  LET good == {i \in DOMAIN parsed : parsed[i].ok}
      Latest(key) == Max({i \in good : parsed[i].val[1] = key})
  IN [key \in {parsed[i].val[1] : i \in good} |-> parsed[Latest(key)].val[2]]

\* An object without strictness: what parses is kept, the rest is skipped, and
\* only a text with errors and without an entry is an error.
ParseObject(text) ==
  LET entered == Entered([i \in Said(text) |-> ParseLine(LineAt(text, i))])
  IN IF text = <<>> \/ (DOMAIN entered = {} /\ Said(text) # {}) THEN Fail
     ELSE Got(entered, Len(text) + 1)
=============================================================================
