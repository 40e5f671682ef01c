----------------------------- MODULE LpcGrammar -----------------------------
(***************************************************************************)
(* What a text of the object format denotes, told by the ways to split it   *)
(* and not by reading it: the reference for LpcParser.  It is the format    *)
(* that pkg/lpc/oparser.go takes: that of docs/lpc_object_format.md, less   *)
(* references, and with spaces around elements, commas before a close, and  *)
(* keys that are skipped.  A text denotes a set of values: none when it is  *)
(* wrong, several when it is ambiguous.                                    *)
(***************************************************************************)
EXTENDS LpcParser

From(t, i) == SubSeq(t, i, Len(t))
UpTo(t, i) == SubSeq(t, 1, i)
Inside(t, n) == SubSeq(t, n + 1, Len(t) - n)
Places(t, c) == {i \in DOMAIN t : t[i] = c}
AllIn(t, C) == \A i \in DOMAIN t : t[i] \in C

Trim(t) == LET keep == {i \in DOMAIN t : t[i] \notin Space}
           IN IF keep = {} THEN <<>> ELSE SubSeq(t, Min(keep), Max(keep))

Framed(t, open, close) ==
  /\ Len(t) >= 4
  /\ UpTo(t, 2) = open
  /\ From(t, Len(t) - 1) = close

-----------------------------------------------------------------------------

\* Section 3.2.  A sign, digits, and for a float a fraction or bits or both.
Numbers(t) ==
  LET sign == IF t # <<>> /\ t[1] = "-" THEN <<"-">> ELSE <<>>
      u == From(t, Len(sign) + 1)
      IsDigits(w) == w # <<>> /\ AllIn(w, Digit)
      Decimals(w) ==
        {<<UpTo(w, i - 1), From(w, i + 1)>> : i \in Places(w, ".")}
      Fraction(w) ==
        {FloatOf(sign, d[1], d[2]) : d \in {e \in Decimals(w) : IsDigits(e[1]) /\ IsDigits(e[2])}}
      Whole(w) == IF IsDigits(w) THEN {FloatOf(sign, w, <<>>)} ELSE {}
      HasBits(i) == i < Len(u) /\ AllIn(From(u, i + 1), HexDigit)
  IN (IF IsDigits(u) /\ Fits(u) THEN {IntOf(sign, u)} ELSE {})
       \union Fraction(u)
       \union UNION {Fraction(UpTo(u, i - 1)) \union Whole(UpTo(u, i - 1)) :
                       i \in {k \in Places(u, "=") : HasBits(k)}}

\* Section 3.1.  The characters between the quotes, escaped or not.
RECURSIVE Characters(_)
Characters(t) ==
  IF t = <<>> THEN {<<>>}
  ELSE IF t[1] \in {"\"", "\n"} \/ t = <<"\\">> THEN {}
  ELSE IF t[1] = "\\" THEN {<<Unescape(t[2])>> \o cs : cs \in Characters(From(t, 3))}
  ELSE {<<t[1]>> \o cs : cs \in Characters(Tail(t))}

Strings(t) ==
  IF Len(t) >= 2 /\ t[1] = "\"" /\ t[Len(t)] = "\""
    THEN {Value("string", cs) : cs \in Characters(Inside(t, 1))}
    ELSE {}

RECURSIVE Denotes(_)

\* A value between spaces; nil must not have one behind it.
Spaced(t) == {v \in Denotes(Trim(t)) : v.type = "nil" => t[Len(t)] \notin Space}

\* What a list of elements, or of entries, denotes.
RECURSIVE Elements(_)
Elements(t) ==
  {<<v>> : v \in Spaced(t)} \union
  UNION {{<<v>> \o rest : v \in Spaced(UpTo(t, i - 1)), rest \in Elements(From(t, i + 1))} :
           i \in Places(t, ",")}

\* An entry is its key and value, or nothing when the key is complex.
Entry(t) ==
  LET Pairs(i) == Spaced(UpTo(t, i - 1)) \X Spaced(From(t, i + 1))
  IN {IF Complex(p[1]) THEN <<>> ELSE <<KeyText(p[1]), p[2]>> :
        p \in UNION {Pairs(i) : i \in Places(t, ":")}}
     \union {<<>> : key \in {v \in Spaced(t) : Complex(v)}}

RECURSIVE Entries(_)
Entries(t) ==
  {<<e>> : e \in Entry(t)} \union
  UNION {{<<e>> \o rest : e \in Entry(UpTo(t, i - 1)), rest \in Entries(From(t, i + 1))} :
           i \in Places(t, ",")}

\* The last of several entries with one key counts.
MapOf(entries) ==
  LET keyed == {n \in DOMAIN entries : entries[n] # <<>>}
      Latest(key) == Max({n \in keyed : entries[n][1] = key})
  IN Value("map", [key \in {entries[n][1] : n \in keyed} |-> entries[Latest(key)][2]])

\* What is left of a list without the comma allowed at its end.
Uncomma(t) == {UpTo(t, i - 1) : i \in {k \in Places(t, ",") : AllIn(From(t, k + 1), Space)}}

\* Sections 3.3 and 3.4: the size, and that many.
Denotes(t) ==
  LET body == Inside(t, 2)
      Sized(i) == i > 1 /\ AllIn(UpTo(body, i - 1), Digit) /\ Fits(UpTo(body, i - 1))
      bars == {i \in Places(body, "|") : Sized(i)}
      Lists(Of(_), u) == Of(u) \union UNION {Of(w) : w \in Uncomma(u)}
      Arrays(i) ==
        LET u == From(body, i + 1)
            none == IF Trim(u) = <<>> \/ (u # <<>> /\ Trim(u) = <<",">> /\ u[Len(u)] = ",")
                      THEN {<<>>} ELSE {}
        IN {es \in none \union Lists(Elements, u) : Counts(UpTo(body, i - 1), Len(es))}
      Maps(i) ==
        LET u == From(body, i + 1)
            none == IF Trim(u) = <<>> THEN {<<>>} ELSE {}
        IN {es \in none \union Lists(Entries, u) : Counts(UpTo(body, i - 1), Len(es))}
  IN Numbers(t) \union Strings(t)
     \union (IF t = <<"n", "i", "l">> THEN {Nil} ELSE {})
     \union (IF Framed(t, <<"(", "{">>, <<"}", ")">>)
               THEN {Value("array", es) : es \in UNION {Arrays(i) : i \in bars}} ELSE {})
     \union (IF Framed(t, <<"(", "[">>, <<"]", ")">>)
               THEN {MapOf(es) : es \in UNION {Maps(i) : i \in bars}} ELSE {})

\* A line ends at its end or at a zero byte.
LineDenotes(t) ==
  Denotes(t) \union UNION {Denotes(UpTo(t, i - 1)) : i \in Places(t, NUL)}
=============================================================================
