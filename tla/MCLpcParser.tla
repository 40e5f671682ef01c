---------------------------- MODULE MCLpcParser ----------------------------
(***************************************************************************)
(* Texts on which the parser is checked: the values of a few texts, each    *)
(* with up to MaxEdits characters changed, added or taken out, and files    *)
(* that the MUD is still writing when they are read.                       *)
(***************************************************************************)
EXTENDS LpcGrammar

CONSTANTS
  Seeds,     \* the texts of values to begin with
  Alphabet,  \* the characters put into them
  Files,     \* the files that the MUD writes
  MaxEdits   \* bound of the model: edits of one text

VARIABLES
  text,    \* the text of a value
  edits,   \* how many edits made it
  file,    \* a file, as it will be
  written  \* how much of it can be read by now

vars == <<text, edits, file, written>>

Init ==
  \/ text \in Seeds /\ edits = 0 /\ file = <<>> /\ written = 0
  \/ text = <<>> /\ edits = MaxEdits /\ file \in Files /\ written = 0

Edit(t) == edits < MaxEdits /\ edits' = edits + 1 /\ text' = t /\ UNCHANGED <<file, written>>

Change(i, c) == Edit([text EXCEPT ![i] = c])
Add(i, c) == Edit(SubSeq(text, 1, i) \o <<c>> \o SubSeq(text, i + 1, Len(text)))
TakeOut(i) == Edit(SubSeq(text, 1, i - 1) \o SubSeq(text, i + 1, Len(text)))

WriteOn ==
  /\ written < Len(file)
  /\ written' = written + 1
  /\ UNCHANGED <<text, edits, file>>

Next ==
  \/ \E i \in DOMAIN text, c \in Alphabet : Change(i, c)
  \/ \E i \in 0 .. Len(text), c \in Alphabet : Add(i, c)
  \/ \E i \in DOMAIN text : TakeOut(i)
  \/ WriteOn

Spec == Init /\ [][Next]_vars

-----------------------------------------------------------------------------

\* The parser takes exactly the texts of the format, and makes of each the
\* one value it denotes: sizes, nesting, commas, escapes, numbers.
ParsesTheFormat ==
  LET line == ParseLine(<<"k", " ">> \o text)
      leading == text # <<>> /\ text[1] \in Space
  IN IF line.ok THEN LineDenotes(text) = {line.val[2]}
     ELSE leading \/ LineDenotes(text) = {}

Number(v) == v.type \in {"int", "float"}

\* Is v what whole says, or a number that begins it?
Announces(v, whole) ==
  \/ v = whole
  \/ Number(v) /\ Number(whole) /\ IsPrefix(v.is, whole.is)

SaysNothingElse(read, whole) ==
  read.ok => \A k \in DOMAIN read.val :
               k \in DOMAIN whole.val /\ Announces(read.val[k], whole.val[k])

\* oparser.go:54-57: a file may be read while it is being written.  What such a
\* read gives under any key is what the file is going to say, or, of a number
\* at the very end, the first digits.
TornReadsAreNotNew ==
  SaysNothingElse(ParseObject(SubSeq(file, 1, written)), ParseObject(file))

-----------------------------------------------------------------------------
MCAlphabet == {"(", "}", "]", ")", "|", ",", ":", "0", "2", "\"", "\\", " ", "-", ".", "=", NUL}

MCSeeds ==
  {<<"-", "0", "2">>,
   <<"2", ".", "0", "=", "a", "2">>,
   <<"n", "i", "l">>,
   <<"\"", "a", "\\", "n", "\"">>,
   <<"(", "{", "0", "|", "}", ")">>,
   <<"(", "{", "2", "|", "1", ",", "\"", ",", "\"", "}", ")">>,
   <<"(", "[", "2", "|", "1", ":", "2", ",", "\"", "1", "\"", ":", "2", ".", "5", "]", ")">>,
   <<"(", "[", "1", "|", "(", "{", "0", "|", "}", ")", ":", "2", "]", ")">>,
   <<"(", "{", "1", "|", "(", "[", "1", "|", "n", "i", "l", ":", "2", "]", ")", "}", ")">>}

MCFiles ==
  {<<"#", " ", "a", "\n",
     "p", " ", "\"", "$", "\\", "\"", "x", "\"", "\n",
     "l", "2", " ", "3", "1", "\n",
     "m", " ", "(", "[", "1", "|", "\"", "a", "\"", ":", "(", "{", "2", "|", "-", "1", ",", "2", ".", "5", "}", ")", "]", ")", "\n",
     "\n",
     "g", " ", "-", "1", ".", "5", "0", "=", "b", "f", "\n",
     "n", " ", "n", "i", "l", "\n">>}
=============================================================================
