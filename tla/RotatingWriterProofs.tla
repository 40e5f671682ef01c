------------------------ MODULE RotatingWriterProofs ------------------------
(***************************************************************************)
(* For any limit, any number of lines, files and seconds: what the log      *)
(* files keep, how long they get, and in which order the archives are.      *)
(***************************************************************************)
EXTENDS RotatingWriter, FiniteSetTheorems, SequenceTheorems, TLAPS

-----------------------------------------------------------------------------
(* The inductive invariant.  Its parts are about a writer (g, a, off: the   *)
(* open file, its approxSize and offset) and a disk (w, ls: where the files *)
(* are and their lines), so that they can be said of what Rotate and        *)
(* OpenForAppend result in, before a line is written.                       *)

Elements(s) == {s[k] : k \in DOMAIN s}
LinesOf(ls, x) == Elements(ls[x])
Path(w) == {x \in File : w[x] = <<"path">>}

\* The lines up to n are in files that exist, at most one of them at the path.
DiskOK(w, ls, n) ==
  /\ w \in [File -> Where]
  /\ ls \in [File -> Seq(1 .. n)]
  /\ \A x \in File : Len(ls[x]) <= n
  /\ \A x, y \in Path(w) : x = y
  /\ \A x \in File : w[x] = <<"none">> => ls[x] = <<>>

\* As long as local time has not gone back, archives are of the past, in the
\* order of their lines, and nothing in them is younger than the log.
OrderOK(w, ls, t) ==
  setbacks = 0 =>
    /\ \A x \in File : \A s \in 0 .. MaxTime : w[x] = Archive(s) => s <= t
    /\ \A x \in File : \A y \in Path(w) : \A s \in 0 .. MaxTime : w[x] = Archive(s) =>
         \A l \in LinesOf(ls, x), m \in LinesOf(ls, y) : l < m
    /\ \A x, y \in File : \A s, u \in 0 .. MaxTime :
         w[x] = Archive(s) /\ w[y] = Archive(u) /\ s < u =>
           \A l \in LinesOf(ls, x), m \in LinesOf(ls, y) : l < m

\* The writer's file is no archive, and behind its offset are only the lines of
\* others.
WriterOK(g, a, off, w, ls, n, acc) ==
  /\ g \in SUBSET File
  /\ \A x, y \in g : x = y
  /\ a \in 0 .. n
  /\ g = {} => off = AtEnd
  /\ off = AtEnd \/ off \in 0 .. n
  /\ \A x \in g : w[x] \in {<<"path">>, <<"taken">>}
  /\ off # AtEnd => \A x \in g : /\ off <= Len(ls[x])
                                 /\ \A k \in off + 1 .. Len(ls[x]) : ls[x][k] \notin acc

\* approxSize counts at least the writer's own lines.
BoundOK(g, a, ls, acc) ==
  MaxSize > 1 =>
    /\ \A x \in File : Cardinality(LinesOf(ls, x) \intersect acc) < MaxSize
    /\ \A x \in g : Cardinality(LinesOf(ls, x) \intersect acc) <= a

\* Once there is an archive of this second, the log has only lines of it.
Undisturbed == Burst < MaxSize /\ ~failing /\ setbacks = 0

KeptOK(a, w, ls, t, b, acc) ==
  Undisturbed =>
    /\ \A l \in acc : \E x \in File : l \in LinesOf(ls, x) /\ w[x] # <<"clobbered">>
    /\ \A x \in File : w[x] = Archive(t) =>
         a <= b /\ \A y \in Path(w) : Len(ls[y]) <= b

Sound(g, a, off, w, ls, n, t, b, acc) ==
  /\ DiskOK(w, ls, n)
  /\ OrderOK(w, ls, t)
  /\ WriterOK(g, a, off, w, ls, n, acc)
  /\ BoundOK(g, a, ls, acc)
  /\ KeptOK(a, w, ls, t, b, acc)

Shape ==
  /\ failing \in Failures
  /\ now \in 0 .. MaxTime
  /\ setbacks \in 0 .. MaxSetbacks
  /\ logged \in 0 .. Burst
  /\ up \in {"down", "up", "closed"}
  /\ last \in 0 .. MaxLines
  /\ accepted \in SUBSET (1 .. last)

IInv ==
  /\ Shape
  /\ Sound(f, approx, offset, where, lines, last, now, logged, accepted)

-----------------------------------------------------------------------------
(* The places a file can be in are different ones.                          *)

LEMMA Places ==
  /\ \A s \in 0 .. MaxTime : Archive(s) \in Where
  /\ \A v \in {"none", "path", "taken", "clobbered"} : <<v>> \in Where
  /\ \A s, v : Archive(s) # <<v>>
  /\ \A s, t : Archive(s) = Archive(t) => s = t
<1>1. \A s, v : Archive(s) # <<v>>
  BY DEF Archive
<1>2. \A s, t : Archive(s) = Archive(t) => s = t
  BY DEF Archive
<1>3. \A s \in 0 .. MaxTime : Archive(s) \in Where
  BY DEF Where
<1>4. \A v \in {"none", "path", "taken", "clobbered"} : <<v>> \in Where
  BY DEF Where
<1> QED
  BY <1>1, <1>2, <1>3, <1>4

LEMMA Bounds ==
  /\ MaxSize \in Nat \ {0}
  /\ MaxSize <= MaxLines
  /\ DriftLimit \in Nat
  /\ Burst \in Nat
  /\ MaxSetbacks \in Nat
  /\ MaxLines \in Nat
  /\ MaxFiles \in Nat
  /\ MaxTime \in Nat
BY RotatingWriterAssumption

-----------------------------------------------------------------------------
(* The lines of a file.                                                     *)

\* A file has no more lines than its length.
LEMMA FewLines ==
  ASSUME NEW ls, NEW x, NEW n \in Nat, ls[x] \in Seq(1 .. n), NEW acc
  PROVE  /\ IsFiniteSet(LinesOf(ls, x))
         /\ IsFiniteSet(LinesOf(ls, x) \intersect acc)
         /\ Cardinality(LinesOf(ls, x) \intersect acc) \in Nat
         /\ Cardinality(LinesOf(ls, x) \intersect acc) <= Len(ls[x])
<1> DEFINE Q == LinesOf(ls, x)
           N == Len(ls[x])
           h == [k \in 1 .. N |-> ls[x][k]]
<1>1. N \in Nat /\ DOMAIN ls[x] = 1 .. N
  BY LenProperties
<1>2. h \in Surjection(1 .. N, Q)
  BY <1>1, Zenon DEF Surjection, LinesOf, Elements
<1>3. IsFiniteSet(1 .. N) /\ Cardinality(1 .. N) = N
  BY <1>1, FS_Interval
<1>4. IsFiniteSet(Q) /\ Cardinality(Q) <= N
  <2> HIDE DEF Q, N, h
  <2> QED
    BY <1>2, <1>3, FS_Surjection
<1>5. Q \intersect acc \in SUBSET Q
  OBVIOUS
<1>6. IsFiniteSet(Q \intersect acc) /\ Cardinality(Q \intersect acc) <= Cardinality(Q)
  <2> HIDE DEF Q
  <2> QED
    BY <1>4, <1>5, FS_Subset
<1>7. Cardinality(Q \intersect acc) \in Nat /\ Cardinality(Q) \in Nat
  BY <1>4, <1>6, FS_CardinalityType
<1> QED
  BY <1>1, <1>4, <1>6, <1>7

\* An empty file has none.
LEMMA EmptyFile ==
  ASSUME NEW ls, NEW x, ls[x] = <<>>
  PROVE  LinesOf(ls, x) = {} /\ Len(ls[x]) = 0
BY DEF LinesOf, Elements

\* A line is one of the numbers given out.
LEMMA LineNumbers ==
  ASSUME NEW ls, NEW x, NEW n \in Nat, ls[x] \in Seq(1 .. n)
  PROVE  LinesOf(ls, x) \subseteq 1 .. n
<1>1. \A k \in DOMAIN ls[x] : ls[x][k] \in 1 .. n
  BY ElementOfSeq, LenProperties
<1> QED
  BY <1>1 DEF LinesOf, Elements

-----------------------------------------------------------------------------
(* The file the writer has open: none, the one at the path, a new one.      *)

\* The writer closes its file.
LEMMA ForgetSound ==
  ASSUME NEW g, NEW a, NEW off, NEW w, NEW ls, NEW n, NEW t, NEW b, NEW acc,
         Sound(g, a, off, w, ls, n, t, b, acc)
  PROVE  Sound({}, a, AtEnd, w, ls, n, t, b, acc)
<1>1. WriterOK({}, a, AtEnd, w, ls, n, acc)
  BY DEF Sound, WriterOK
<1>2. BoundOK({}, a, ls, acc)
  BY DEF Sound, BoundOK
<1> QED
  BY <1>1, <1>2 DEF Sound

\* The writer, with this file or without one, opens the file at the path for
\* appending, or corrects approxSize to its length.
LEMMA AdoptSound ==
  ASSUME NEW g, NEW a, NEW off, NEW w, NEW ls, NEW n \in Nat, NEW t, NEW b, NEW acc,
         Sound(g, a, off, w, ls, n, t, b, acc),
         NEW x \in Path(w), NEW off2, off2 = AtEnd \/ (g = {x} /\ off2 = off)
  PROVE  Sound({x}, Len(ls[x]), off2, w, ls, n, t, b, acc)
<1>1. x \in File /\ w[x] = <<"path">> /\ ls[x] \in Seq(1 .. n) /\ Len(ls[x]) <= n
  BY DEF Sound, DiskOK, Path
<1>2. Len(ls[x]) \in 0 .. n
  BY <1>1, LenProperties
<1>3. WriterOK({x}, Len(ls[x]), off2, w, ls, n, acc)
  <2>1. {x} \in SUBSET File /\ \A y, z \in {x} : y = z
    BY <1>1
  <2>2. \A y \in {x} : w[y] \in {<<"path">>, <<"taken">>}
    BY <1>1
  <2>3. off2 = AtEnd \/ off2 \in 0 .. n
    BY DEF Sound, WriterOK
  <2>4. off2 # AtEnd => \A y \in {x} : /\ off2 <= Len(ls[y])
                                       /\ \A k \in off2 + 1 .. Len(ls[y]) : ls[y][k] \notin acc
    BY DEF Sound, WriterOK
  <2> QED
    BY <1>2, <2>1, <2>2, <2>3, <2>4 DEF WriterOK
<1>4. BoundOK({x}, Len(ls[x]), ls, acc)
  BY <1>1, FewLines DEF Sound, BoundOK
<1>5. KeptOK(Len(ls[x]), w, ls, t, b, acc)
  BY DEF Sound, KeptOK
<1> QED
  BY <1>3, <1>4, <1>5 DEF Sound

\* A new file is at the path, and the writer has it open.
LEMMA CreateSound ==
  ASSUME NEW a, NEW w, NEW ls, NEW n \in Nat, NEW t, NEW b \in Nat, NEW acc,
         Sound({}, a, AtEnd, w, ls, n, t, b, acc),
         Path(w) = {}, NEW x \in File, w[x] = <<"none">>,
         NEW off \in {AtEnd, 0}
  PROVE  Sound({x}, 0, off, [w EXCEPT ![x] = <<"path">>], ls, n, t, b, acc)
<1> DEFINE w2 == [w EXCEPT ![x] = <<"path">>]
<1>1. w \in [File -> Where] /\ ls[x] = <<>> /\ ls \in [File -> Seq(1 .. n)]
  BY DEF Sound, DiskOK
<1>2. w2 \in [File -> Where] /\ w2[x] = <<"path">>
  BY <1>1, Places
<1>3. \A y \in File : y # x => w2[y] = w[y]
  BY <1>1
<1>4. Path(w2) = {x}
  BY <1>2, <1>3 DEF Path
<1>5. \A y \in File, s \in 0 .. MaxTime : w2[y] = Archive(s) => y # x /\ w[y] = Archive(s)
  BY <1>2, <1>3, Places
<1>6. LinesOf(ls, x) = {} /\ Len(ls[x]) = 0
  BY <1>1, EmptyFile
<1> HIDE DEF w2
<1>7. DiskOK(w2, ls, n)
  BY <1>1, <1>2, <1>3, <1>4, <1>5, Places DEF Sound, DiskOK
<1>8. OrderOK(w2, ls, t)
  BY <1>4, <1>5, <1>6 DEF Sound, OrderOK
<1>9. WriterOK({x}, 0, off, w2, ls, n, acc)
  <2>1. off = AtEnd \/ off \in 0 .. n
    OBVIOUS
  <2>2. off # AtEnd => off <= 0 /\ (off + 1) .. 0 = {}
    BY DEF AtEnd
  <2>3. {x} \in SUBSET File /\ \A y, z \in {x} : y = z
    OBVIOUS
  <2>4. \A y \in {x} : w2[y] \in {<<"path">>, <<"taken">>}
    BY <1>2
  <2>5. off # AtEnd => \A y \in {x} : /\ off <= Len(ls[y])
                                      /\ \A k \in off + 1 .. Len(ls[y]) : ls[y][k] \notin acc
    BY <1>6, <2>2
  <2>6. 0 \in 0 .. n
    OBVIOUS
  <2> QED
    BY <2>1, <2>3, <2>4, <2>5, <2>6 DEF WriterOK
<1>10. BoundOK({x}, 0, ls, acc)
  <2>1. Cardinality(LinesOf(ls, x) \intersect acc) = 0
    <3>1. LinesOf(ls, x) \intersect acc = {}
      BY <1>6
    <3> QED
      BY <3>1, FS_EmptySet
  <2> QED
    BY <2>1 DEF Sound, BoundOK
<1>11. KeptOK(0, w2, ls, t, b, acc)
  <2>1. \A y \in File : w[y] # <<"clobbered">> => w2[y] # <<"clobbered">>
    BY <1>2, <1>3
  <2>2. \A y \in File : w2[y] = Archive(t) => 0 <= b /\ \A z \in Path(w2) : Len(ls[z]) <= b
    BY <1>4, <1>6
  <2>3. Sound({}, a, AtEnd, w, ls, n, t, b, acc) =>
          (Undisturbed =>
             \A l \in acc : \E y \in File : l \in LinesOf(ls, y) /\ w[y] # <<"clobbered">>)
    BY DEF Sound, KeptOK
  <2> QED
    BY <2>1, <2>2, <2>3 DEF KeptOK
<1> QED
  BY <1>7, <1>8, <1>9, <1>10, <1>11 DEF Sound, w2

\* A file left at the path is opened truncated: accepted lines are lost, but
\* no call fails in KeptOK.
LEMMA TruncateSound ==
  ASSUME NEW a, NEW w, NEW ls, NEW n \in Nat, NEW t, NEW b, NEW acc,
         failing, Sound({}, a, AtEnd, w, ls, n, t, b, acc), NEW x \in Path(w)
  PROVE  Sound({x}, 0, 0, w, [ls EXCEPT ![x] = <<>>], n, t, b, acc)
<1> DEFINE ls2 == [ls EXCEPT ![x] = <<>>]
<1>1. ls \in [File -> Seq(1 .. n)] /\ x \in File /\ w[x] = <<"path">>
  BY DEF Sound, DiskOK, Path
<1>2. ls2 \in [File -> Seq(1 .. n)]
  BY <1>1, EmptySeq
<1>3. ls2[x] = <<>>
  BY <1>1
<1>4. \A y \in File : y # x => ls2[y] = ls[y]
  BY <1>1
<1> HIDE DEF ls2
<1>5. LinesOf(ls2, x) = {} /\ Len(ls2[x]) = 0
  BY <1>3, EmptyFile
<1>6. \A y \in File : y # x => LinesOf(ls2, y) = LinesOf(ls, y) /\ Len(ls2[y]) = Len(ls[y])
  BY <1>4 DEF LinesOf, Elements
<1>7. DiskOK(w, ls2, n)
  <2>1. \A y \in File : Len(ls2[y]) <= n
    BY <1>5, <1>6 DEF Sound, DiskOK
  <2>2. \A y \in File : w[y] = <<"none">> => ls2[y] = <<>>
    BY <1>3, <1>4 DEF Sound, DiskOK
  <2> QED
    BY <1>2, <2>1, <2>2 DEF Sound, DiskOK
<1>8. OrderOK(w, ls2, t)
  <2>1. \A y \in File : LinesOf(ls2, y) \subseteq LinesOf(ls, y)
    BY <1>5, <1>6
  <2> QED
    BY <2>1 DEF Sound, OrderOK, Path
<1>9. WriterOK({x}, 0, 0, w, ls2, n, acc)
  <2>1. (0 + 1) .. 0 = {}
    OBVIOUS
  <2>2. {x} \in SUBSET File /\ \A y, z \in {x} : y = z
    BY <1>1
  <2>3. \A y \in {x} : w[y] \in {<<"path">>, <<"taken">>}
    BY <1>1
  <2>4. \A y \in {x} : /\ 0 <= Len(ls2[y])
                       /\ \A k \in 0 + 1 .. Len(ls2[y]) : ls2[y][k] \notin acc
    BY <1>5, <2>1
  <2>5. 0 \in 0 .. n
    OBVIOUS
  <2>6. {x} # {}
    OBVIOUS
  <2> QED
    BY <2>2, <2>3, <2>4, <2>5, <2>6 DEF WriterOK
<1>10. BoundOK({x}, 0, ls2, acc)
  <2>1. \A y \in File : \/ LinesOf(ls2, y) \intersect acc = {}
                        \/ LinesOf(ls2, y) \intersect acc = LinesOf(ls, y) \intersect acc
    BY <1>5, <1>6
  <2>2. LinesOf(ls2, x) \intersect acc = {}
    BY <1>5
  <2> QED
    BY <2>1, <2>2, FS_EmptySet, Bounds DEF Sound, BoundOK
<1>11. KeptOK(0, w, ls2, t, b, acc)
  BY DEF KeptOK, Undisturbed
<1> QED
  BY <1>7, <1>8, <1>9, <1>10, <1>11 DEF Sound, ls2

-----------------------------------------------------------------------------
(* The log becomes an archive, or is taken away.                            *)

\* The rename of a rotation, before a file is created.  It destroys nothing
\* when there is no archive of this second yet.
LEMMA RenamedSound ==
  ASSUME NEW a, NEW a2 \in {a, 0}, NEW ls, NEW n \in Nat, NEW b \in Nat, NEW acc,
         now \in 0 .. MaxTime,
         Sound({}, a, AtEnd, where, ls, n, now, b, acc),
         failing \/ a2 = 0,
         Undisturbed => \A x \in File : where[x] # Archive(now)
  PROVE  /\ Sound({}, a2, AtEnd, Renamed, ls, n, now, b, acc)
         /\ Path(Renamed) = {}
         /\ \A x \in File : Renamed[x] = <<"none">> <=> where[x] = <<"none">>
<1> DEFINE R == Renamed
<1>1. /\ where \in [File -> Where]
      /\ Path(where) = AtPath
      /\ \A x, y \in Path(where) : x = y
  BY DEF Sound, DiskOK, Path, AtPath
<1>2. \A x \in File : x \in Path(where) => R[x] = Archive(now)
  BY <1>1 DEF Renamed
<1>3. \A x \in File : x \notin Path(where) =>
        \/ R[x] = where[x]
        \/ R[x] = <<"clobbered">> /\ where[x] = Archive(now)
  BY <1>1 DEF Renamed
<1>4. \A x, y \in File : x \in Path(where) /\ where[y] = Archive(now) =>
        R[y] = <<"clobbered">>
  BY <1>1, Places DEF Renamed, Path
<1>5. R \in [File -> Where]
  <2>1. R = [x \in File |-> R[x]]
    BY DEF Renamed
  <2>2. \A x \in File : R[x] \in Where
    BY <1>1, <1>2, <1>3, Places
  <2> HIDE DEF R
  <2> QED
    BY <2>1, <2>2
<1> HIDE DEF R
<1>6. Path(R) = {}
  BY <1>2, <1>3, Places DEF Path
<1>7. \A x \in File : R[x] = <<"none">> <=> where[x] = <<"none">>
  BY <1>2, <1>3, Places DEF Path
<1>8. \A x \in File, s \in 0 .. MaxTime : R[x] = Archive(s) =>
        \/ where[x] = Archive(s)
        \/ x \in Path(where) /\ s = now
  BY <1>2, <1>3, Places
<1>9. DiskOK(R, ls, n)
  BY <1>5, <1>6, <1>7 DEF Sound, DiskOK
<1>10. OrderOK(R, ls, now)
  <2>0. setbacks = 0 => \A x \in File, s \in 0 .. MaxTime : R[x] = Archive(s) => s <= now
    BY <1>8 DEF Sound, OrderOK
  <2> SUFFICES ASSUME setbacks = 0,
                      NEW x \in File, NEW y \in File,
                      NEW s \in 0 .. MaxTime, NEW t \in 0 .. MaxTime,
                      R[x] = Archive(s), R[y] = Archive(t), s < t,
                      NEW l \in LinesOf(ls, x), NEW m \in LinesOf(ls, y)
               PROVE  l < m
    BY <1>6, <2>0 DEF OrderOK
  <2>1. CASE where[x] = Archive(s) /\ where[y] = Archive(t)
    BY <2>1 DEF Sound, OrderOK
  <2>2. CASE where[x] = Archive(s) /\ y \in Path(where)
    BY <2>2 DEF Sound, OrderOK
  <2>3. s <= now /\ t <= now
    BY <2>0
  <2>4. ~ (x \in Path(where) /\ s = now)
    BY <2>3
  <2> QED
    BY <1>8, <2>1, <2>2, <2>4
<1>11. WriterOK({}, a2, AtEnd, R, ls, n, acc)
  <2>1. a2 \in 0 .. n
    BY DEF Sound, WriterOK
  <2> QED
    BY <2>1 DEF WriterOK
<1>12. BoundOK({}, a2, ls, acc)
  BY DEF Sound, BoundOK
<1>13. KeptOK(a2, R, ls, now, b, acc)
  <2> SUFFICES ASSUME Undisturbed
               PROVE  /\ \A l \in acc : \E x \in File :
                           l \in LinesOf(ls, x) /\ R[x] # <<"clobbered">>
                      /\ \A x \in File : R[x] = Archive(now) =>
                           a2 <= b /\ \A y \in Path(R) : Len(ls[y]) <= b
    BY DEF KeptOK
  <2>1. \A x \in File : where[x] # <<"clobbered">> => R[x] # <<"clobbered">>
    BY <1>2, <1>3, Places
  <2>2. \A l \in acc : \E x \in File : l \in LinesOf(ls, x) /\ where[x] # <<"clobbered">>
    BY DEF Sound, KeptOK
  <2>3. a2 <= b
    BY DEF Undisturbed
  <2> QED
    BY <1>6, <2>1, <2>2, <2>3
<1> QED
  BY <1>6, <1>7, <1>9, <1>10, <1>11, <1>12, <1>13 DEF Sound, R

\* Somebody takes the log away; who has it open writes into it nevertheless.
LEMMA MoveSound ==
  ASSUME NEW g, NEW a, NEW off, NEW w, NEW ls, NEW n, NEW t, NEW b, NEW acc,
         Sound(g, a, off, w, ls, n, t, b, acc),
         NEW x \in Path(w)
  PROVE  Sound(g, a, off, [w EXCEPT ![x] = <<"taken">>], ls, n, t, b, acc)
<1> DEFINE w2 == [w EXCEPT ![x] = <<"taken">>]
<1>1. w \in [File -> Where] /\ x \in File
  BY DEF Sound, DiskOK, Path
<1>2. w2 \in [File -> Where] /\ w2[x] = <<"taken">>
  BY <1>1, Places
<1>3. \A y \in File : y # x => w2[y] = w[y]
  BY <1>1
<1> HIDE DEF w2
<1>5. <<"taken">> # <<"path">> /\ <<"taken">> # <<"none">> /\ <<"taken">> # <<"clobbered">>
  OBVIOUS
<1>6. \A y \in Path(w2) : y \in Path(w)
  BY <1>2, <1>3, <1>5 DEF Path
<1>7. \A y \in File, s \in 0 .. MaxTime : w2[y] = Archive(s) => w[y] = Archive(s)
  BY <1>2, <1>3, Places
<1>8. DiskOK(w2, ls, n)
  <2>1. \A y \in File : w2[y] = <<"none">> => w[y] = <<"none">>
    BY <1>2, <1>3, <1>5
  <2> QED
    BY <1>2, <1>6, <1>7, <2>1 DEF Sound, DiskOK
<1>9. OrderOK(w2, ls, t)
  BY <1>6, <1>7 DEF Sound, OrderOK
<1>10. WriterOK(g, a, off, w2, ls, n, acc)
  <2>1. \A y \in g : w2[y] \in {<<"path">>, <<"taken">>}
    BY <1>2, <1>3 DEF Sound, WriterOK
  <2> QED
    BY <2>1 DEF Sound, WriterOK
<1>11. KeptOK(a, w2, ls, t, b, acc)
  <2> SUFFICES ASSUME Undisturbed
               PROVE  /\ \A l \in acc : \E y \in File :
                           l \in LinesOf(ls, y) /\ w2[y] # <<"clobbered">>
                      /\ \A y \in File : w2[y] = Archive(t) =>
                           a <= b /\ \A z \in Path(w2) : Len(ls[z]) <= b
    BY DEF KeptOK
  <2>1. \A y \in File : w[y] # <<"clobbered">> => w2[y] # <<"clobbered">>
    BY <1>2, <1>3, <1>5
  <2>2. \A y \in File : w2[y] = Archive(t) => w[y] = Archive(t)
    BY <1>2, <1>3, Places
  <2> QED
    BY <1>6, <2>1, <2>2 DEF Sound, KeptOK
<1> QED
  BY <1>8, <1>9, <1>10, <1>11 DEF Sound, w2

\* Somebody else makes an empty log where there is none.
LEMMA MakeSound ==
  ASSUME NEW g, NEW a, NEW off, NEW w, NEW ls, NEW n \in Nat, NEW t, NEW b \in Nat, NEW acc,
         Sound(g, a, off, w, ls, n, t, b, acc),
         Path(w) = {}, NEW x \in File, w[x] = <<"none">>
  PROVE  Sound(g, a, off, [w EXCEPT ![x] = <<"path">>], ls, n, t, b, acc)
<1> DEFINE w2 == [w EXCEPT ![x] = <<"path">>]
<1>1. w \in [File -> Where] /\ ls[x] = <<>> /\ ls \in [File -> Seq(1 .. n)]
  BY DEF Sound, DiskOK
<1>2. w2 \in [File -> Where] /\ w2[x] = <<"path">>
  BY <1>1, Places
<1>3. \A y \in File : y # x => w2[y] = w[y]
  BY <1>1
<1>4. Path(w2) = {x}
  BY <1>2, <1>3 DEF Path
<1>5. \A y \in File, s \in 0 .. MaxTime : w2[y] = Archive(s) => y # x /\ w[y] = Archive(s)
  BY <1>2, <1>3, Places
<1>6. LinesOf(ls, x) = {} /\ Len(ls[x]) = 0
  BY <1>1, EmptyFile
<1> HIDE DEF w2
<1>7. DiskOK(w2, ls, n)
  BY <1>1, <1>2, <1>3, <1>4, Places DEF Sound, DiskOK
<1>8. OrderOK(w2, ls, t)
  BY <1>4, <1>5, <1>6 DEF Sound, OrderOK
<1>9. WriterOK(g, a, off, w2, ls, n, acc)
  <2>1. \A y \in g : w2[y] \in {<<"path">>, <<"taken">>}
    BY <1>2, <1>3 DEF Sound, WriterOK
  <2> QED
    BY <2>1 DEF Sound, WriterOK
<1>10. KeptOK(a, w2, ls, t, b, acc)
  <2> SUFFICES ASSUME Undisturbed
               PROVE  /\ \A l \in acc : \E y \in File :
                           l \in LinesOf(ls, y) /\ w2[y] # <<"clobbered">>
                      /\ \A y \in File : w2[y] = Archive(t) =>
                           a <= b /\ \A z \in Path(w2) : Len(ls[z]) <= b
    BY DEF KeptOK
  <2>1. \A y \in File : w[y] # <<"clobbered">> => w2[y] # <<"clobbered">>
    BY <1>2, <1>3
  <2>2. \A y \in File : w2[y] = Archive(t) => w[y] = Archive(t)
    BY <1>2, <1>3, Places
  <2> QED
    BY <1>4, <1>6, <2>1, <2>2 DEF Sound, KeptOK
<1> QED
  BY <1>7, <1>8, <1>9, <1>10 DEF Sound, w2

-----------------------------------------------------------------------------
(* A line is written.                                                       *)

\* Append and EXCEPT as the two ways to make a sequence of another.
LEMMA Appended ==
  ASSUME NEW S, NEW s \in Seq(S), NEW e \in S, NEW r, r = Append(s, e)
  PROVE  /\ r \in Seq(S)
         /\ Len(r) = Len(s) + 1
         /\ \A k \in 1 .. Len(s) : r[k] = s[k]
         /\ r[Len(s) + 1] = e
BY AppendProperties

LEMMA Replaced ==
  ASSUME NEW S, NEW s \in Seq(S), NEW i \in 1 .. Len(s), NEW e \in S,
         NEW r, r = [s EXCEPT ![i] = e]
  PROVE  /\ r \in Seq(S)
         /\ Len(r) = Len(s)
         /\ \A k \in 1 .. Len(s) : r[k] = IF k = i THEN e ELSE s[k]
BY ExceptSeq

\* A write of the line n + 1 has made r of s: the line is added, or replaces the
\* one at the offset; the others stay.
WrittenTo(r, s, off, n) ==
  /\ r \in Seq(1 .. n + 1)
  /\ Len(r) \in {Len(s), Len(s) + 1}
  /\ off # AtEnd => off + 1 <= Len(r)
  /\ \A k \in 1 .. Len(r) : r[k] = n + 1 \/ (k <= Len(s) /\ r[k] = s[k])
  /\ \A k \in 1 .. Len(s) : off = AtEnd \/ k # off + 1 => r[k] = s[k]
  /\ \E k \in 1 .. Len(r) : r[k] = n + 1

LEMMA WrittenLines ==
  ASSUME NEW n \in Nat, NEW s \in Seq(1 .. n), NEW off,
         off = AtEnd \/ (off \in Nat /\ off <= Len(s)),
         NEW r, r = Written(s, off, n + 1)
  PROVE  WrittenTo(r, s, off, n)
<1> DEFINE N == Len(s)
<1>1. s \in Seq(1 .. n + 1) /\ n + 1 \in 1 .. n + 1
  <2>1. Seq(1 .. n) \subseteq Seq(1 .. n + 1)
    BY SMT
  <2> QED
    BY <2>1
<1>2. N \in Nat
  BY <1>1, LenProperties
<1>3. CASE off = AtEnd \/ off = N
  <2>1. r = Append(s, n + 1)
    BY <1>3 DEF Written
  <2>2. /\ r \in Seq(1 .. n + 1)
        /\ Len(r) = N + 1
        /\ \A k \in 1 .. N : r[k] = s[k]
        /\ r[N + 1] = n + 1
    BY <1>1, <2>1, Appended, SMTT(60)
  <2> HIDE DEF N
  <2>3. N + 1 \in 1 .. Len(r) /\ Len(r) \in {N, N + 1}
    BY <1>2, <2>2
  <2>4. off # AtEnd => off + 1 <= Len(r)
    BY <1>2, <1>3, <2>2
  <2>5. ASSUME NEW k \in 1 .. Len(r)
        PROVE  r[k] = n + 1 \/ (k <= N /\ r[k] = s[k])
    <3>1. k \in 1 .. N \/ k = N + 1
      BY <1>2, <2>2
    <3> QED
      BY <2>2, <3>1
  <2>6. /\ \A k \in 1 .. N : off = AtEnd \/ k # off + 1 => r[k] = s[k]
        /\ \E k \in 1 .. Len(r) : r[k] = n + 1
    BY <2>2, <2>3
  <2> QED
    BY <2>2, <2>3, <2>4, <2>5, <2>6, Zenon DEF N, WrittenTo
<1>4. CASE off # AtEnd /\ off # N
  <2>1. r = [s EXCEPT ![off + 1] = n + 1]
    BY <1>4 DEF Written
  <2>2. off + 1 \in 1 .. N
    BY <1>2, <1>4
  <2>3. /\ r \in Seq(1 .. n + 1)
        /\ Len(r) = N
        /\ \A k \in 1 .. N : r[k] = IF k = off + 1 THEN n + 1 ELSE s[k]
    BY <1>1, <2>1, <2>2, Replaced
  <2> QED
    BY <1>2, <1>4, <2>2, <2>3 DEF WrittenTo
<1> QED
  BY <1>3, <1>4

\* The other files stay as they are.
LEMMA OthersStay ==
  ASSUME NEW n \in Nat, NEW ls, ls \in [File -> Seq(1 .. n)],
         NEW x \in File, NEW r \in Seq(1 .. n + 1), NEW ls2, ls2 = [ls EXCEPT ![x] = r]
  PROVE  ls2 \in [File -> Seq(1 .. n + 1)]
<1>1. Seq(1 .. n) \subseteq Seq(1 .. n + 1)
  BY SMT
<1>2. \A y \in File : ls2[y] \in Seq(1 .. n + 1)
  BY <1>1
<1>3. ls2 = [y \in File |-> ls2[y]]
  OBVIOUS
<1> QED
  BY <1>2, <1>3

\* A file that is no archive may get line n + 1: it is the youngest of all.
LEMMA GrowDisk ==
  ASSUME NEW n \in Nat, NEW w, NEW ls, NEW t, DiskOK(w, ls, n), OrderOK(w, ls, t),
         NEW x \in File, w[x] \in {<<"path">>, <<"taken">>},
         NEW ls2 \in [File -> Seq(1 .. n + 1)], Len(ls2[x]) <= n + 1,
         \A y \in File : y # x => ls2[y] = ls[y] /\ LinesOf(ls2, y) = LinesOf(ls, y),
         LinesOf(ls2, x) \subseteq LinesOf(ls, x) \union {n + 1}
  PROVE  DiskOK(w, ls2, n + 1) /\ OrderOK(w, ls2, t)
<1>1. ls \in [File -> Seq(1 .. n)]
  BY DEF DiskOK
<1>2. \A y \in File : y # x => ls2[y] = ls[y]
  OBVIOUS
<1>3. \A y \in File : y # x => LinesOf(ls2, y) = LinesOf(ls, y)
  OBVIOUS
<1>4. \A y \in File : LinesOf(ls, y) \subseteq 1 .. n
  BY <1>1, LineNumbers
<1>5. w[x] # <<"none">>
  OBVIOUS
<1>6. \A s \in 0 .. MaxTime : w[x] # Archive(s)
  BY Places
<1>7. DiskOK(w, ls2, n + 1)
  <2>1. \A y \in File : Len(ls2[y]) <= n + 1
    <3>1. \A y \in File : Len(ls[y]) <= n /\ Len(ls[y]) \in Nat
      BY <1>1, LenProperties DEF DiskOK
    <3> SUFFICES ASSUME NEW y \in File
                 PROVE  Len(ls2[y]) <= n + 1
      OBVIOUS
    <3>2. CASE y # x
      BY <1>2, <3>1, <3>2
    <3> QED
      BY <3>2
  <2>2. \A y \in File : w[y] = <<"none">> => ls2[y] = <<>>
    BY <1>2, <1>5 DEF DiskOK
  <2> QED
    BY <2>1, <2>2 DEF DiskOK
<1>8. OrderOK(w, ls2, t)
  <2>1. ASSUME setbacks = 0,
               NEW y \in File, NEW z \in Path(w), NEW s \in 0 .. MaxTime, w[y] = Archive(s),
               NEW l \in LinesOf(ls2, y), NEW m \in LinesOf(ls2, z)
        PROVE  l < m
    <3>1. y # x /\ l \in LinesOf(ls, y) /\ l \in 1 .. n /\ z \in File
      BY <1>3, <1>4, <1>6, <2>1 DEF Path
    <3>2. m \in LinesOf(ls, z) \/ m = n + 1
      BY <1>3, <3>1 DEF LinesOf
    <3>3. m \in LinesOf(ls, z) => l < m
      BY <2>1, <3>1 DEF OrderOK
    <3> QED
      BY <3>1, <3>2, <3>3
  <2>2. ASSUME setbacks = 0,
               NEW y \in File, NEW z \in File, NEW s \in 0 .. MaxTime, NEW u \in 0 .. MaxTime,
               w[y] = Archive(s), w[z] = Archive(u), s < u,
               NEW l \in LinesOf(ls2, y), NEW m \in LinesOf(ls2, z)
        PROVE  l < m
    <3>1. y # x /\ z # x
      BY <1>6, <2>2
    <3> QED
      BY <1>3, <2>2, <3>1 DEF OrderOK
  <2> QED
    BY <2>1, <2>2 DEF OrderOK
<1> QED
  BY <1>7, <1>8

\* As sets: all lines but the one replaced are still there, and the new one.
LEMMA LinesGrow ==
  ASSUME NEW n \in Nat, NEW s \in Seq(1 .. n), NEW off,
         off = AtEnd \/ (off \in Nat /\ off <= Len(s)),
         NEW r, WrittenTo(r, s, off, n)
  PROVE  /\ Elements(r) \subseteq Elements(s) \union {n + 1}
         /\ n + 1 \in Elements(r)
         /\ off = AtEnd => Elements(s) \subseteq Elements(r)
         /\ \A l \in Elements(s) :
              l \in Elements(r) \/ (off # AtEnd /\ off + 1 <= Len(s) /\ l = s[off + 1])
<1>1. /\ DOMAIN s = 1 .. Len(s)
      /\ Len(s) \in Nat
  BY LenProperties
<1>2. /\ r \in Seq(1 .. n + 1)
      /\ \A k \in 1 .. Len(r) : r[k] = n + 1 \/ (k <= Len(s) /\ r[k] = s[k])
      /\ \A k \in 1 .. Len(s) : off = AtEnd \/ k # off + 1 => r[k] = s[k]
      /\ \E k \in 1 .. Len(r) : r[k] = n + 1
      /\ Len(r) >= Len(s)
  <2>1. /\ r \in Seq(1 .. n + 1)
        /\ Len(r) \in {Len(s), Len(s) + 1}
        /\ \A k \in 1 .. Len(r) : r[k] = n + 1 \/ (k <= Len(s) /\ r[k] = s[k])
        /\ \A k \in 1 .. Len(s) : off = AtEnd \/ k # off + 1 => r[k] = s[k]
        /\ \E k \in 1 .. Len(r) : r[k] = n + 1
    BY DEF WrittenTo
  <2>2. Len(r) >= Len(s)
    BY <1>1, <2>1
  <2> QED
    BY <2>1, <2>2
<1>3. DOMAIN r = 1 .. Len(r) /\ Len(r) \in Nat
  BY <1>2, LenProperties
<1>4. Elements(r) = {r[k] : k \in 1 .. Len(r)}
  BY <1>3 DEF Elements
<1>5. Elements(s) = {s[k] : k \in 1 .. Len(s)}
  BY <1>1 DEF Elements
<1>6. n + 1 \in Elements(r)
  BY <1>2, <1>4
<1>7. Elements(r) \subseteq Elements(s) \union {n + 1}
  <2>1. ASSUME NEW k \in 1 .. Len(r)
        PROVE  r[k] \in Elements(s) \union {n + 1}
    <3>1. CASE r[k] = n + 1
      BY <3>1
    <3>2. CASE k <= Len(s) /\ r[k] = s[k]
      <4>1. k \in 1 .. Len(s)
        BY <1>1, <1>3, <3>2
      <4> QED
        BY <1>5, <3>2, <4>1
    <3> QED
      BY <1>2, <3>1, <3>2
  <2> QED
    BY <1>4, <2>1
<1>8. ASSUME NEW k \in 1 .. Len(s), off = AtEnd \/ k # off + 1
      PROVE  s[k] \in Elements(r)
  <2>1. k \in 1 .. Len(r) /\ r[k] = s[k]
    BY <1>1, <1>2, <1>3, <1>8
  <2> QED
    BY <1>4, <2>1
<1>9. off = AtEnd => Elements(s) \subseteq Elements(r)
  BY <1>5, <1>8
<1>10. ASSUME NEW l \in Elements(s)
       PROVE  l \in Elements(r) \/ (off # AtEnd /\ off + 1 <= Len(s) /\ l = s[off + 1])
  <2>1. PICK k \in 1 .. Len(s) : l = s[k]
    BY <1>5
  <2>2. CASE off = AtEnd \/ k # off + 1
    BY <1>8, <2>1, <2>2
  <2>3. CASE off # AtEnd /\ k = off + 1
    BY <1>1, <2>1, <2>3
  <2> QED
    BY <2>2, <2>3
<1> QED
  BY <1>6, <1>7, <1>9, <1>10

\* A line was lost: its number is used up.
LEMMA SkipSound ==
  ASSUME NEW g, NEW a, NEW off, NEW w, NEW ls, NEW n \in Nat, NEW t, NEW b \in Nat, NEW acc,
         Sound(g, a, off, w, ls, n, t, b, acc)
  PROVE  Sound(g, a, off, w, ls, n + 1, t, b + 1, acc)
<1>1. ls \in [File -> Seq(1 .. n)] /\ \A x \in File : Len(ls[x]) <= n
  BY DEF Sound, DiskOK
<1>2. \A x \in File : Len(ls[x]) \in Nat
  BY <1>1, LenProperties
<1>3. DiskOK(w, ls, n + 1)
  <2>1. Seq(1 .. n) \subseteq Seq(1 .. n + 1)
    BY SMT
  <2>2. ls \in [File -> Seq(1 .. n + 1)]
    BY <1>1, <2>1
  <2>3. \A x \in File : Len(ls[x]) <= n + 1
    BY <1>1, <1>2
  <2> QED
    BY <2>2, <2>3 DEF Sound, DiskOK
<1>4. WriterOK(g, a, off, w, ls, n + 1, acc)
  <2>1. a \in 0 .. n + 1
    BY DEF Sound, WriterOK
  <2>2. off = AtEnd \/ off \in 0 .. n + 1
    BY DEF Sound, WriterOK
  <2> QED
    BY <2>1, <2>2 DEF Sound, WriterOK
<1>5. KeptOK(a, w, ls, t, b + 1, acc)
  <2>1. a \in Nat
    BY DEF Sound, WriterOK
  <2>2. a <= b => a <= b + 1
    BY <2>1
  <2>3. \A x \in Path(w) : Len(ls[x]) <= b => Len(ls[x]) <= b + 1
    BY <1>2 DEF Path
  <2> QED
    BY <2>2, <2>3 DEF Sound, KeptOK
<1> QED
  BY <1>3, <1>4, <1>5 DEF Sound

\* A new second begins: there is no archive of it.
LEMMA TickSound ==
  ASSUME NEW g, NEW a, NEW off, NEW w, NEW ls, NEW n, NEW t \in Nat, NEW b, NEW acc,
         t + 1 \in 0 .. MaxTime, Sound(g, a, off, w, ls, n, t, b, acc)
  PROVE  Sound(g, a, off, w, ls, n, t + 1, 0, acc)
<1>1. OrderOK(w, ls, t + 1)
  BY Bounds DEF Sound, OrderOK
<1>2. setbacks = 0 => \A x \in File : w[x] # Archive(t + 1)
  BY DEF Sound, OrderOK
<1>3. KeptOK(a, w, ls, t + 1, 0, acc)
  BY <1>2 DEF Sound, KeptOK, Undisturbed
<1> QED
  BY <1>1, <1>3 DEF Sound

\* The next line is no older one, and nobody's yet.
LEMMA NewLine ==
  ASSUME NEW ls, NEW n \in Nat, ls \in [File -> Seq(1 .. n)], NEW acc \in SUBSET (1 .. n)
  PROVE  /\ n + 1 \notin acc
         /\ \A x \in File : n + 1 \notin LinesOf(ls, x)
         /\ \A x \in File : \A k \in 1 .. Len(ls[x]) : ls[x][k] # n + 1
<1>1. \A x \in File : LinesOf(ls, x) \subseteq 1 .. n
  BY LineNumbers
<1>2. \A x \in File : \A k \in 1 .. Len(ls[x]) : ls[x][k] \in 1 .. n
  BY ElementOfSeq
<1> QED
  BY <1>1, <1>2

\* Write, into a file that has room or is new.
LEMMA WriteSound ==
  ASSUME NEW x \in File, NEW a, NEW off, NEW w, NEW ls, NEW n \in Nat, NEW t,
         NEW b \in Nat, NEW acc \in SUBSET (1 .. n),
         Sound({x}, a, off, w, ls, n, t, b, acc),
         a + 1 < MaxSize \/ a = 0,
         NEW ls2, ls2 = [ls EXCEPT ![x] = Written(ls[x], off, n + 1)],
         NEW off2, off2 = IF off = AtEnd THEN AtEnd ELSE off + 1
  PROVE  Sound({x}, a + 1, off2, w, ls2, n + 1, t, b + 1, acc \union {n + 1})
<1> DEFINE r == Written(ls[x], off, n + 1)
           acc2 == acc \union {n + 1}
<1>1. /\ ls \in [File -> Seq(1 .. n)]
      /\ ls[x] \in Seq(1 .. n)
      /\ Len(ls[x]) <= n
      /\ w[x] \in {<<"path">>, <<"taken">>}
  BY DEF Sound, DiskOK, WriterOK
<1>2. a \in 0 .. n
  BY DEF Sound, WriterOK
<1>3. off = AtEnd \/ (off \in Nat /\ off <= Len(ls[x]))
  BY DEF Sound, WriterOK
<1>4. off # AtEnd => \A k \in off + 1 .. Len(ls[x]) : ls[x][k] \notin acc
  BY DEF Sound, WriterOK
<1>5. WrittenTo(r, ls[x], off, n)
  BY <1>1, <1>3, WrittenLines
<1>6. ls2[x] = r
  BY <1>1
<1> HIDE DEF r
<1>7. Len(ls[x]) \in Nat
  BY <1>1, LenProperties
<1>8. /\ r \in Seq(1 .. n + 1)
      /\ Len(r) \in Nat
      /\ Len(r) \in {Len(ls[x]), Len(ls[x]) + 1}
      /\ off # AtEnd => off + 1 <= Len(r)
  BY <1>5, LenProperties DEF WrittenTo
<1>9. Len(r) <= n + 1
  BY <1>1, <1>7, <1>8
<1>10. /\ LinesOf(ls2, x) \subseteq LinesOf(ls, x) \union {n + 1}
       /\ n + 1 \in LinesOf(ls2, x)
       /\ \A l \in LinesOf(ls, x) :
            \/ l \in LinesOf(ls2, x)
            \/ off # AtEnd /\ off + 1 <= Len(ls[x]) /\ l = ls[x][off + 1]
  <2>1. /\ Elements(r) \subseteq Elements(ls[x]) \union {n + 1}
        /\ n + 1 \in Elements(r)
        /\ \A l \in Elements(ls[x]) :
             l \in Elements(r) \/ (off # AtEnd /\ off + 1 <= Len(ls[x]) /\ l = ls[x][off + 1])
    <3>1. Elements(r) \subseteq Elements(ls[x]) \union {n + 1}
      BY <1>1, <1>3, <1>5, LinesGrow
    <3>2. n + 1 \in Elements(r)
      BY <1>1, <1>3, <1>5, LinesGrow
    <3>3. ASSUME NEW l \in Elements(ls[x])
          PROVE  l \in Elements(r) \/ (off # AtEnd /\ off + 1 <= Len(ls[x]) /\ l = ls[x][off + 1])
      BY <1>1, <1>3, <1>5, LinesGrow
    <3> QED
      BY <3>1, <3>2, <3>3
  <2> QED
    BY <1>6, <2>1 DEF LinesOf
<1>11. ASSUME NEW l \in LinesOf(ls, x), l \in acc
       PROVE  l \in LinesOf(ls2, x)
  <2>1. CASE off # AtEnd /\ off + 1 <= Len(ls[x]) /\ l = ls[x][off + 1]
    <3>1. off + 1 \in off + 1 .. Len(ls[x])
      BY <1>3, <1>7, <2>1
    <3> QED
      BY <1>4, <1>11, <2>1, <3>1
  <2> QED
    BY <1>10, <2>1
<1>12. /\ DiskOK(w, ls2, n + 1)
       /\ OrderOK(w, ls2, t)
       /\ \A y \in File : y # x => ls2[y] = ls[y] /\ LinesOf(ls2, y) = LinesOf(ls, y)
  <2>1. DiskOK(w, ls, n) /\ OrderOK(w, ls, t) /\ ls2 = [ls EXCEPT ![x] = r]
    BY DEF Sound, r
  <2>2. ls2 \in [File -> Seq(1 .. n + 1)]
    BY <1>1, <1>8, <2>1, OthersStay
  <2>3. ASSUME NEW y \in File, y # x
        PROVE  ls2[y] = ls[y] /\ LinesOf(ls2, y) = LinesOf(ls, y)
    <3>1. ls2[y] = ls[y]
      BY <1>1, <2>1, <2>3
    <3> QED
      BY <3>1 DEF LinesOf
  <2>4. Len(ls2[x]) <= n + 1 /\ LinesOf(ls2, x) \subseteq LinesOf(ls, x) \union {n + 1}
    BY <1>6, <1>9, <1>10
  <2> QED
    BY <1>1, <2>1, <2>2, <2>3, <2>4, GrowDisk
<1>13. /\ n + 1 \notin acc
       /\ \A y \in File : n + 1 \notin LinesOf(ls, y)
  BY <1>1, NewLine
<1>14. WriterOK({x}, a + 1, off2, w, ls2, n + 1, acc2)
  <2>1. {x} \in SUBSET File /\ \A y, z \in {x} : y = z
    OBVIOUS
  <2>2. a + 1 \in 0 .. n + 1
    BY <1>2
  <2>3. off2 = AtEnd \/ off2 \in 0 .. n + 1
    BY <1>1, <1>3, <1>7
  <2>4. ASSUME off2 # AtEnd
        PROVE  /\ off2 <= Len(r)
               /\ \A k \in off2 + 1 .. Len(r) : r[k] \notin acc2
    <3>1. off \in Nat /\ off <= Len(ls[x]) /\ off2 = off + 1 /\ off # AtEnd
      BY <1>3, <2>4
    <3>2. off2 <= Len(r)
      BY <1>8, <3>1
    <3>3. ASSUME NEW k \in off2 + 1 .. Len(r)
          PROVE  r[k] \notin acc2
      <4>1. k \in off + 1 .. Len(ls[x]) /\ k \in 1 .. Len(ls[x]) /\ k # off + 1
        <5>1. Len(r) = Len(ls[x])
          BY <1>7, <1>8, <3>1, <3>3, <1>5 DEF r, Written
        <5> QED
          BY <3>1, <5>1
      <4>2. r[k] = ls[x][k]
        BY <1>5, <4>1 DEF WrittenTo
      <4>3. ls[x][k] \notin acc /\ ls[x][k] # n + 1
        BY <1>1, <1>4, <3>1, <4>1, NewLine
      <4> QED
        BY <4>2, <4>3
    <3> QED
      BY <3>2, <3>3
  <2>5. \A y \in {x} : w[y] \in {<<"path">>, <<"taken">>}
    BY <1>1
  <2>6. off2 # AtEnd => \A y \in {x} : /\ off2 <= Len(ls2[y])
                                       /\ \A k \in off2 + 1 .. Len(ls2[y]) : ls2[y][k] \notin acc2
    BY <1>6, <2>4
  <2> HIDE DEF acc2
  <2> QED
    BY <2>1, <2>2, <2>3, <2>5, <2>6 DEF WriterOK
<1>15. BoundOK({x}, a + 1, ls2, acc2)
  <2> SUFFICES ASSUME MaxSize > 1
               PROVE  /\ \A y \in File : Cardinality(LinesOf(ls2, y) \intersect acc2) < MaxSize
                      /\ Cardinality(LinesOf(ls2, x) \intersect acc2) <= a + 1
    BY DEF BoundOK
  <2> DEFINE Old == LinesOf(ls, x) \intersect acc
             New == LinesOf(ls2, x) \intersect acc2
  <2>1. IsFiniteSet(Old) /\ Cardinality(Old) \in Nat /\ Cardinality(Old) <= a
    <3>1. IsFiniteSet(Old) /\ Cardinality(Old) \in Nat
      BY <1>1, FewLines
    <3>2. Cardinality(Old) <= a
      BY DEF Sound, BoundOK
    <3> QED
      BY <3>1, <3>2
  <2>2. New \in SUBSET (Old \union {n + 1})
    BY <1>10
  <2> HIDE DEF Old, New
  <2>3. IsFiniteSet(Old \union {n + 1}) /\ Cardinality(Old \union {n + 1}) <= Cardinality(Old) + 1
    <3>1. /\ IsFiniteSet(Old \union {n + 1})
          /\ \/ Cardinality(Old \union {n + 1}) = Cardinality(Old)
             \/ Cardinality(Old \union {n + 1}) = Cardinality(Old) + 1
      BY <2>1, FS_AddElement, Zenon
    <3> QED
      BY <2>1, <3>1
  <2>4. Cardinality(Old \union {n + 1}) \in Nat
    BY <2>3, FS_CardinalityType
  <2>5. IsFiniteSet(New) /\ Cardinality(New) <= Cardinality(Old \union {n + 1})
    BY <2>2, <2>3, FS_Subset
  <2>6. Cardinality(New) \in Nat
    BY <2>5, FS_CardinalityType
  <2>7. Cardinality(New) <= a + 1
    BY <1>2, <2>1, <2>3, <2>4, <2>5, <2>6
  <2>8. Cardinality(New) < MaxSize
    BY <1>2, <2>6, <2>7, Bounds
  <2>9. ASSUME NEW y \in File, y # x
        PROVE  Cardinality(LinesOf(ls2, y) \intersect acc2) < MaxSize
    <3>1. LinesOf(ls2, y) \intersect acc2 = LinesOf(ls, y) \intersect acc
      BY <1>12, <1>13, <2>9
    <3>2. Cardinality(LinesOf(ls, y) \intersect acc) < MaxSize
      BY DEF Sound, BoundOK
    <3> QED
      BY <3>1, <3>2
  <2> QED
    BY <2>7, <2>8, <2>9 DEF New
<1>16. KeptOK(a + 1, w, ls2, t, b + 1, acc2)
  <2> SUFFICES ASSUME Undisturbed
               PROVE  /\ \A l \in acc2 : \E y \in File :
                           l \in LinesOf(ls2, y) /\ w[y] # <<"clobbered">>
                      /\ \A y \in File : w[y] = Archive(t) =>
                           a + 1 <= b + 1 /\ \A z \in Path(w) : Len(ls2[z]) <= b + 1
    BY DEF KeptOK
  <2>1. /\ \A l \in acc : \E y \in File : l \in LinesOf(ls, y) /\ w[y] # <<"clobbered">>
        /\ \A y \in File : w[y] = Archive(t) => a <= b /\ \A z \in Path(w) : Len(ls[z]) <= b
    BY DEF Sound, KeptOK
  <2>2. ASSUME NEW l \in acc
        PROVE  \E y \in File : l \in LinesOf(ls2, y) /\ w[y] # <<"clobbered">>
    <3>1. PICK y \in File : l \in LinesOf(ls, y) /\ w[y] # <<"clobbered">>
      BY <2>1
    <3>2. l \in LinesOf(ls2, y)
      BY <1>11, <1>12, <3>1
    <3> QED
      BY <3>1, <3>2
  <2>3. w[x] # <<"clobbered">>
    BY <1>1
  <2>4. ASSUME NEW y \in File, w[y] = Archive(t)
        PROVE  a + 1 <= b + 1 /\ \A z \in Path(w) : Len(ls2[z]) <= b + 1
    <3>1. a <= b
      BY <2>1, <2>4
    <3>2. ASSUME NEW z \in Path(w)
          PROVE  Len(ls2[z]) <= b + 1
      <4>1. z \in File /\ Len(ls[z]) <= b
        BY <2>1, <2>4 DEF Path
      <4>2. Len(ls[z]) \in Nat
        BY <1>1, <4>1, LenProperties
      <4>3. CASE z = x
        BY <1>6, <1>8, <4>1, <4>2, <4>3
      <4>4. CASE z # x
        BY <1>12, <4>1, <4>2, <4>4
      <4> QED
        BY <4>3, <4>4
    <3> QED
      BY <1>2, <3>1, <3>2
  <2> QED
    BY <1>10, <2>2, <2>3, <2>4
<1> QED
  BY <1>12, <1>14, <1>15, <1>16 DEF Sound

\* Somebody else appends to the log.
LEMMA ForeignSound ==
  ASSUME NEW g, NEW a, NEW off, NEW w, NEW ls, NEW n \in Nat, NEW t,
         NEW b \in Nat, NEW acc \in SUBSET (1 .. n),
         Sound(g, a, off, w, ls, n, t, b, acc), NEW x \in Path(w),
         NEW ls2, ls2 = [ls EXCEPT ![x] = Append(ls[x], n + 1)]
  PROVE  Sound(g, a, off, w, ls2, n + 1, t, b + 1, acc)
<1> DEFINE r == Append(ls[x], n + 1)
<1>1. /\ ls \in [File -> Seq(1 .. n)]
      /\ x \in File
      /\ ls[x] \in Seq(1 .. n)
      /\ Len(ls[x]) <= n
      /\ w[x] = <<"path">>
  BY DEF Sound, DiskOK, Path
<1>2. r = Written(ls[x], AtEnd, n + 1)
  BY DEF Written
<1>3. WrittenTo(r, ls[x], AtEnd, n)
  BY <1>1, <1>2, WrittenLines
<1>4. ls2[x] = r
  BY <1>1
<1>5. ls2 = [ls EXCEPT ![x] = r]
  OBVIOUS
<1> HIDE DEF r
<1>6. Len(ls[x]) \in Nat
  BY <1>1, LenProperties
<1>7. /\ r \in Seq(1 .. n + 1)
      /\ Len(r) \in Nat
      /\ Len(r) \in {Len(ls[x]), Len(ls[x]) + 1}
      /\ \A k \in 1 .. Len(r) : r[k] = n + 1 \/ (k <= Len(ls[x]) /\ r[k] = ls[x][k])
  BY <1>3, LenProperties DEF WrittenTo
<1>8. Len(r) <= n + 1 /\ Len(r) >= Len(ls[x])
  BY <1>1, <1>6, <1>7
<1>9. /\ LinesOf(ls2, x) \subseteq LinesOf(ls, x) \union {n + 1}
      /\ LinesOf(ls, x) \subseteq LinesOf(ls2, x)
  BY <1>1, <1>3, <1>4, LinesGrow DEF LinesOf
<1>10. /\ DiskOK(w, ls2, n + 1)
       /\ OrderOK(w, ls2, t)
       /\ \A y \in File : y # x => ls2[y] = ls[y] /\ LinesOf(ls2, y) = LinesOf(ls, y)
  <2>1. DiskOK(w, ls, n) /\ OrderOK(w, ls, t)
    BY DEF Sound
  <2>2. w[x] \in {<<"path">>, <<"taken">>}
    BY <1>1
  <2>3. ls2 \in [File -> Seq(1 .. n + 1)]
    BY <1>1, <1>5, <1>7, OthersStay
  <2>4. ASSUME NEW y \in File, y # x
        PROVE  ls2[y] = ls[y] /\ LinesOf(ls2, y) = LinesOf(ls, y)
    <3>1. ls2[y] = ls[y]
      BY <1>1, <1>5, <2>4
    <3> QED
      BY <3>1 DEF LinesOf
  <2>5. Len(ls2[x]) <= n + 1 /\ LinesOf(ls2, x) \subseteq LinesOf(ls, x) \union {n + 1}
    BY <1>4, <1>8, <1>9
  <2>6. DiskOK(w, ls2, n + 1) /\ OrderOK(w, ls2, t)
    <3>1. PICK z \in File : z = x
      BY <1>1
    <3>2. \A y \in File : y # z => ls2[y] = ls[y] /\ LinesOf(ls2, y) = LinesOf(ls, y)
      BY <2>4, <3>1
    <3>3. w[z] \in {<<"path">>, <<"taken">>}
      BY <2>2, <3>1
    <3>4. Len(ls2[z]) <= n + 1 /\ LinesOf(ls2, z) \subseteq LinesOf(ls, z) \union {n + 1}
      BY <2>5, <3>1
    <3> QED
      BY <2>1, <2>3, <3>2, <3>3, <3>4, GrowDisk
  <2> QED
    BY <2>4, <2>6
<1>11. n + 1 \notin acc
  BY <1>1, NewLine
<1>12. \A y \in File : LinesOf(ls2, y) \intersect acc = LinesOf(ls, y) \intersect acc
  BY <1>9, <1>10, <1>11
<1>13. WriterOK(g, a, off, w, ls2, n + 1, acc)
  <2>1. g \in SUBSET File /\ a \in 0 .. n + 1 /\ (off = AtEnd \/ off \in 0 .. n + 1)
    BY DEF Sound, WriterOK
  <2>2. ASSUME off # AtEnd, NEW y \in g
        PROVE  off <= Len(ls2[y]) /\ \A k \in off + 1 .. Len(ls2[y]) : ls2[y][k] \notin acc
    <3>1. y \in File /\ off \in Nat /\ off <= Len(ls[y])
      BY <2>2 DEF Sound, WriterOK
    <3>2. \A k \in off + 1 .. Len(ls[y]) : ls[y][k] \notin acc
      BY <2>2 DEF Sound, WriterOK
    <3>3. CASE y # x
      BY <1>10, <3>1, <3>2, <3>3
    <3>4. CASE y = x
      <4>1. off <= Len(r)
        BY <1>6, <1>8, <1>7, <3>1, <3>4
      <4>2. ASSUME NEW k \in off + 1 .. Len(r)
            PROVE  r[k] \notin acc
        <5>1. k \in 1 .. Len(r)
          BY <1>7, <3>1
        <5>2. r[k] = n + 1 \/ (k <= Len(ls[x]) /\ r[k] = ls[x][k])
          BY <1>7, <5>1
        <5>3. k <= Len(ls[x]) => k \in off + 1 .. Len(ls[x])
          BY <1>6, <3>1
        <5> QED
          BY <1>11, <3>2, <3>4, <5>2, <5>3
      <4> QED
        BY <1>4, <3>4, <4>1, <4>2
    <3> QED
      BY <3>3, <3>4
  <2> QED
    BY <2>1, <2>2 DEF Sound, WriterOK
<1>14. BoundOK(g, a, ls2, acc)
  <2>1. g \in SUBSET File
    BY DEF Sound, WriterOK
  <2> QED
    BY <1>12, <2>1 DEF Sound, BoundOK
<1>15. KeptOK(a, w, ls2, t, b + 1, acc)
  <2> SUFFICES ASSUME Undisturbed
               PROVE  /\ \A l \in acc : \E y \in File :
                           l \in LinesOf(ls2, y) /\ w[y] # <<"clobbered">>
                      /\ \A y \in File : w[y] = Archive(t) =>
                           a <= b + 1 /\ \A z \in Path(w) : Len(ls2[z]) <= b + 1
    BY DEF KeptOK
  <2>1. /\ \A l \in acc : \E y \in File : l \in LinesOf(ls, y) /\ w[y] # <<"clobbered">>
        /\ \A y \in File : w[y] = Archive(t) => a <= b /\ \A z \in Path(w) : Len(ls[z]) <= b
    BY DEF Sound, KeptOK
  <2>2. \A l \in acc : \E y \in File : l \in LinesOf(ls2, y) /\ w[y] # <<"clobbered">>
    BY <1>9, <1>10, <2>1
  <2>3. a \in Nat
    BY DEF Sound, WriterOK
  <2>4. \A z \in Path(w) : z = x
    BY DEF Sound, DiskOK
  <2>5. ASSUME NEW y \in File, w[y] = Archive(t)
        PROVE  a <= b + 1 /\ \A z \in Path(w) : Len(ls2[z]) <= b + 1
    <3>1. a <= b /\ Len(ls[x]) <= b
      BY <2>1, <2>5
    <3>2. a <= b + 1 /\ Len(r) <= b + 1
      BY <1>6, <1>7, <2>3, <3>1
    <3> QED
      BY <1>4, <2>4, <3>2
  <2> QED
    BY <2>2, <2>5
<1> QED
  BY <1>10, <1>13, <1>14, <1>15 DEF Sound

-----------------------------------------------------------------------------
(* Opening and rotating, with all that can come of them.                    *)

OutcomeSound(o) ==
  /\ o = Outcome(o.ok, o.f, o.approx, o.offset, o.where, o.lines)
  /\ Sound(o.f, o.approx, o.offset, o.where, o.lines, last, now, logged, accepted)

LEMMA SoundOutcome ==
  ASSUME NEW ok, NEW g, NEW a, NEW off, NEW w, NEW ls,
         Sound(g, a, off, w, ls, last, now, logged, accepted)
  PROVE  /\ OutcomeSound(Outcome(ok, g, a, off, w, ls))
         /\ Outcome(ok, g, a, off, w, ls).f = g
         /\ Outcome(ok, g, a, off, w, ls).approx = a
<1> DEFINE o == Outcome(ok, g, a, off, w, ls)
<1>1. /\ o.ok = ok
      /\ o.f = g
      /\ o.approx = a
      /\ o.offset = off
      /\ o.where = w
      /\ o.lines = ls
  BY DEF Outcome
<1> HIDE DEF o
<1>2. OutcomeSound(o) /\ o.f = g /\ o.approx = a
  <2>1. o = Outcome(o.ok, o.f, o.approx, o.offset, o.where, o.lines)
    BY <1>1 DEF o
  <2> QED
    BY <1>1, <2>1 DEF OutcomeSound
<1> QED
  BY <1>2 DEF o

\* The file that is created was not there before.
LEMMA UnusedFile ==
  ASSUME Unused # {}, NEW w
  PROVE  /\ Created(w).file \in File
         /\ where[Created(w).file] = <<"none">>
         /\ Created(w).where = [w EXCEPT ![Created(w).file] = <<"path">>]
<1> DEFINE x == CHOOSE y \in Unused : TRUE
<1>1. x \in Unused
  OBVIOUS
<1> HIDE DEF x
<1>2. Created(w) = [file |-> x, where |-> [w EXCEPT ![x] = <<"path">>]]
  BY DEF Created, x
<1> QED
  BY <1>1, <1>2 DEF Unused

LEMMA OpenSound ==
  ASSUME IInv, Unused # {}, NEW o \in OpenForAppend
  PROVE  OutcomeSound(o)
<1>1. /\ last \in Nat /\ logged \in Nat
      /\ Sound({}, approx, AtEnd, where, lines, last, now, logged, accepted)
  BY ForgetSound DEF IInv, Shape
<1>2. Path(where) = AtPath
  BY DEF Path, AtPath
<1>3. CASE o = Outcome(FALSE, {}, approx, AtEnd, where, lines)
  BY <1>1, <1>3, SoundOutcome
<1>4. ASSUME NEW x \in AtPath, o = Outcome(TRUE, {x}, Size(x), AtEnd, where, lines)
      PROVE  OutcomeSound(o)
  <2>1. Sound({x}, Len(lines[x]), AtEnd, where, lines, last, now, logged, accepted)
    BY <1>1, <1>2, AdoptSound
  <2> QED
    BY <1>4, <2>1, SoundOutcome DEF Size
<1>5. ASSUME AtPath = {},
             o = Outcome(TRUE, {Created(where).file}, 0, AtEnd, Created(where).where, lines)
      PROVE  OutcomeSound(o)
  <2> DEFINE x == Created(where).file
  <2>1. /\ x \in File
        /\ where[x] = <<"none">>
        /\ Created(where).where = [where EXCEPT ![x] = <<"path">>]
    BY UnusedFile
  <2>2. Sound({x}, 0, AtEnd, Created(where).where, lines, last, now, logged, accepted)
    <3> HIDE DEF x
    <3> QED
      BY <1>1, <1>2, <1>5, <2>1, CreateSound
  <2> QED
    BY <1>5, <2>2, SoundOutcome
<1> QED
  BY <1>3, <1>4, <1>5 DEF OpenForAppend

\* A rotation destroys no line if there is no archive of this second.
LEMMA RotateSound ==
  ASSUME IInv, Unused # {}, NEW o \in Rotate,
         Undisturbed => \A x \in File : where[x] # Archive(now)
  PROVE  OutcomeSound(o) /\ (o.f = {} \/ o.approx = 0)
<1>1. /\ last \in Nat /\ logged \in Nat /\ now \in 0 .. MaxTime
      /\ Sound({}, approx, AtEnd, where, lines, last, now, logged, accepted)
  BY ForgetSound DEF IInv, Shape
<1>2. Path(where) = AtPath
  BY DEF Path, AtPath
<1>3. ASSUME failing, NEW w \in {where, Renamed},
             o = Outcome(FALSE, {}, approx, AtEnd, w, lines)
      PROVE  OutcomeSound(o) /\ (o.f = {} \/ o.approx = 0)
  <2>1. Sound({}, approx, AtEnd, Renamed, lines, last, now, logged, accepted)
    BY <1>1, <1>3, RenamedSound
  <2>2. Sound({}, approx, AtEnd, w, lines, last, now, logged, accepted)
    BY <1>1, <2>1
  <2> QED
    BY <1>3, <2>2, SoundOutcome
<1>4. ASSUME failing, NEW x \in AtPath,
             o = Outcome(TRUE, {x}, 0, 0, where, [lines EXCEPT ![x] = <<>>])
      PROVE  OutcomeSound(o) /\ (o.f = {} \/ o.approx = 0)
  <2> DEFINE ls2 == [lines EXCEPT ![x] = <<>>]
  <2>1. Sound({x}, 0, 0, where, ls2, last, now, logged, accepted)
    BY <1>1, <1>2, <1>4, TruncateSound
  <2>2. o = Outcome(TRUE, {x}, 0, 0, where, ls2)
    BY <1>4
  <2> HIDE DEF ls2
  <2>3. OutcomeSound(o)
    BY <2>1, <2>2, SoundOutcome
  <2>4. o.approx = 0
    BY <2>2 DEF Outcome
  <2> QED
    BY <2>3, <2>4
<1>5. ASSUME o = Outcome(TRUE, {Created(Renamed).file}, 0, 0, Created(Renamed).where, lines)
      PROVE  OutcomeSound(o) /\ (o.f = {} \/ o.approx = 0)
  <2> DEFINE x == Created(Renamed).file
  <2>1. /\ x \in File
        /\ where[x] = <<"none">>
        /\ Created(Renamed).where = [Renamed EXCEPT ![x] = <<"path">>]
    BY UnusedFile
  <2>2. o = Outcome(TRUE, {x}, 0, 0, Created(Renamed).where, lines)
    BY <1>5
  <2> HIDE DEF x
  <2>3. /\ Sound({}, 0, AtEnd, Renamed, lines, last, now, logged, accepted)
        /\ Path(Renamed) = {}
        /\ Renamed[x] = <<"none">>
    BY <1>1, <2>1, RenamedSound
  <2>4. Sound({x}, 0, 0, Created(Renamed).where, lines, last, now, logged, accepted)
    BY <1>1, <2>1, <2>3, CreateSound
  <2>5. OutcomeSound(o)
    BY <2>2, <2>4, SoundOutcome
  <2>6. o.approx = 0
    BY <2>2 DEF Outcome
  <2> QED
    BY <2>5, <2>6
<1> QED
  BY <1>3, <1>4, <1>5 DEF Rotate

-----------------------------------------------------------------------------
(* Every step keeps the invariant.                                          *)

\* What holds for the next values holds in the next state.
LEMMA SoundNext ==
  ASSUME failing' = failing, setbacks' = setbacks,
         Sound(f', approx', offset', where', lines', last', now', logged', accepted')
  PROVE  Sound(f, approx, offset, where, lines, last, now, logged, accepted)'
BY DEF Sound, OrderOK, KeptOK, Undisturbed

LEMMA FilesAreLeft == ASSUME FilesLeft PROVE Unused # {}
BY FS_EmptySet DEF FilesLeft

LEMMA InitSound == Init => IInv
<1> SUFFICES ASSUME Init
             PROVE  IInv
  OBVIOUS
<1>1. last \in 0 .. MaxSize /\ last \in 0 .. MaxLines /\ last \in Nat
  BY Bounds DEF Init
<1>2. Shape
  BY <1>1, Bounds DEF Init, Shape
<1>3. \A x \in File : \/ x = 1 /\ lines[x] = [k \in 1 .. last |-> k]
                      \/ x # 1 /\ lines[x] = <<>>
  BY DEF Init
<1>4. [k \in 1 .. last |-> k] \in Seq(1 .. last) /\ Len([k \in 1 .. last |-> k]) = last
  BY <1>1
<1>5. \A x \in File : lines[x] \in Seq(1 .. last) /\ Len(lines[x]) <= last
  <2> SUFFICES ASSUME NEW x \in File
               PROVE  lines[x] \in Seq(1 .. last) /\ Len(lines[x]) <= last
    OBVIOUS
  <2>1. CASE lines[x] = [k \in 1 .. last |-> k]
    BY <1>1, <1>4, <2>1
  <2>2. CASE lines[x] = <<>>
    <3>1. Len(<<>>) = 0 /\ <<>> \in Seq(1 .. last)
      OBVIOUS
    <3> QED
      BY <1>1, <2>2, <3>1
  <2> QED
    BY <1>3, <2>1, <2>2
<1>6. where \in [File -> Where] /\ \A x \in File : where[x] \in {<<"path">>, <<"none">>}
  <2>1. \A x \in File : (IF x = 1 /\ last > 0 THEN <<"path">> ELSE <<"none">>) \in Where
    BY Places
  <2> QED
    BY <2>1 DEF Init
<1>7. \A x \in Path(where) : x = 1
  BY DEF Init, Path
<1>8. \A x \in File, s \in 0 .. MaxTime : where[x] # Archive(s)
  BY <1>6, Places
<1>9. DiskOK(where, lines, last)
  <2>1. lines \in [File -> Seq(1 .. last)]
    BY <1>5 DEF Init
  <2>2. \A x \in File : where[x] = <<"none">> => lines[x] = <<>>
    <3>1. last = 0 => [k \in 1 .. last |-> k] = <<>>
      BY <1>4
    <3> QED
      BY <1>1, <1>3, <3>1 DEF Init
  <2> QED
    BY <1>5, <1>6, <1>7, <1>8, <2>1, <2>2 DEF DiskOK
<1>10. OrderOK(where, lines, now)
  BY <1>8 DEF OrderOK
<1>11. WriterOK(f, approx, offset, where, lines, last, accepted)
  BY <1>1 DEF Init, WriterOK
<1>12. BoundOK(f, approx, lines, accepted)
  <2>1. \A x \in File : LinesOf(lines, x) \intersect accepted = {}
    BY DEF Init
  <2> QED
    BY <2>1, FS_EmptySet, Bounds DEF Init, BoundOK
<1>13. KeptOK(approx, where, lines, now, logged, accepted)
  <2>1. now \in 0 .. MaxTime /\ accepted = {}
    BY Bounds DEF Init
  <2> QED
    BY <1>8, <2>1 DEF KeptOK
<1> QED
  BY <1>2, <1>9, <1>10, <1>11, <1>12, <1>13 DEF IInv, Sound

\* The next state of the writer is what it took.
LEMMA TakeSound ==
  ASSUME NEW o, OutcomeSound(o), Take(o), failing' = failing, setbacks' = setbacks,
         UNCHANGED <<now, logged, last, accepted>>
  PROVE  Sound(f, approx, offset, where, lines, last, now, logged, accepted)'
<1>1. Sound(f', approx', offset', where', lines', last', now', logged', accepted')
  BY DEF OutcomeSound, Take
<1> QED
  BY <1>1, SoundNext

LEMMA StartKeeps == ASSUME IInv, Start PROVE IInv'
<1>1. Unused # {}
  BY FilesAreLeft DEF Start
<1>2. PICK o \in IF AtPath # {} /\ \A x \in AtPath : Size(x) >= MaxSize
                 THEN Rotate ELSE OpenForAppend :
        Take(o) /\ up' \in {up, "up"}
  BY Zenon DEF Start
<1>3. UNCHANGED <<failing, now, setbacks, logged, last, accepted>>
  BY DEF Start
<1>4. OutcomeSound(o)
  <2>1. CASE o \in OpenForAppend
    BY <1>1, <2>1, OpenSound
  <2>2. CASE o \in Rotate /\ AtPath # {} /\ \A x \in AtPath : Size(x) >= MaxSize
    <3>1. ASSUME Undisturbed, NEW x \in File, where[x] = Archive(now)
          PROVE  FALSE
      <4>1. PICK y \in AtPath : Len(lines[y]) >= MaxSize
        BY <2>2 DEF Size
      <4>2. y \in Path(where) /\ y \in File
        BY DEF Path, AtPath
      <4>3. Len(lines[y]) <= logged
        BY <3>1, <4>2 DEF IInv, Sound, KeptOK
      <4>4. lines[y] \in Seq(1 .. last)
        BY <4>2 DEF IInv, Sound, DiskOK
      <4>5. Len(lines[y]) \in Nat /\ logged \in 0 .. Burst
        BY <4>4, LenProperties DEF IInv, Shape
      <4> QED
        BY <3>1, <4>1, <4>3, <4>5, Bounds DEF Undisturbed
    <3> QED
      BY <1>1, <2>2, <3>1, RotateSound
  <2> QED
    BY <1>2, <2>1, <2>2
<1>5. Sound(f, approx, offset, where, lines, last, now, logged, accepted)'
  BY <1>2, <1>3, <1>4, TakeSound
<1>6. Shape'
  BY <1>2, <1>3 DEF IInv, Shape
<1> QED
  BY <1>5, <1>6 DEF IInv

LEMMA WriteLineKeeps == ASSUME IInv, WriteLine PROVE IInv'
<1> DEFINE Done(o) == [o EXCEPT
                         !.approx = @ + 1,
                         !.offset = IF @ = AtEnd THEN @ ELSE @ + 1,
                         !.lines = [x \in File |-> IF x \in o.f
                                                   THEN Written(@[x], o.offset, last + 1)
                                                   ELSE @[x]]]
<1>1. /\ last \in 0 .. MaxLines /\ last < MaxLines /\ last' = last + 1
      /\ logged \in 0 .. Burst /\ logged < Burst /\ logged' = logged + 1
      /\ UNCHANGED <<failing, now, setbacks, up>>
      /\ accepted \in SUBSET (1 .. last)
      /\ Unused # {}
  BY FilesAreLeft DEF WriteLine, IInv, Shape
<1>2. last \in Nat /\ logged \in Nat
  BY <1>1
<1>3. PICK o \in IF Full THEN Rotate ELSE {Outcome(TRUE, f, approx, offset, where, lines)} :
        \/ o.f # {} /\ Take(Done(o)) /\ accepted' = accepted \union {last + 1}
        \/ Take(o) /\ UNCHANGED accepted
  BY Zenon DEF WriteLine
<1>4. approx \in 0 .. last
  BY DEF IInv, Sound, WriterOK
<1>5. OutcomeSound(o) /\ (o.f = {} \/ o.approx = 0 \/ o.approx + 1 < MaxSize)
  <2>1. CASE Full /\ o \in Rotate
    <3>1. ASSUME Undisturbed, NEW x \in File, where[x] = Archive(now)
          PROVE  FALSE
      <4>1. approx <= logged
        BY <3>1 DEF IInv, Sound, KeptOK
      <4>2. approx + 1 >= MaxSize
        BY <2>1 DEF Full
      <4> QED
        BY <1>1, <1>4, <3>1, <4>1, <4>2, Bounds DEF Undisturbed
    <3> QED
      BY <1>1, <2>1, <3>1, RotateSound
  <2>2. CASE ~Full /\ o = Outcome(TRUE, f, approx, offset, where, lines)
    <3>1. approx + 1 < MaxSize
      BY <1>4, <2>2, Bounds DEF Full
    <3>2. OutcomeSound(o)
      BY <2>2, SoundOutcome DEF IInv
    <3>3. o.approx = approx
      BY <2>2 DEF Outcome
    <3> QED
      BY <3>1, <3>2, <3>3
  <2> QED
    BY <1>3, <2>1, <2>2
<1>6. CASE o.f # {} /\ Take(Done(o)) /\ accepted' = accepted \union {last + 1}
  <2>1. PICK x : x \in o.f
    BY <1>6
  <2>2. Sound(o.f, o.approx, o.offset, o.where, o.lines, last, now, logged, accepted)
    BY <1>5 DEF OutcomeSound
  <2>3. o.f = {x} /\ x \in File /\ o.lines \in [File -> Seq(1 .. last)]
    BY <2>1, <2>2 DEF Sound, WriterOK, DiskOK
  <2>4. /\ f' = o.f
        /\ approx' = o.approx + 1
        /\ offset' = IF o.offset = AtEnd THEN AtEnd ELSE o.offset + 1
        /\ where' = o.where
        /\ lines' = [y \in File |-> IF y \in o.f THEN Written(o.lines[y], o.offset, last + 1)
                                                 ELSE o.lines[y]]
    BY <1>5, <1>6 DEF OutcomeSound, Outcome, Take
  <2>5. lines' = [o.lines EXCEPT ![x] = Written(o.lines[x], o.offset, last + 1)]
    BY <2>3, <2>4
  <2>6. Sound({x}, o.approx, o.offset, o.where, o.lines, last, now, logged, accepted)
    BY <2>2, <2>3
  <2>7. o.approx + 1 < MaxSize \/ o.approx = 0
    BY <1>5, <1>6
  <2>8. Sound({x}, o.approx + 1, offset', o.where, lines', last + 1, now, logged + 1,
              accepted \union {last + 1})
    <3> DEFINE a == o.approx
               off == o.offset
               ls == o.lines
               w == o.where
    <3>1. /\ Sound({x}, a, off, w, ls, last, now, logged, accepted)
          /\ a + 1 < MaxSize \/ a = 0
          /\ lines' = [ls EXCEPT ![x] = Written(ls[x], off, last + 1)]
          /\ offset' = IF off = AtEnd THEN AtEnd ELSE off + 1
      BY <2>4, <2>5, <2>6, <2>7
    <3> HIDE DEF a, off, ls, w
    <3>2. Sound({x}, a + 1, offset', w, lines', last + 1, now, logged + 1,
                accepted \union {last + 1})
      BY <1>1, <1>2, <2>3, <3>1, WriteSound
    <3> QED
      BY <3>2 DEF a, w
  <2>9. Sound(f', approx', offset', where', lines', last', now', logged', accepted')
    BY <1>1, <1>6, <2>3, <2>4, <2>8
  <2>10. Sound(f, approx, offset, where, lines, last, now, logged, accepted)'
    BY <1>1, <2>9, SoundNext
  <2>11. Shape'
    <3>1. accepted' \in SUBSET (1 .. last')
      BY <1>1, <1>6
    <3>2. last' \in 0 .. MaxLines /\ logged' \in 0 .. Burst
      BY <1>1, Bounds
    <3> QED
      BY <1>1, <3>1, <3>2 DEF IInv, Shape
  <2> QED
    BY <2>10, <2>11 DEF IInv
<1>7. CASE Take(o) /\ UNCHANGED accepted
  <2>1. Sound(o.f, o.approx, o.offset, o.where, o.lines, last + 1, now, logged + 1, accepted)
    BY <1>2, <1>5, SkipSound DEF OutcomeSound
  <2>2. Sound(f', approx', offset', where', lines', last', now', logged', accepted')
    BY <1>1, <1>7, <2>1 DEF Take
  <2>3. Sound(f, approx, offset, where, lines, last, now, logged, accepted)'
    BY <1>1, <2>2, SoundNext
  <2>4. Shape'
    <3>1. accepted' \in SUBSET (1 .. last')
      BY <1>1, <1>7
    <3>2. last' \in 0 .. MaxLines /\ logged' \in 0 .. Burst
      BY <1>1, Bounds
    <3> QED
      BY <1>1, <3>1, <3>2 DEF IInv, Shape
  <2> QED
    BY <2>3, <2>4 DEF IInv
<1> QED
  BY <1>3, <1>6, <1>7

LEMMA VerifyKeeps == ASSUME IInv, Verify PROVE IInv'
<1>1. UNCHANGED <<failing, now, setbacks, logged, up, last, accepted>> /\ Unused # {}
  BY DEF Verify
<1>2. Shape'
  BY <1>1 DEF IInv, Shape
<1>3. CASE ~InSync
  <2>1. PICK o \in OpenForAppend : Take(o)
    BY <1>3 DEF Verify
  <2>2. OutcomeSound(o)
    BY <1>1, OpenSound
  <2> QED
    BY <1>1, <1>2, <2>1, <2>2, TakeSound DEF IInv
<1>4. CASE InSync
  <2>1. PICK x \in f : approx' = IF Drift(x) > DriftLimit THEN Size(x) ELSE approx
    BY <1>4 DEF Verify
  <2>2. UNCHANGED <<f, offset, where, lines>>
    BY <1>4 DEF Verify, disk
  <2>3. x \in Path(where)
    BY <1>4, <2>1 DEF InSync, Path, AtPath
  <2>4. f = {x}
    BY <2>1 DEF IInv, Sound, WriterOK
  <2>5. approx' \in {approx, Len(lines[x])}
    BY <2>1 DEF Size
  <2>6. Sound(f, Len(lines[x]), offset, where, lines, last, now, logged, accepted)
    <3>1. last \in Nat
      BY DEF IInv, Shape
    <3> QED
      BY <2>3, <2>4, <3>1, AdoptSound DEF IInv
  <2>7. Sound(f', approx', offset', where', lines', last', now', logged', accepted')
    BY <1>1, <2>2, <2>5, <2>6 DEF IInv
  <2>8. Sound(f, approx, offset, where, lines, last, now, logged, accepted)'
    BY <1>1, <2>7, SoundNext
  <2> QED
    BY <1>2, <2>8 DEF IInv
<1> QED
  BY <1>3, <1>4

\* Close, and the end of the process, leave the files as they are.
LEMMA LetGoKeeps == ASSUME IInv, Close \/ Exit PROVE IInv'
<1>1. /\ UNCHANGED <<failing, now, setbacks, logged, approx, where, lines, last, accepted>>
      /\ f' = {} /\ offset' = AtEnd /\ up' \in {"closed", "down"}
  BY DEF Close, Exit, disk
<1>2. Sound({}, approx, AtEnd, where, lines, last, now, logged, accepted)
  BY ForgetSound DEF IInv
<1>3. Sound(f', approx', offset', where', lines', last', now', logged', accepted')
  BY <1>1, <1>2
<1>4. Sound(f, approx, offset, where, lines, last, now, logged, accepted)'
  BY <1>1, <1>3, SoundNext
<1>5. Shape'
  BY <1>1 DEF IInv, Shape
<1> QED
  BY <1>4, <1>5 DEF IInv

LEMMA MoveLogKeeps == ASSUME IInv, MoveLog PROVE IInv'
<1>1. UNCHANGED <<failing, now, setbacks, logged, up, f, approx, offset, lines, last, accepted>>
  BY DEF MoveLog, open
<1>2. PICK x \in AtPath : where' = [where EXCEPT ![x] = <<"taken">>]
  BY DEF MoveLog
<1>3. x \in Path(where)
  BY DEF Path, AtPath
<1>4. Sound(f, approx, offset, where', lines, last, now, logged, accepted)
  BY <1>2, <1>3, MoveSound DEF IInv
<1>5. Sound(f', approx', offset', where', lines', last', now', logged', accepted')
  BY <1>1, <1>4
<1>6. Sound(f, approx, offset, where, lines, last, now, logged, accepted)'
  BY <1>1, <1>5, SoundNext
<1>7. Shape'
  BY <1>1 DEF IInv, Shape
<1> QED
  BY <1>6, <1>7 DEF IInv

LEMMA MakeLogKeeps == ASSUME IInv, MakeLog PROVE IInv'
<1>1. UNCHANGED <<failing, now, setbacks, logged, up, f, approx, offset, lines, last, accepted>>
  BY DEF MakeLog, open
<1> DEFINE x == Created(where).file
<1>2. /\ x \in File
      /\ where[x] = <<"none">>
      /\ Created(where).where = [where EXCEPT ![x] = <<"path">>]
  BY FilesAreLeft, UnusedFile DEF MakeLog
<1>3. where' = [where EXCEPT ![x] = <<"path">>]
  BY <1>2 DEF MakeLog
<1>4. Path(where) = {} /\ last \in Nat /\ logged \in Nat
  BY DEF MakeLog, Path, AtPath, IInv, Shape
<1> HIDE DEF x
<1>5. Sound(f, approx, offset, where', lines, last, now, logged, accepted)
  BY <1>2, <1>3, <1>4, MakeSound DEF IInv
<1>6. Sound(f', approx', offset', where', lines', last', now', logged', accepted')
  BY <1>1, <1>5
<1>7. Sound(f, approx, offset, where, lines, last, now, logged, accepted)'
  BY <1>1, <1>6, SoundNext
<1>8. Shape'
  BY <1>1 DEF IInv, Shape
<1> QED
  BY <1>7, <1>8 DEF IInv

LEMMA ForeignLineKeeps == ASSUME IInv, ForeignLine PROVE IInv'
<1>1. /\ last \in 0 .. MaxLines /\ last < MaxLines /\ last' = last + 1
      /\ logged \in 0 .. Burst /\ logged < Burst /\ logged' = logged + 1
      /\ accepted \in SUBSET (1 .. last)
      /\ UNCHANGED <<failing, now, setbacks, up, f, approx, offset, where, accepted>>
  BY DEF ForeignLine, IInv, Shape, open
<1>2. PICK x \in AtPath : lines' = [lines EXCEPT ![x] = Append(lines[x], last + 1)]
  BY DEF ForeignLine
<1>3. x \in Path(where) /\ last \in Nat /\ logged \in Nat
  BY <1>1 DEF Path, AtPath
<1>4. Sound(f, approx, offset, where, lines', last + 1, now, logged + 1, accepted)
  BY <1>1, <1>2, <1>3, ForeignSound DEF IInv
<1>5. Sound(f', approx', offset', where', lines', last', now', logged', accepted')
  BY <1>1, <1>4
<1>6. Sound(f, approx, offset, where, lines, last, now, logged, accepted)'
  BY <1>1, <1>5, SoundNext
<1>7. Shape'
  <2>1. accepted' \in SUBSET (1 .. last')
    BY <1>1
  <2>2. last' \in 0 .. MaxLines /\ logged' \in 0 .. Burst
    BY <1>1, Bounds
  <2> QED
    BY <1>1, <2>1, <2>2 DEF IInv, Shape
<1> QED
  BY <1>6, <1>7 DEF IInv

LEMMA TickKeeps == ASSUME IInv, Tick PROVE IInv'
<1>1. /\ UNCHANGED <<failing, setbacks, up, f, approx, offset, where, lines, last, accepted>>
      /\ now' = now + 1 /\ logged' = 0 /\ now < MaxTime /\ now \in 0 .. MaxTime
  BY DEF Tick, IInv, Shape, open, disk
<1>2. now \in Nat /\ now + 1 \in 0 .. MaxTime
  BY <1>1, Bounds
<1>3. Sound(f, approx, offset, where, lines, last, now + 1, 0, accepted)
  BY <1>2, TickSound DEF IInv
<1>4. Sound(f', approx', offset', where', lines', last', now', logged', accepted')
  BY <1>1, <1>3
<1>5. Sound(f, approx, offset, where, lines, last, now, logged, accepted)'
  BY <1>1, <1>4, SoundNext
<1>6. Shape'
  BY <1>1, <1>2, Bounds DEF IInv, Shape
<1> QED
  BY <1>5, <1>6 DEF IInv

\* Once local time has gone back, nothing is claimed of the archives any more.
LEMMA SetBackKeeps == ASSUME IInv, SetBack PROVE IInv'
<1>1. /\ UNCHANGED <<failing, up, f, approx, offset, where, lines, last, accepted>>
      /\ now' \in 0 .. now - 1 /\ logged' = 0 /\ setbacks' = setbacks + 1
      /\ setbacks < MaxSetbacks
  BY DEF SetBack, open, disk
<1>2. now \in 0 .. MaxTime /\ setbacks \in 0 .. MaxSetbacks
  BY DEF IInv, Shape
<1>3. now' \in 0 .. MaxTime /\ setbacks' \in 0 .. MaxSetbacks /\ setbacks' # 0
  BY <1>1, <1>2, Bounds
<1>4. /\ DiskOK(where, lines, last)'
      /\ WriterOK(f, approx, offset, where, lines, last, accepted)'
      /\ BoundOK(f, approx, lines, accepted)'
  BY <1>1 DEF IInv, Sound, DiskOK, WriterOK, BoundOK
<1>5. /\ OrderOK(where, lines, now)'
      /\ KeptOK(approx, where, lines, now, logged, accepted)'
  BY <1>3 DEF OrderOK, KeptOK, Undisturbed
<1>6. Shape'
  BY <1>1, <1>3, Bounds DEF IInv, Shape
<1> QED
  BY <1>4, <1>5, <1>6 DEF IInv, Sound

LEMMA Inductive == IInv /\ [Next]_vars => IInv'
<1> SUFFICES ASSUME IInv, [Next]_vars
             PROVE  IInv'
  OBVIOUS
<1>1. CASE UNCHANGED vars
  BY <1>1 DEF vars, open, disk, IInv, Shape, Sound, DiskOK, OrderOK, WriterOK, BoundOK, KeptOK,
     Undisturbed
<1>2. CASE Next
  BY <1>2, StartKeeps, WriteLineKeeps, VerifyKeeps, LetGoKeeps, MoveLogKeeps,
     MakeLogKeeps, ForeignLineKeeps, TickKeeps, SetBackKeeps DEF Next
<1> QED
  BY <1>1, <1>2

THEOREM Invariant == Spec => []IInv
BY InitSound, Inductive, PTL DEF Spec

-----------------------------------------------------------------------------
(* What it comes to.                                                        *)

\* The writer (pkg/logging/rotating_writer.go) and the disk keep their types,
\* approxSize is no negative number, and one file at most is at the log's path.
THEOREM TypesHold == Spec => []TypeOK
<1>1. IInv => TypeOK
  <2> SUFFICES ASSUME IInv
               PROVE  TypeOK
    OBVIOUS
  <2>1. Shape
    BY DEF IInv
  <2>2. /\ f \in SUBSET File /\ \A x, y \in f : x = y
        /\ approx \in 0 .. last
        /\ f = {} => offset = AtEnd
        /\ offset = AtEnd \/ offset \in 0 .. last
        /\ where \in [File -> Where]
        /\ lines \in [File -> Seq(1 .. last)]
        /\ \A x, y \in Path(where) : x = y
    BY DEF IInv, Sound, WriterOK, DiskOK
  <2>3. last \in 0 .. MaxLines
    BY <2>1 DEF Shape
  <2>4. approx \in 0 .. MaxLines /\ offset \in AtEnd .. MaxLines
    BY <2>2, <2>3, Bounds DEF AtEnd
  <2>5. f \in {{}} \union {{x} : x \in File}
    <3>1. CASE f = {}
      BY <3>1
    <3>2. CASE f # {}
      <4>1. PICK x \in f : TRUE
        BY <3>2
      <4>2. f = {x} /\ x \in File
        BY <2>2, <4>1
      <4> QED
        BY <4>2
    <3> QED
      BY <3>1, <3>2
  <2>6. \A x \in File : lines[x] \in Seq(Line)
    <3>1. Seq(1 .. last) \subseteq Seq(1 .. MaxLines)
      BY <2>3, Bounds, SMT
    <3> QED
      BY <2>2, <3>1 DEF Line
  <2>7. accepted \subseteq Line
    BY <2>1, <2>3, Bounds DEF Shape, Line
  <2>8. Cardinality(AtPath) <= 1
    <3>1. AtPath = Path(where)
      BY DEF AtPath, Path
    <3>2. CASE AtPath = {}
      BY <3>2, FS_EmptySet
    <3>3. CASE AtPath # {}
      <4>1. PICK x \in AtPath : AtPath = {x}
        BY <2>2, <3>1, <3>3
      <4>2. Cardinality({x}) = 1
        BY FS_Singleton
      <4> QED
        BY <4>1, <4>2
    <3> QED
      BY <3>2, <3>3
  <2> QED
    BY <2>1, <2>2, <2>3, <2>4, <2>5, <2>6, <2>7, <2>8 DEF TypeOK, Shape
<1> QED
  BY <1>1, Invariant, PTL

\* README.md:104, "automatically rotated to timestamped archives".  If mkdir,
\* rename and open work, fewer lines than fill a log are logged in a second, and
\* local time has not gone back, then no accepted line is lost: rotateLocked (rotating_writer.go:129) renames
\* over no archive, and the file it opens without O_APPEND overwrites only lines
\* of others.
THEOREM LinesStay ==
  ASSUME Burst < MaxSize
  PROVE  Spec => []AcceptedLinesKept
<1>1. IInv => AcceptedLinesKept
  BY DEF IInv, Sound, KeptOK, Undisturbed, AcceptedLinesKept, RotationKeepsLines, LinesOf, Elements, LinesIn
<1> QED
  BY <1>1, Invariant, PTL

\* Write (rotating_writer.go:79) rotates in time: no file gets as many lines from
\* the writer as the limit, whatever fails and whoever else writes, moves and deletes.  A limit of one line is none: a
\* line is written to the empty file that follows a rotation in any case.
THEOREM FilesStayBounded ==
  ASSUME MaxSize > 1
  PROVE  Spec => []LogsBounded
<1>1. IInv => LogsBounded
  BY DEF IInv, Sound, BoundOK, LogsBounded, LinesOf, Elements, LinesIn
<1> QED
  BY <1>1, Invariant, PTL

\* The archives that rotateLocked names by the second (rotating_writer.go:144)
\* have, in the order of their names, the lines in the order they were written,
\* whatever fails, as long as the local time they are named by has not gone back.
THEOREM ArchivesInOrder == Spec => []ArchivesOrdered
<1>1. IInv => ArchivesOrdered
  BY DEF IInv, Sound, OrderOK, ArchivesOrdered, LinesOf, Elements, LinesIn
<1> QED
  BY <1>1, Invariant, PTL
=============================================================================
