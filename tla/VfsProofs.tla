----------------------------- MODULE VfsProofs -----------------------------
(***************************************************************************)
(* What one session's calls may change, for any paths and files, whatever   *)
(* the access map and the other sessions do between two steps of a call.    *)
(***************************************************************************)
EXTENDS Vfs, SequenceTheorems, TLAPS

-----------------------------------------------------------------------------
(* The inductive invariant.                                                *)

Op == {"open", "list", "rename", "setstat", "mkdir", "mkdirall", "remove", "removeall"}
OsFlag == {"WRONLY", "RDWR", "APPEND", "CREATE", "TRUNC", "EXCL"}
SetstatStage == Attribute \union {"owner"}
WriteFlags == {"WRONLY", "RDWR"}

\* What every call there is has in common: an open says in its flags whether
\* it is to write, and a setstat has something to set.
CallOK ==
  /\ call \in [op : Op, path : Path, target : Path, flags : SUBSET OsFlag,
               writes : BOOLEAN, todo : Seq(SetstatStage)]
  /\ call.op = "open" => call.writes = (call.flags \intersect WriteFlags # {})
  /\ call.op = "setstat" => call.todo # <<>>

\* A tree: a file is at one path only, and what is at a path is in a directory.
Tree(d) ==
  /\ d \in [Path -> File \union {Nothing, Directory}]
  /\ \A p, q \in Path : d[p] \in File /\ d[p] = d[q] => p = q
  /\ \A p, r \in Path : d[p] # Nothing /\ IsBelow(p, r) => d[r] = Directory

\* The two parts of TypeOK: the disk, and the call that is being served.
DiskOK ==
  /\ Tree(disk)
  /\ data \in [File -> {"empty", "data"}]
  /\ handle.file \in File \union {Nothing, Directory}

ProgressOK ==
  /\ checks \in 0 .. Len(Checks)
  /\ result \in {"running", "ok", "denied", "error"}
  /\ granted \in SUBSET (Right \X Path)
  /\ touched \in SUBSET Path

\* The checks that have been passed were answered with yes.
ChecksGranted == \A k \in 1 .. checks : Checks[k] \in granted

\* What a setstat has done and what it has left make up what it was to do.
StagesInv ==
  /\ done \in Seq(SetstatStage)
  /\ left \in Seq(SetstatStage)
  /\ call.op = "setstat" => /\ call.todo = done \o left
                            /\ result = "ok" <=> left = <<>>

\* Any other call changes nothing before it is granted all it asks for, and
\* not the path it asks about before it ends.
ContainedInv ==
  call.op # "setstat" =>
    /\ checks < Len(Checks) \/ result = "denied" => touched = {}
    /\ result # "ok" => \A p \in touched :
         \/ call.op = "removeall" /\ IsBelow(p, call.path)
         \/ call.op = "mkdirall" /\ IsBelow(call.path, p)

IInv ==
  /\ CallOK
  /\ DiskOK
  /\ ProgressOK
  /\ ChecksGranted
  /\ ChangesAreGranted
  /\ WritersWereGranted
  /\ WriteIntentIsKept
  /\ StagesInv
  /\ ContainedInv

-----------------------------------------------------------------------------
(* Paths and the tree.                                                     *)

\* The prefix order of paths, name by name.
LEMMA LeadsByName ==
  ASSUME NEW p \in Seq(Name), NEW q \in Seq(Name)
  PROVE  Leads(p, q) <=> Len(p) =< Len(q) /\ \A i \in 1 .. Len(p) : q[i] = p[i]
<1> USE LenProperties
<1>1. CASE Len(p) =< Len(q)
  <2>1. SubSeq(q, 1, Len(p)) \in Seq(Name) /\ Len(SubSeq(q, 1, Len(p))) = Len(p)
        /\ \A i \in 1 .. Len(p) : SubSeq(q, 1, Len(p))[i] = q[i]
    BY <1>1, SubSeqProperties
  <2>2. SubSeq(q, 1, Len(p)) = p <=> \A i \in 1 .. Len(p) : SubSeq(q, 1, Len(p))[i] = p[i]
    BY <2>1, SeqEqual
  <2> QED
    BY <1>1, <2>1, <2>2 DEF Leads
<1>2. CASE ~(Len(p) =< Len(q))
  BY <1>2 DEF Leads
<1> QED
  BY <1>1, <1>2

LEMMA LeadsOrder ==
  ASSUME NEW p \in Seq(Name), NEW q \in Seq(Name), NEW r \in Seq(Name)
  PROVE  /\ Leads(p, p)
         /\ Leads(p, q) /\ Leads(q, p) => p = q
         /\ Leads(p, q) /\ Leads(q, r) => Leads(p, r)
         /\ Leads(p, r) /\ Leads(q, r) => Leads(p, q) \/ Leads(q, p)
<1>1. Leads(p, p)
  BY LeadsByName, LenProperties
<1>2. Leads(p, q) /\ Leads(q, p) => p = q
  BY LeadsByName, LenProperties, SeqEqual
<1>3. Leads(p, q) /\ Leads(q, r) => Leads(p, r)
  BY LeadsByName, LenProperties
<1>4. Leads(p, r) /\ Leads(q, r) => Leads(p, q) \/ Leads(q, p)
  <2> SUFFICES ASSUME Leads(p, r), Leads(q, r) PROVE Leads(p, q) \/ Leads(q, p)
    OBVIOUS
  <2>1. /\ Len(p) \in Nat /\ Len(q) \in Nat
        /\ \A i \in 1 .. Len(p) : r[i] = p[i]
        /\ \A i \in 1 .. Len(q) : r[i] = q[i]
    BY LeadsByName, LenProperties
  <2>2. CASE Len(p) =< Len(q)
    BY <2>1, <2>2, LeadsByName
  <2>3. CASE Len(q) =< Len(p)
    BY <2>1, <2>3, LeadsByName
  <2> QED
    BY <2>1, <2>2, <2>3
<1> QED
  BY <1>1, <1>2, <1>3, <1>4

LEMMA MovedByName ==
  ASSUME NEW p \in Seq(Name), NEW q \in Seq(Name), NEW r \in Seq(Name), Leads(p, r)
  PROVE  LET m == MovedTo(r, p, q)
         IN /\ m \in Seq(Name)
            /\ Len(m) = Len(q) + Len(r) - Len(p)
            /\ \A i \in 1 .. Len(q) : m[i] = q[i]
            /\ \A i \in Len(p) + 1 .. Len(r) : m[i + Len(q) - Len(p)] = r[i]
<1> DEFINE t == SubSeq(r, Len(p) + 1, Len(r))
<1>1. Len(p) \in Nat /\ Len(q) \in Nat /\ Len(r) \in Nat /\ Len(p) =< Len(r)
  BY LeadsByName, LenProperties
<1>2. t \in Seq(Name) /\ Len(t) = Len(r) - Len(p) /\ \A i \in 1 .. Len(t) : t[i] = r[i + Len(p)]
  <2>1. CASE Len(p) = Len(r)
    BY <1>1, <2>1, SubSeqProperties
  <2>2. CASE Len(p) < Len(r)
    BY <1>1, <2>2, SubSeqProperties
  <2> QED
    BY <1>1, <2>1, <2>2
<1> HIDE DEF t
<1>3. q \o t \in Seq(Name) /\ Len(q \o t) = Len(q) + Len(t)
  BY <1>2, ConcatProperties
<1>4. /\ \A i \in 1 .. Len(q) : (q \o t)[i] = q[i]
      /\ \A i \in Len(q) + 1 .. Len(q) + Len(t) : (q \o t)[i] = t[i - Len(q)]
  BY <1>1, <1>2
<1>5. ASSUME NEW i \in Len(p) + 1 .. Len(r)
      PROVE  (q \o t)[i + Len(q) - Len(p)] = r[i]
  <2> DEFINE k == i - Len(p)
  <2>1. k \in 1 .. Len(t) /\ k + Len(q) \in Len(q) + 1 .. Len(q) + Len(t)
        /\ (k + Len(q)) - Len(q) = k /\ i + Len(q) - Len(p) = k + Len(q) /\ k + Len(p) = i
    BY <1>1, <1>2
  <2> HIDE DEF k
  <2> QED
    BY <1>2, <1>4, <2>1
<1>6. MovedTo(r, p, q) = q \o t
  BY DEF MovedTo, t
<1> QED
  BY <1>1, <1>2, <1>3, <1>4, <1>5, <1>6

\* A move puts what is moved below its target, no two paths on one, and keeps
\* what is below a directory below it.
LEMMA MovedOrder ==
  ASSUME NEW p \in Seq(Name), NEW q \in Seq(Name), NEW r \in Seq(Name), NEW s \in Seq(Name),
         Leads(p, r), Leads(p, s)
  PROVE  /\ MovedTo(r, p, q) \in Seq(Name)
         /\ Leads(q, MovedTo(r, p, q))
         /\ MovedTo(r, p, q) = MovedTo(s, p, q) => r = s
         /\ Leads(s, r) => Leads(MovedTo(s, p, q), MovedTo(r, p, q))
<1> DEFINE m == MovedTo(r, p, q)
           n == MovedTo(s, p, q)
<1>1. /\ m \in Seq(Name) /\ Len(m) = Len(q) + Len(r) - Len(p)
      /\ \A i \in 1 .. Len(q) : m[i] = q[i]
      /\ \A i \in Len(p) + 1 .. Len(r) : m[i + Len(q) - Len(p)] = r[i]
  BY MovedByName
<1>2. /\ n \in Seq(Name) /\ Len(n) = Len(q) + Len(s) - Len(p)
      /\ \A i \in 1 .. Len(q) : n[i] = q[i]
      /\ \A i \in Len(p) + 1 .. Len(s) : n[i + Len(q) - Len(p)] = s[i]
  BY MovedByName
<1>3. /\ Len(p) \in Nat /\ Len(q) \in Nat /\ Len(r) \in Nat /\ Len(s) \in Nat
      /\ Len(p) =< Len(r) /\ Len(p) =< Len(s)
      /\ \A i \in 1 .. Len(p) : r[i] = p[i] /\ s[i] = p[i]
  BY LeadsByName, LenProperties
<1> HIDE DEF m, n
<1>4. Leads(q, m)
  BY <1>1, <1>3, LeadsByName
<1>5. m = n => r = s
  <2> SUFFICES ASSUME m = n PROVE r = s
    OBVIOUS
  <2>1. Len(r) = Len(s)
    BY <1>1, <1>2, <1>3
  <2>2. \A i \in 1 .. Len(p) : r[i] = s[i]
    BY <1>3
  <2>3. \A i \in Len(p) + 1 .. Len(r) : r[i] = s[i]
    BY <1>1, <1>2, <1>3, <2>1
  <2>4. \A i \in 1 .. Len(r) : r[i] = s[i]
    BY <1>3, <2>2, <2>3
  <2> QED
    BY <2>1, <2>4, SeqEqual
<1>6. Leads(s, r) => Leads(n, m)
  <2> SUFFICES ASSUME Leads(s, r) PROVE Leads(n, m)
    OBVIOUS
  <2>1. Len(s) =< Len(r) /\ \A i \in 1 .. Len(s) : r[i] = s[i]
    BY LeadsByName
  <2>2. \A i \in 1 .. Len(q) : m[i] = n[i]
    BY <1>1, <1>2
  <2>3. ASSUME NEW i \in Len(q) + 1 .. Len(n)
        PROVE  m[i] = n[i]
    <3> DEFINE k == i + Len(p) - Len(q)
    <3>1. k \in Len(p) + 1 .. Len(s) /\ k \in Len(p) + 1 .. Len(r) /\ k \in 1 .. Len(s)
          /\ k + Len(q) - Len(p) = i
      BY <1>2, <1>3, <2>1
    <3> HIDE DEF k
    <3> QED
      BY <1>1, <1>2, <2>1, <3>1
  <2>4. Len(n) =< Len(m)
    BY <1>1, <1>2, <1>3, <2>1
  <2>5. \A i \in 1 .. Len(n) : m[i] = n[i]
    <3>1. Len(q) \in Nat /\ Len(n) \in Nat
      BY <1>2, <1>3, LenProperties
    <3>2. \A i \in 1 .. Len(n) : i \in 1 .. Len(q) \/ i \in Len(q) + 1 .. Len(n)
      BY <3>1
    <3> QED
      BY <2>2, <2>3, <3>2
  <2> QED
    BY <1>1, <1>2, <2>4, <2>5, LeadsByName
<1> QED
  BY <1>1, <1>4, <1>5, <1>6 DEF m, n
LEMMA PathsAreNames == \A p \in Path : p \in Seq(Name) /\ Len(p) \in Nat \ {0}
<1> SUFFICES ASSUME NEW p \in Path PROVE p \in Seq(Name) /\ Len(p) \in Nat \ {0}
  OBVIOUS
<1>1. p \in Seq(Name) /\ p # <<>>
  BY VfsAssumption
<1> QED
  BY <1>1, LenProperties, EmptySeq

\* Between a path and one below it all are paths.
LEMMA LeadingPaths ==
  ASSUME NEW p \in Seq(Name), p # <<>>, NEW q \in Path, Leads(p, q)
  PROVE  p \in Path
<1>1. Len(p) \in 1 .. Len(q) /\ SubSeq(q, 1, Len(p)) = p
  BY PathsAreNames, LenProperties, EmptySeq DEF Leads
<1> QED
  BY <1>1, VfsAssumption

\* One entry is made where it has a parent and nothing is below it.
LEMMA OneEntry ==
  ASSUME Tree(disk), NEW p \in Path, HasParent(p), IsEmpty(p),
         NEW e \in {Nothing, Directory} \union File, e \in File => \A r \in Path : disk[r] # e
  PROVE  Tree([disk EXCEPT ![p] = e])
<1> DEFINE d == [disk EXCEPT ![p] = e]
<1>1. d \in [Path -> File \union {Nothing, Directory}] /\ d[p] = e /\ \A r \in Path : r # p => d[r] = disk[r]
  BY DEF Tree
<1> HIDE DEF d
<1>2. \A r, s \in Path : d[r] \in File /\ d[r] = d[s] => r = s
  BY <1>1 DEF Tree
<1>3. ASSUME NEW r \in Path, NEW s \in Path, d[r] # Nothing, IsBelow(r, s)
      PROVE  d[s] = Directory
  <2>0. r # s
    BY <1>3 DEF IsBelow
  <2>1. CASE r = p
    BY <1>1, <1>3, <2>0, <2>1 DEF HasParent
  <2>2. CASE r # p /\ s = p
    BY <1>1, <1>3, <2>2 DEF IsEmpty
  <2>3. CASE r # p /\ s # p
    BY <1>1, <1>3, <2>3 DEF Tree
  <2> QED
    BY <2>1, <2>2, <2>3
<1> QED
  BY <1>1, <1>2, <1>3 DEF Tree, d

LEMMA RenamedIsTree ==
  ASSUME Tree(disk), NEW p \in Path, NEW q \in Path, MayRename(p, q)
  PROVE  /\ Tree(Renamed(p, q))
         /\ \A r \in Path : Renamed(p, q)[r] # disk[r] => Leads(p, r) \/ Leads(q, r)
<1> DEFINE d == Renamed(p, q)
           at(r) == MovedTo(r, q, p)
<1>1. /\ d \in [Path -> File \union {Nothing, Directory}]
      /\ \A r \in Path : Leads(q, r) /\ at(r) \in Path => d[r] = disk[at(r)]
      /\ \A r \in Path : Leads(q, r) /\ at(r) \notin Path => d[r] = Nothing
      /\ \A r \in Path : ~Leads(q, r) /\ Leads(p, r) => d[r] = Nothing
      /\ \A r \in Path : ~Leads(q, r) /\ ~Leads(p, r) => d[r] = disk[r]
  BY DEF Renamed, Tree
<1>2. /\ \A r \in Path : Leads(q, r) => at(r) \in Seq(Name) /\ Leads(p, at(r))
      /\ \A r, s \in Path : Leads(q, r) /\ Leads(q, s) /\ at(r) = at(s) => r = s
      /\ \A r, s \in Path : Leads(q, r) /\ Leads(q, s) /\ IsBelow(r, s) => IsBelow(at(r), at(s))
  BY MovedOrder, PathsAreNames DEF IsBelow
<1>3. VfsAssumption!1
  BY VfsAssumption
<1> HIDE DEF d, at
<1>4. \A r \in Path : d[r] # Nothing => ~Leads(p, r) \/ Leads(q, r)
  BY <1>1
<1>5. ASSUME NEW r \in Path, NEW s \in Path, d[r] \in File, d[r] = d[s]
      PROVE  r = s
  <2>0. d[r] # Nothing /\ d[s] # Nothing
    BY <1>3, <1>5
  <2>1. CASE Leads(q, r) /\ Leads(q, s)
    <3>1. at(r) \in Path /\ at(s) \in Path /\ disk[at(r)] = disk[at(s)] /\ disk[at(r)] \in File
      BY <1>1, <1>5, <2>0, <2>1
    <3> QED
      BY <1>2, <2>1, <3>1 DEF Tree
  <2>2. CASE Leads(q, r) /\ ~Leads(q, s)
    <3>1. at(r) \in Path /\ disk[at(r)] = disk[s] /\ disk[at(r)] \in File /\ ~Leads(p, s)
      BY <1>1, <1>4, <1>5, <2>0, <2>2
    <3> QED
      BY <1>2, <2>2, <3>1 DEF Tree
  <2>3. CASE ~Leads(q, r) /\ Leads(q, s)
    <3>1. at(s) \in Path /\ disk[at(s)] = disk[r] /\ disk[at(s)] \in File /\ ~Leads(p, r)
      BY <1>1, <1>4, <1>5, <2>0, <2>3
    <3> QED
      BY <1>2, <2>3, <3>1 DEF Tree
  <2>4. CASE ~Leads(q, r) /\ ~Leads(q, s)
    <3>1. d[r] = disk[r] /\ d[s] = disk[s]
      BY <1>1, <1>4, <2>0, <2>4
    <3> QED
      BY <1>5, <3>1 DEF Tree
  <2> QED
    BY <2>1, <2>2, <2>3, <2>4
<1>6. ASSUME NEW r \in Path, NEW s \in Path, d[r] # Nothing, IsBelow(r, s)
      PROVE  d[s] = Directory
  <2>0. p \in Seq(Name) /\ q \in Seq(Name) /\ r \in Seq(Name) /\ s \in Seq(Name) /\ Leads(s, r)
    BY <1>6, PathsAreNames DEF IsBelow
  <2>1. CASE Leads(q, s)
    <3>1. Leads(q, r)
      BY <2>0, <2>1, LeadsOrder
    <3>2. at(r) \in Path /\ disk[at(r)] # Nothing
      BY <1>1, <1>6, <3>1
    <3>3. IsBelow(at(r), at(s)) /\ at(s) \in Seq(Name) /\ Leads(p, at(s))
      BY <1>2, <1>6, <2>1, <3>1
    <3>4. at(s) # <<>>
      BY <3>3, PathsAreNames, LeadsByName, LenProperties, EmptySeq
    <3>5. at(s) \in Path
      BY <3>2, <3>3, <3>4, LeadingPaths DEF IsBelow
    <3> QED
      BY <1>1, <2>1, <3>2, <3>3, <3>5 DEF Tree
  <2>2. CASE ~Leads(q, s) /\ Leads(q, r)
    <3>1. IsBelow(q, s)
      BY <2>0, <2>2, LeadsOrder DEF IsBelow
    <3>2. disk[s] = Directory
      BY <3>1 DEF MayRename, HasParent
    <3>3. ~Leads(p, s)
      <4> SUFFICES ASSUME Leads(p, s) PROVE FALSE
        OBVIOUS
      <4>1. Leads(p, q)
        BY <2>0, <3>1, LeadsOrder DEF IsBelow
      <4>2. p = q
        BY <4>1 DEF MayRename, IsBelow
      <4> QED
        BY <2>2, <4>2
    <3> QED
      BY <1>1, <2>2, <3>2, <3>3
  <2>3. CASE ~Leads(q, s) /\ ~Leads(q, r)
    <3>1. ~Leads(p, r) /\ d[r] = disk[r]
      BY <1>1, <1>4, <1>6, <2>3
    <3>2. ~Leads(p, s)
      BY <2>0, <3>1, LeadsOrder
    <3>3. d[s] = disk[s]
      BY <1>1, <2>3, <3>2
    <3> QED
      BY <1>6, <3>1, <3>3 DEF Tree
  <2> QED
    BY <2>1, <2>2, <2>3
<1>7. \A r \in Path : d[r] # disk[r] => Leads(p, r) \/ Leads(q, r)
  BY <1>1
<1> QED
  BY <1>1, <1>5, <1>6, <1>7 DEF Tree, d

-----------------------------------------------------------------------------
(* The calls.                                                              *)

\* The stages of a setstat with something to set.
LEMMA StagesAreSome ==
  ASSUME NEW as \in SUBSET Attribute, as # {}
  PROVE  Stages(as) \in Seq(SetstatStage) /\ Stages(as) # <<>>
<1> DEFINE s1 == Stage("size", as)
           s2 == Stage("mode", as)
           s3 == Stage("times", as)
<1>1. s1 \in Seq(SetstatStage) /\ s2 \in Seq(SetstatStage) /\ s3 \in Seq(SetstatStage)
  <2>1. \A a \in Attribute : <<a>> \in Seq(SetstatStage) /\ <<>> \in Seq(SetstatStage)
    BY DEF SetstatStage
  <2> QED
    BY <2>1 DEF Stage, Attribute
<1>2. s1 # <<>> \/ s2 # <<>> \/ s3 # <<>>
  BY DEF Stage, Attribute
<1>3. Stages(as) = (s1 \o s2) \o s3
  BY DEF Stages
<1> HIDE DEF s1, s2, s3
<1>4. s1 \o s2 \in Seq(SetstatStage) /\ (s1 \o s2 = <<>> => s1 = <<>> /\ s2 = <<>>)
  BY <1>1, ConcatProperties, ConcatSimplifications!concIsEmpty
<1>5. (s1 \o s2) \o s3 \in Seq(SetstatStage)
  BY <1>1, <1>4, ConcatProperties
<1>6. (s1 \o s2) \o s3 = <<>> => s1 \o s2 = <<>> /\ s3 = <<>>
  BY <1>1, <1>4, ConcatSimplifications!concIsEmpty
<1> QED
  BY <1>2, <1>3, <1>4, <1>5, <1>6

LEMMA WellFormed ==
  ASSUME NEW op \in Op, NEW p \in Path, NEW q \in Path, NEW flags \in SUBSET OsFlag,
         NEW writes \in BOOLEAN, NEW todo \in Seq(SetstatStage),
         op = "open" => writes = (flags \intersect WriteFlags # {}),
         op = "setstat" => todo # <<>>,
         call = Call(op, p, q, flags, writes, todo)
  PROVE  CallOK
<1>1. /\ call.op = op /\ call.path = p /\ call.target = q
      /\ call.flags = flags /\ call.writes = writes /\ call.todo = todo
  BY DEF Call
<1>2. call \in [op : Op, path : Path, target : Path, flags : SUBSET OsFlag,
                writes : BOOLEAN, todo : Seq(SetstatStage)]
  BY DEF Call
<1> QED
  BY <1>1, <1>2 DEF CallOK

LEMMA CallsAreOK == call \in Calls => CallOK
<1> SUFFICES ASSUME call \in Calls PROVE CallOK
  OBVIOUS
<1>1. <<>> \in Seq(SetstatStage) /\ <<"owner">> \in Seq(SetstatStage) /\ <<"owner">> # <<>>
  BY DEF SetstatStage
<1>2. \A op \in {"list", "mkdir", "mkdirall", "remove", "removeall", "open"}, p \in Path :
        call = Simple(op, p) => CallOK
  BY <1>1, WellFormed DEF Simple, Op
<1>3. CASE call \in SftpOpens
  <2>1. ASSUME NEW p \in Path, NEW fs \in SUBSET SftpFlag, NEW writes \in BOOLEAN,
               writes <=> fs \intersect {"Write", "Append"} # {},
               call = Call("open", p, p, ToOsFileFlags(fs), writes, <<>>)
        PROVE  CallOK
    <3>1. ToOsFileFlags(fs) \subseteq OsFlag
      BY DEF ToOsFileFlags, OsFlag
    <3>2. writes = (ToOsFileFlags(fs) \intersect WriteFlags # {})
      BY <2>1 DEF ToOsFileFlags, WriteFlags
    <3> HIDE DEF ToOsFileFlags
    <3> QED
      BY <1>1, <2>1, <3>1, <3>2, WellFormed DEF Op
  <2>2. (\E p \in Path, fs \in SUBSET SftpFlag :
           call = Call("open", p, p, ToOsFileFlags(fs), fs \intersect {"Write", "Append"} # {}, <<>>))
        \/ \E p \in Path : call = Simple("open", p)
    BY <1>3 DEF SftpOpens
  <2> QED
    BY <1>2, <2>1, <2>2
<1>4. CASE call \in FtpOpens
  <2> DEFINE ftpFlags == {{"WRONLY", "CREATE", "TRUNC"}, {"WRONLY", "CREATE", "APPEND"},
                          {"WRONLY"}, {"RDWR", "CREATE", "TRUNC"}}
  <2>0. FtpOpens = {Call("open", p, p, flags, TRUE, <<>>) : p \in Path, flags \in ftpFlags}
    BY DEF FtpOpens
  <2> HIDE DEF ftpFlags
  <2>1. PICK p \in Path, flags \in ftpFlags : call = Call("open", p, p, flags, TRUE, <<>>)
    BY <1>4, <2>0 DEF Call
  <2>2. flags \in SUBSET OsFlag /\ TRUE = (flags \intersect WriteFlags # {})
    BY <2>1 DEF ftpFlags, OsFlag, WriteFlags
  <2> QED
    BY <1>1, <2>1, <2>2, WellFormed DEF Op, Call
<1>5. CASE call \in Renames
  <2>1. PICK p \in Path, q \in Path : call = Call("rename", p, q, {}, FALSE, <<>>)
    BY <1>5 DEF Renames, Call
  <2> QED
    BY <1>1, <2>1, WellFormed DEF Op, Call
<1>6. CASE call \in Setstats
  <2>1. ASSUME NEW p \in Path, NEW todo \in Seq(SetstatStage), todo # <<>>,
               call = Call("setstat", p, p, {}, FALSE, todo)
        PROVE  CallOK
    BY <2>1, WellFormed DEF Op, Call
  <2>2. \/ \E p \in Path : call = Call("setstat", p, p, {}, FALSE, <<"owner">>)
        \/ \E p \in Path, as \in (SUBSET Attribute) \ {{}} :
             call = Call("setstat", p, p, {}, FALSE, Stages(as))
    BY <1>6 DEF Setstats, Call
  <2>3. CASE \E p \in Path : call = Call("setstat", p, p, {}, FALSE, <<"owner">>)
    BY <1>1, <2>1, <2>3 DEF Call
  <2>4. ASSUME NEW p \in Path, NEW as \in (SUBSET Attribute) \ {{}},
               call = Call("setstat", p, p, {}, FALSE, Stages(as))
        PROVE  CallOK
    <3>1. Stages(as) \in Seq(SetstatStage) /\ Stages(as) # <<>>
      BY StagesAreSome
    <3> QED
      BY <2>1, <2>4, <3>1 DEF Call
  <2> QED
    BY <2>2, <2>3, <2>4 DEF Call
<1> QED
  BY <1>2, <1>3, <1>4, <1>5, <1>6 DEF Calls

LEMMA ChecksOK ==
  ASSUME CallOK
  PROVE  /\ Len(Checks) \in 1 .. 2
         /\ \A k \in 1 .. Len(Checks) : Checks[k] \in Right \X Path
         /\ call.op = "open" /\ IsWriteFlag(call.flags) => Checks[1] = <<"write", call.path>>
         /\ call.op \notin {"open", "list"} => Checks[1] = <<"write", call.path>>
         /\ call.op = "rename" => Len(Checks) = 2 /\ Checks[2] = <<"write", call.target>>
BY DEF CallOK, Checks, Right, Op

-----------------------------------------------------------------------------
(* The parts of the invariant, step by step.                                *)

LEMMA InitialSession == Init => IInv
<1> SUFFICES ASSUME Init PROVE IInv
  OBVIOUS
<1>1. DiskOK
  BY VfsAssumption DEF Init, DiskOK, Tree, HasParent, NoHandle
<1>2. CallOK
  <2>1. \E p \in Path : call = Simple("list", p)
    BY DEF Init
  <2> QED
    BY <2>1, CallsAreOK DEF Calls
<1>3. ProgressOK /\ ChecksGranted
  BY <1>2, ChecksOK DEF Init, ProgressOK, ChecksGranted
<1>4. ChangesAreGranted /\ WritersWereGranted /\ WriteIntentIsKept /\ ContainedInv
  BY DEF Init, ChangesAreGranted, WritersWereGranted, WriteIntentIsKept, ContainedInv, NoHandle
<1>5. StagesInv
  BY DEF Init, StagesInv, Simple, Call
<1> QED
  BY <1>1, <1>2, <1>3, <1>4, <1>5 DEF IInv

LEMMA CallStep == CallOK /\ [Next]_vars => CallOK'
<1> SUFFICES ASSUME CallOK, [Next]_vars PROVE CallOK'
  OBVIOUS
<1>1. CASE Begin
  <2>1. (call \in Calls)'
    BY <1>1 DEF Begin
  <2>2. (call \in Calls => CallOK)'
    BY CallsAreOK, PTL
  <2> QED
    BY <2>1, <2>2
<1>2. CASE UNCHANGED call
  BY <1>2 DEF CallOK
<1> QED
  BY <1>1, <1>2 DEF Next, vars, Check, FsFails, ActOpen, ActList, ActEntry, ActRename, ActEach,
     ChangeEntries, ActEachIsDone, ActAttribute, NextStage, WriteAt, CloseHandle, ChangeDisk

\* No step makes two paths name one file, or takes a directory from what is
\* below it.
LEMMA DiskStep == DiskOK /\ CallOK /\ [Next]_vars => DiskOK'
<1> SUFFICES ASSUME DiskOK, CallOK, [Next]_vars PROVE DiskOK'
  OBVIOUS
<1>0. call.path \in Path /\ call.target \in Path
  BY DEF CallOK
<1>1. \A d : disk' = d /\ Tree(d) => Tree(disk')
  OBVIOUS
<1>2. CASE UNCHANGED <<disk, data, handle>>
  BY <1>2 DEF DiskOK
<1>3. CASE ActOpen
  <2> DEFINE p == call.path
  <2>1. \/ IsFile(p) /\ handle'.file = disk[p] /\ UNCHANGED disk
        \/ disk[p] = Directory /\ handle'.file = Directory /\ UNCHANGED disk
        \/ \E f \in FreeFiles : /\ disk[p] = Nothing /\ HasParent(p) /\ handle'.file = f
                                /\ disk' = [disk EXCEPT ![p] = f]
    BY <1>3 DEF ActOpen
  <2>2. data' \in [File -> {"empty", "data"}]
    BY <1>3 DEF ActOpen, DiskOK
  <2>3. ASSUME NEW f \in FreeFiles, disk[p] = Nothing, HasParent(p),
               disk' = [disk EXCEPT ![p] = f]
        PROVE  Tree(disk') /\ f \in File
    <3>1. f \in File /\ \A r \in Path : disk[r] # f
      BY DEF FreeFiles
    <3>2. IsEmpty(p)
      BY <1>0, <2>3, VfsAssumption DEF IsEmpty, DiskOK, Tree, Nothing, Directory
    <3>3. Tree([disk EXCEPT ![p] = f])
      BY <1>0, <2>3, <3>1, <3>2, OneEntry DEF DiskOK
    <3> QED
      BY <2>3, <3>1, <3>3
  <2>4. IsFile(p) => disk[p] \in File
    BY DEF IsFile
  <2> QED
    BY <2>1, <2>2, <2>3, <2>4 DEF DiskOK
<1>4. ASSUME NEW p \in Path, NEW e \in {Nothing, Directory} \union FreeFiles,
             HasParent(p), IsEmpty(p), disk' = [disk EXCEPT ![p] = e], UNCHANGED <<data, handle>>
      PROVE  DiskOK'
  <2>1. e \in {Nothing, Directory} \union File /\ (e \in File => \A r \in Path : disk[r] # e)
    BY VfsAssumption DEF FreeFiles
  <2>2. Tree([disk EXCEPT ![p] = e])
    BY <1>4, <2>1, OneEntry DEF DiskOK
  <2> QED
    BY <1>4, <2>2 DEF DiskOK
<1>5. ASSUME NEW p \in Path, NEW q \in Path, MayRename(p, q),
             disk' = Renamed(p, q), UNCHANGED <<data, handle>>
      PROVE  DiskOK'
  <2>1. Tree(Renamed(p, q))
    BY <1>5, RenamedIsTree DEF DiskOK
  <2> QED
    BY <1>5, <2>1 DEF DiskOK
<1>6. \A p \in Path : disk[p] = Nothing => IsEmpty(p)
  BY DEF IsEmpty, DiskOK, Tree, Nothing, Directory
<1>7. \A p \in Path : disk[p] # Nothing => HasParent(p)
  BY DEF HasParent, DiskOK, Tree
<1>8. CASE ActEntry
  BY <1>0, <1>4, <1>6, <1>7, <1>8 DEF ActEntry, ChangeEntries
<1>9. CASE ActRename
  BY <1>0, <1>5, <1>9 DEF ActRename, ChangeEntries
<1>10. CASE ActEach
  BY <1>4, <1>6, <1>7, <1>10 DEF ActEach, ChangeEntries
<1>11. CASE ActAttribute
  <2>1. UNCHANGED <<disk, handle>> /\ data' \in [File -> {"empty", "data"}]
    BY <1>11 DEF ActAttribute, NextStage, DiskOK
  <2> QED
    BY <2>1 DEF DiskOK
<1>12. CASE WriteAt
  BY <1>12 DEF WriteAt, DiskOK
<1>13. CASE CloseHandle
  BY <1>13 DEF CloseHandle, NoHandle, DiskOK
<1>14. CASE ChangeDisk
  BY <1>4, <1>5, <1>14 DEF ChangeDisk
<1> QED
  BY <1>2, <1>3, <1>8, <1>9, <1>10, <1>11, <1>12, <1>13, <1>14
  DEF Next, vars, Begin, Check, FsFails, ActList, ActEachIsDone

\* A step that is not the beginning of a call is about the same one.
LEMMA SameCall ==
  ASSUME [Next]_vars, ~Begin
  PROVE  call' = call /\ Checks' = Checks
<1>1. call' = call
  BY DEF Next, vars, Check, FsFails, ActOpen, ActList, ActEntry, ActRename, ActEach,
     ChangeEntries, ActEachIsDone, ActAttribute, NextStage, WriteAt, CloseHandle, ChangeDisk
<1> QED
  BY <1>1 DEF Checks

\* Whatever the access map says later, a check that is passed is on record,
\* and a call acts only when all of its checks, or of its stage's, are.
LEMMA GrantsStep ==
  CallOK /\ DiskOK /\ ProgressOK /\ ChecksGranted /\ ChangesAreGranted /\ [Next]_vars
    => (ProgressOK /\ ChecksGranted /\ ChangesAreGranted)'
<1> SUFFICES ASSUME CallOK, DiskOK, ProgressOK, ChecksGranted, ChangesAreGranted, [Next]_vars
             PROVE  (ProgressOK /\ ChecksGranted /\ ChangesAreGranted)'
  OBVIOUS
<1>1. CASE Begin
  <2>1. (Len(Checks) \in 1 .. 2)'
    BY CallStep, ChecksOK, PTL
  <2>2. checks' = 0 /\ result' = "running" /\ granted' = {} /\ touched' = {}
    BY <1>1 DEF Begin
  <2>3. (checks \in 0 .. Len(Checks))'
    BY <2>1, <2>2
  <2>4. granted' \in SUBSET (Right \X Path) /\ touched' \in SUBSET Path
    BY <2>2
  <2>5. ChecksGranted' /\ ChangesAreGranted'
    BY <2>2 DEF ChecksGranted, ChangesAreGranted
  <2> QED
    BY <2>2, <2>3, <2>4, <2>5 DEF ProgressOK
<1>2. CASE Check
  <2>1. Checks' = Checks
    BY <1>2 DEF Check, Checks
  <2>2. Len(Checks) \in 1 .. 2
    BY ChecksOK
  <2>3. checks \in 0 .. Len(Checks) - 1
    BY <1>2, <2>2 DEF Check, ProgressOK
  <2>4. Checks[checks + 1] \in Right \X Path
    <3>1. checks + 1 \in 1 .. Len(Checks)
      BY <2>2, <2>3
    <3> QED
      BY <3>1, ChecksOK
  <2>5. UNCHANGED touched
    BY <1>2 DEF Check
  <2>6. \/ checks' = checks + 1 /\ granted' = granted \union {Checks[checks + 1]} /\ result' = result
        \/ checks' = checks /\ granted' = granted /\ result' = "denied"
    BY <1>2 DEF Check
  <2>7. granted' \in SUBSET (Right \X Path)
    BY <2>4, <2>6 DEF ProgressOK
  <2>8. checks' \in 0 .. Len(Checks) /\ result' \in {"running", "ok", "denied", "error"}
    BY <2>2, <2>3, <2>6 DEF ProgressOK
  <2>9. ProgressOK'
    BY <2>1, <2>5, <2>7, <2>8 DEF ProgressOK
  <2>10. ChecksGranted'
    BY <2>1, <2>3, <2>6 DEF ChecksGranted
  <2>11. ChangesAreGranted'
    <3>1. call' = call
      BY <1>2 DEF Check
    <3> QED
      BY <2>5, <2>6, <3>1 DEF ChangesAreGranted, Covers
  <2> QED
    BY <2>9, <2>10, <2>11
<1>3. CASE Acting /\ (ActOpen \/ ActEntry \/ ActRename \/ ActEach \/ ActAttribute)
  <2>1. ~Begin
    BY <1>3 DEF Begin, Acting
  <2>2. Checks' = Checks /\ granted' = granted /\ call' = call
    BY <1>3, <2>1, SameCall
    DEF ActOpen, ActEntry, ActRename, ActEach, ChangeEntries, ActAttribute, NextStage
  <2>3. \A k \in 1 .. Len(Checks) : Checks[k] \in granted
    BY <1>3 DEF Acting, ChecksGranted
  <2>4. Len(Checks) \in 1 .. 2
    BY ChecksOK
  <2>5. checks' \in 0 .. Len(Checks) /\ result' \in {"running", "ok", "denied", "error"}
    <3>1. checks' = checks \/ checks' = 0
      BY <1>3 DEF ActOpen, ActEntry, ActRename, ActEach, ChangeEntries, ActAttribute, NextStage
    <3>2. result' \in {"running", "ok"}
      BY <1>3 DEF ActOpen, ActEntry, ActRename, ActEach, ActAttribute, NextStage
    <3> QED
      BY <2>4, <3>1, <3>2 DEF ProgressOK
  <2>6. \A p \in touched' :
          p \in Path /\ \E g \in Path : <<"write", g>> \in granted /\ Covers(g, p)
    <3>0. /\ call.path \in Path /\ call.target \in Path
          /\ \A p \in touched : p \in Path /\ \E g \in Path : <<"write", g>> \in granted /\ Covers(g, p)
      BY DEF CallOK, ProgressOK, ChangesAreGranted
    <3>1. CASE ActOpen
      <4>1. touched' \subseteq touched \/ (touched' = {call.path} /\ IsWriteFlag(call.flags))
        BY <3>1 DEF ActOpen, IsWriteFlag
      <4>2. IsWriteFlag(call.flags) => <<"write", call.path>> \in granted
        BY <2>3, <2>4, <3>1, ChecksOK DEF ActOpen
      <4> QED
        BY <3>0, <4>1, <4>2 DEF Covers
    <3>2. CASE ActEntry
      <4>1. touched' \subseteq touched \union {call.path}
        BY <3>2 DEF ActEntry, ChangeEntries, DiskOK, Tree
      <4>2. <<"write", call.path>> \in granted
        BY <2>3, <2>4, <3>2, ChecksOK DEF ActEntry
      <4> QED
        BY <3>0, <4>1, <4>2 DEF Covers
    <3>3. CASE ActRename
      <4>1. /\ touched' = touched \union {p \in Path : Renamed(call.path, call.target)[p] # disk[p]}
            /\ MayRename(call.path, call.target) /\ call.op = "rename"
        BY <3>3 DEF ActRename, ChangeEntries
      <4>2. \A p \in Path : Renamed(call.path, call.target)[p] # disk[p] =>
                              Leads(call.path, p) \/ Leads(call.target, p)
        BY <3>0, <4>1, RenamedIsTree DEF DiskOK
      <4>3. <<"write", call.path>> \in granted /\ <<"write", call.target>> \in granted
        <5>1. Checks[1] = <<"write", call.path>>
          BY <4>1, ChecksOK
        <5>2. Len(Checks) = 2 /\ Checks[2] = <<"write", call.target>>
          BY <4>1, ChecksOK
        <5> QED
          BY <2>3, <5>1, <5>2
      <4>4. \A p : (Leads(call.path, p) => Covers(call.path, p)) /\ (Leads(call.target, p) => Covers(call.target, p))
        BY <4>1 DEF Covers, IsBelow
      <4> QED
        BY <3>0, <4>1, <4>2, <4>3, <4>4
    <3>4. CASE ActEach
      <4>1. <<"write", call.path>> \in granted
        BY <2>3, <2>4, <3>4, ChecksOK DEF ActEach
      <4>2. PICK p \in Path : /\ touched' \subseteq touched \union {p}
                              /\ \/ call.op = "mkdirall" /\ Leads(p, call.path)
                                 \/ call.op = "removeall" /\ Leads(call.path, p)
        BY <3>4 DEF ActEach, ChangeEntries, DiskOK, Tree
      <4>3. Covers(call.path, p)
        BY <4>2 DEF Covers, IsBelow
      <4> QED
        BY <3>0, <4>1, <4>2, <4>3
    <3>5. CASE ActAttribute
      <4>1. touched' = {call.path} /\ <<"write", call.path>> \in granted
        BY <2>3, <2>4, <3>5, ChecksOK DEF ActAttribute
      <4> QED
        BY <3>0, <4>1 DEF Covers
    <3> QED
      BY <1>3, <3>1, <3>2, <3>3, <3>4, <3>5
  <2>7. ChecksGranted'
    <3>1. checks' \in 0 .. Len(Checks)
      BY <2>5
    <3> QED
      BY <2>2, <2>3, <2>4, <3>1 DEF ChecksGranted
  <2>8. ChangesAreGranted'
    <3>1. \A g, p : Covers(g, p)' = Covers(g, p)
      BY <2>2 DEF Covers
    <3> QED
      BY <2>2, <2>6, <3>1 DEF ChangesAreGranted
  <2> QED
    BY <2>2, <2>5, <2>6, <2>7, <2>8 DEF ProgressOK
<1>4. CASE FsFails \/ ActList \/ ActEachIsDone
  <2>1. /\ Checks' = Checks /\ checks' = checks /\ granted' = granted /\ touched' = touched
        /\ call' = call
    BY <1>4 DEF FsFails, ActList, ActEachIsDone, Checks
  <2>2. result' \in {"ok", "error"}
    BY <1>4 DEF FsFails, ActList, ActEachIsDone
  <2> QED
    BY <2>1, <2>2 DEF ProgressOK, ChecksGranted, ChangesAreGranted, Covers
<1>5. CASE UNCHANGED <<call, checks, result, granted, touched>>
  <2>1. Checks' = Checks
    BY <1>5 DEF Checks
  <2> QED
    BY <1>5, <2>1 DEF ProgressOK, ChecksGranted, ChangesAreGranted, Covers
<1> QED
  BY <1>1, <1>2, <1>3, <1>4, <1>5
  DEF Next, vars, ActOpen, ActEntry, ActRename, ActEach, ActAttribute, WriteAt, CloseHandle, ChangeDisk

\* What Open and OpenFile return.
LEMMA HandleOfOpen ==
  ASSUME ActOpen
  PROVE  /\ handle'.write = (call.flags \intersect WriteFlags # {})
         /\ handle'.by = granted
         /\ handle'.path = call.path
<1>1. \E f, w : /\ w = (call.flags \intersect {"WRONLY", "RDWR"} # {})
                /\ handle' = [file |-> f, path |-> call.path, by |-> granted, write |-> w]
  BY Zenon DEF ActOpen
<1>2. \A f, w : handle' = [file |-> f, path |-> call.path, by |-> granted, write |-> w]
                  => handle'.write = w /\ handle'.by = granted /\ handle'.path = call.path
  OBVIOUS
<1> QED
  BY <1>1, <1>2, Zenon DEF WriteFlags

\* A handle remembers what its opening was granted.
LEMMA WritersStep ==
  CallOK /\ ProgressOK /\ ChecksGranted /\ WritersWereGranted /\ [Next]_vars => WritersWereGranted'
<1> SUFFICES ASSUME CallOK, ProgressOK, ChecksGranted, WritersWereGranted, [Next]_vars
             PROVE  WritersWereGranted'
  OBVIOUS
<1>1. CASE ActOpen
  <2>1. /\ handle'.write => IsWriteFlag(call.flags)
        /\ handle'.by = granted /\ handle'.path = call.path
    BY <1>1, HandleOfOpen DEF WriteFlags, IsWriteFlag
  <2>2. IsWriteFlag(call.flags) => <<"write", call.path>> \in granted
    BY <1>1, ChecksOK DEF ActOpen, Acting, ChecksGranted
  <2> QED
    BY <2>1, <2>2 DEF WritersWereGranted
<1>2. CASE CloseHandle
  BY <1>2 DEF CloseHandle, NoHandle, WritersWereGranted
<1>3. CASE UNCHANGED handle
  BY <1>3 DEF WritersWereGranted
<1> QED
  BY <1>1, <1>2, <1>3 DEF Next, vars, Begin, Check, FsFails, ActList, ActEntry, ActRename,
     ActEach, ChangeEntries, ActEachIsDone, ActAttribute, NextStage, WriteAt, ChangeDisk

\* The flags of a call that means to write open for writing, and no others do.
LEMMA IntentStep ==
  CallOK /\ WriteIntentIsKept /\ [Next]_vars => WriteIntentIsKept'
<1> SUFFICES ASSUME CallOK, WriteIntentIsKept, [Next]_vars PROVE WriteIntentIsKept'
  OBVIOUS
<1>1. CASE ActOpen
  <2>1. call' = call /\ handle'.write = (call.flags \intersect WriteFlags # {})
    BY <1>1, HandleOfOpen DEF ActOpen
  <2>2. call.writes = (call.flags \intersect WriteFlags # {})
    BY <1>1 DEF ActOpen, CallOK
  <2>3. handle'.write = call'.writes
    BY <2>1, <2>2, Zenon
  <2> QED
    BY <2>3, Zenon DEF WriteIntentIsKept
<1>2. CASE CloseHandle
  BY <1>2 DEF CloseHandle, WriteIntentIsKept
<1>3. CASE result' # "ok" \/ (result' = "ok" /\ call'.op # "open")
  BY <1>3 DEF WriteIntentIsKept
<1>4. CASE UNCHANGED <<call, result, handle>>
  BY <1>4 DEF WriteIntentIsKept
<1>5. Begin \/ FsFails => result' # "ok"
  BY DEF Begin, FsFails
<1>6. Check => result' # "ok"
  BY DEF Check
<1>7. ActList \/ ActEntry \/ ActRename \/ ActEach \/ ActEachIsDone \/ ActAttribute => call'.op # "open"
  BY DEF ActList, ActEntry, ActRename, ActEach, ChangeEntries, ActEachIsDone, ActAttribute, NextStage
<1> QED
  BY <1>1, <1>2, <1>3, <1>4, <1>5, <1>6, <1>7
  DEF Next, vars, WriteAt, ChangeDisk

\* A stage moves one attribute from what is left to what is done.
LEMMA StagesStep == CallOK /\ StagesInv /\ [Next]_vars => StagesInv'
<1> SUFFICES ASSUME CallOK, StagesInv, [Next]_vars PROVE StagesInv'
  OBVIOUS
<1>1. CASE Begin
  <2>1. CallOK'
    BY CallStep
  <2>2. done' = <<>> /\ left' = call'.todo /\ result' = "running"
    BY <1>1 DEF Begin
  <2>3. call'.todo \in Seq(SetstatStage)
    BY <2>1 DEF CallOK
  <2>4. <<>> \in Seq(SetstatStage) /\ <<>> \o left' = left'
    BY <2>2, <2>3, ConcatEmptySeq
  <2>5. call'.op = "setstat" => left' # <<>>
    BY <2>1, <2>2 DEF CallOK
  <2> QED
    BY <2>2, <2>3, <2>4, <2>5 DEF StagesInv
<1>2. CASE ActAttribute
  <2> DEFINE h == Head(left)
             t == Tail(left)
  <2>1. /\ call' = call /\ done' = Append(done, h) /\ left' = t
        /\ result' = IF Len(left) = 1 THEN "ok" ELSE "running"
        /\ call.op = "setstat" /\ result = "running"
    BY <1>2 DEF ActAttribute, NextStage, Acting
  <2>2. /\ done \in Seq(SetstatStage) /\ left \in Seq(SetstatStage)
        /\ left # <<>> /\ call.todo = done \o left
    BY <2>1 DEF StagesInv
  <2>3. h \in SetstatStage /\ t \in Seq(SetstatStage) /\ Len(t) = Len(left) - 1 /\ Len(left) \in Nat
    BY <2>2, HeadTailProperties, LenProperties
  <2>4. left = <<h>> \o t
    BY <2>2
  <2> HIDE DEF h, t
  <2>5. <<h>> \in Seq(SetstatStage) /\ Append(done, h) \in Seq(SetstatStage)
    BY <2>2, <2>3
  <2>6. Append(done, h) \o t = done \o left
    <3>1. Append(done, h) = done \o <<h>>
      BY <2>2, <2>3, AppendIsConcat
    <3>2. (done \o <<h>>) \o t = done \o (<<h>> \o t)
      BY <2>2, <2>3, <2>5, ConcatAssociative
    <3> QED
      BY <2>4, <3>1, <3>2
  <2>7. t = <<>> <=> Len(left) = 1
    BY <2>3, EmptySeq
  <2> QED
    BY <2>1, <2>2, <2>3, <2>5, <2>6, <2>7 DEF StagesInv
<1>3. CASE UNCHANGED <<call, done, left>> /\ (result' = result \/ (result = "running" /\ result' # "ok"))
  BY <1>3 DEF StagesInv
<1>4. CASE UNCHANGED <<call, done, left>> /\ call.op # "setstat"
  BY <1>4 DEF StagesInv
<1>5. CASE Check
  BY <1>3, <1>5 DEF Check
<1>6. CASE FsFails
  BY <1>3, <1>6 DEF FsFails, Acting
<1>7. CASE ActOpen \/ ActList \/ ActEntry \/ ActRename \/ ActEach \/ ActEachIsDone
  BY <1>4, <1>7 DEF ActOpen, ActList, ActEntry, ActRename, ActEach, ChangeEntries, ActEachIsDone
<1>8. CASE WriteAt \/ CloseHandle \/ ChangeDisk \/ UNCHANGED vars
  BY <1>3, <1>8 DEF WriteAt, CloseHandle, ChangeDisk, vars
<1> QED
  BY <1>1, <1>2, <1>5, <1>6, <1>7, <1>8 DEF Next

LEMMA ContainedStep ==
  CallOK /\ DiskOK /\ ProgressOK /\ ContainedInv /\ [Next]_vars => ContainedInv'
<1> SUFFICES ASSUME CallOK, DiskOK, ProgressOK, ContainedInv, [Next]_vars PROVE ContainedInv'
  OBVIOUS
<1>1. CASE Begin
  BY <1>1 DEF Begin, ContainedInv
<1>2. CASE Check
  <2>1. Checks' = Checks /\ call' = call /\ touched' = touched /\ checks < Len(Checks)
    BY <1>2 DEF Check, Checks
  <2> QED
    BY <1>2, <2>1 DEF Check, ContainedInv
<1>3. CASE FsFails
  <2>1. Checks' = Checks /\ UNCHANGED <<call, touched, checks>> /\ result = "running" /\ result' = "error"
    BY <1>3 DEF FsFails, Acting, Checks
  <2> QED
    BY <2>1 DEF ContainedInv
<1>4. CASE Acting /\ result' = "ok" /\ UNCHANGED <<call, checks>>
  <2>1. Checks' = Checks /\ checks = Len(Checks)
    BY <1>4 DEF Checks, Acting
  <2>2. Len(Checks) \in Nat
    BY ChecksOK
  <2> QED
    BY <1>4, <2>1, <2>2 DEF ContainedInv
<1>5. CASE ActOpen \/ ActList \/ ActEntry \/ ActRename \/ ActEachIsDone
  BY <1>4, <1>5 DEF ActOpen, ActList, ActEntry, ActRename, ChangeEntries, ActEachIsDone
<1>6. CASE ActEach
  <2>1. Acting /\ UNCHANGED <<call, checks>> /\ Checks' = Checks /\ checks = Len(Checks)
    BY <1>6 DEF ActEach, ChangeEntries, Acting, Checks
  <2>2. Len(Checks) \in Nat
    BY ChecksOK
  <2>3. PICK p \in Path :
          /\ touched' \subseteq touched \union {p}
          /\ result' = IF p = call.path THEN "ok" ELSE "running"
          /\ \/ call.op = "mkdirall" /\ Leads(p, call.path)
             \/ call.op = "removeall" /\ Leads(call.path, p)
    BY <1>6 DEF ActEach, ChangeEntries, DiskOK, Tree
  <2>4. CASE p = call.path
    BY <1>4, <2>1, <2>3, <2>4
  <2>5. CASE p # call.path
    <3>1. \/ call.op = "removeall" /\ IsBelow(p, call.path)
          \/ call.op = "mkdirall" /\ IsBelow(call.path, p)
      BY <2>3, <2>5 DEF IsBelow
    <3>2. result = "running" /\ result' = "running"
      BY <2>1, <2>3, <2>5 DEF Acting
    <3> QED
      BY <2>1, <2>2, <2>3, <3>1, <3>2 DEF ContainedInv
  <2> QED
    BY <2>4, <2>5
<1>7. CASE ActAttribute
  BY <1>7 DEF ActAttribute, NextStage, ContainedInv
<1>8. CASE UNCHANGED <<call, checks, result, touched>>
  <2>1. Checks' = Checks
    BY <1>8 DEF Checks
  <2> QED
    BY <1>8, <2>1 DEF ContainedInv
<1> QED
  BY <1>1, <1>2, <1>3, <1>5, <1>6, <1>7, <1>8
  DEF Next, WriteAt, CloseHandle, ChangeDisk, vars

LEMMA SessionStep == IInv /\ [Next]_vars => IInv'
BY CallStep, DiskStep, GrantsStep, WritersStep, IntentStep, StagesStep, ContainedStep DEF IInv

LEMMA SessionInvariant == Spec => []IInv
BY InitialSession, SessionStep, PTL DEF Spec

-----------------------------------------------------------------------------
(* What follows.                                                           *)

\* Paths have one file each, no two the same, and what there is is in a directory.
THEOREM TypesHold == Spec => []TypeOK
<1>1. ASSUME IInv PROVE TypeOK
  <2>1. CallOK /\ ProgressOK
    BY <1>1 DEF IInv
  <2>2. Len(Checks) \in 1 .. 2
    BY <2>1, ChecksOK
  <2>3. checks \in 0 .. 2
    BY <2>1, <2>2 DEF ProgressOK
  <2> QED
    BY <1>1, <2>3 DEF IInv, DiskOK, Tree, HasParent, IsFile, ProgressOK, TypeOK
<1> QED
  BY <1>1, SessionInvariant, PTL

\* vfs.go:1-8: no call changes anything but what it was granted the right to
\* write, what is below that, or the missing directories above it; the trees
\* are of any depth.
THEOREM ChangesGranted == Spec => []ChangesAreGranted
<1>1. IInv => ChangesAreGranted
  BY DEF IInv
<1> QED
  BY <1>1, SessionInvariant, PTL

\* vfs.go:120-132: whoever holds a handle that writes was granted writing the
\* path that was opened.
THEOREM WritersGranted == Spec => []WritersWereGranted
<1>1. IInv => WritersWereGranted
  BY DEF IInv
<1> QED
  BY <1>1, SessionInvariant, PTL

\* handlers.go:76-101: a handle can be written if and only if the client asked
\* for that, whichever flags it sends along.
THEOREM WriteIntent == Spec => []WriteIntentIsKept
<1>1. IInv => WriteIntentIsKept
  BY DEF IInv
<1> QED
  BY <1>1, SessionInvariant, PTL

\* handlers.go:122-154: a setstat stops at its first failure, and reports it;
\* any other call that fails has left the path it is about as it was, and all
\* else too unless it is RemoveAll or MkdirAll.
THEOREM FailuresContained == Spec => []FailuresAreContained
<1>1. ASSUME IInv PROVE FailuresAreContained
  <2>1. CASE call.op = "setstat"
    <3>1. /\ done \in Seq(SetstatStage) /\ left \in Seq(SetstatStage)
          /\ call.todo = done \o left /\ (result = "ok" <=> left = <<>>)
      BY <1>1, <2>1 DEF IInv, StagesInv
    <3>2. done = done \o left <=> left = <<>>
      BY <3>1, ConcatEqualIffEmpty
    <3>3. done = SubSeq(done \o left, 1, Len(done))
      <4>1. CASE done = <<>>
        BY <4>1, EmptySeq, SubSeqEmpty
      <4>2. CASE done # <<>>
        <5>1. Len(done) \in Nat \ {0}
          BY <3>1, <4>2, EmptySeq
        <5>2. SubSeq(done \o left, 1, Len(done)) = SubSeq(done, 1, Len(done))
          BY <3>1, <5>1, SubSeqOfConcat1
        <5> QED
          BY <3>1, <5>2, SubSeqFull
      <4> QED
        BY <4>1, <4>2
    <3> QED
      BY <2>1, <3>1, <3>2, <3>3 DEF FailuresAreContained
  <2>2. CASE call.op # "setstat"
    BY <1>1, <2>2 DEF IInv, ContainedInv, FailuresAreContained
  <2> QED
    BY <2>1, <2>2
<1> QED
  BY <1>1, SessionInvariant, PTL
=============================================================================
