------------------------ MODULE AccessResolverProofs ------------------------
(***************************************************************************)
(* Walking the maps together comes to what the first map with an opinion    *)
(* says on its own, and to what the MUD's own resolver says, for any access *)
(* maps, groups, users and paths.                                          *)
(***************************************************************************)
EXTENDS MudAccess, SequenceTheorems, WellFoundedInduction, TLAPS

-----------------------------------------------------------------------------
(* Recursion over the components of a path.                                *)

\* The principle that stands in for induction.
LEMMA LeastNumber ==
  ASSUME NEW T \in SUBSET Nat, T # {}
  PROVE  \E x \in T : \A y \in T : x <= y
<1> DEFINE R == OpToRel(<, Nat)
<1>1. IsWellFoundedOn(R, Nat)
  BY NatLessThanWellFounded
<1>2. \E x \in T : \A y \in T : ~ (<<y, x>> \in R)
  <2> HIDE DEF R
  <2> QED
    BY <1>1, WFMin
<1>3. \A x, y \in T : y < x => <<y, x>> \in R
  BY DEF OpToRel
<1> HIDE DEF R
<1>4. \A x, y \in T : ~(y < x) => x <= y
  OBVIOUS
<1>5. PICK x \in T : \A y \in T : ~ (<<y, x>> \in R)
  BY <1>2
<1> QED
  BY <1>3, <1>4, <1>5

\* What AloneWalk recurs through: w is the walk as far as component m.
IsWalk(w, tree, p, m) ==
  w = [n \in 0 .. m |-> IF n = 0 THEN AloneStart(tree) ELSE AloneStep(tree, p, w[n - 1], n)]

LEMMA IsWalkByValues ==
  ASSUME NEW tree, NEW p, NEW m \in Nat, NEW w, DOMAIN w = 0 .. m,
         w = [n \in 0 .. m |-> w[n]],
         w[0] = AloneStart(tree),
         \A n \in 1 .. m : w[n] = AloneStep(tree, p, w[n - 1], n)
  PROVE  IsWalk(w, tree, p, m)
<1>1. \A n \in 0 .. m : w[n] = IF n = 0 THEN AloneStart(tree)
                               ELSE AloneStep(tree, p, w[n - 1], n)
  OBVIOUS
<1> QED
  BY <1>1 DEF IsWalk

LEMMA WalkValues ==
  ASSUME NEW tree, NEW p, NEW m \in Nat, NEW w, IsWalk(w, tree, p, m)
  PROVE  /\ w[0] = AloneStart(tree)
         /\ \A n \in 1 .. m : w[n] = AloneStep(tree, p, w[n - 1], n)
BY DEF IsWalk

\* There is a walk of every length.
LEMMA WalkExists ==
  ASSUME NEW tree, NEW p, NEW N \in Nat
  PROVE  \E w : IsWalk(w, tree, p, N)
<1> DEFINE T == {m \in Nat : \A w : ~IsWalk(w, tree, p, m)}
<1> SUFFICES ASSUME T # {} PROVE FALSE
  OBVIOUS
<1>1. PICK m \in T : \A y \in T : m <= y
  BY LeastNumber
<1>2. CASE m = 0
  <2> DEFINE u == [n \in 0 .. m |-> AloneStart(tree)]
  <2>1. DOMAIN u = 0 .. m /\ u = [n \in 0 .. m |-> u[n]] /\ u[0] = AloneStart(tree)
    OBVIOUS
  <2>2. \A n \in 1 .. m : u[n] = AloneStep(tree, p, u[n - 1], n)
    BY <1>2
  <2> HIDE DEF u
  <2>3. IsWalk(u, tree, p, m)
    BY <2>1, <2>2, IsWalkByValues
  <2> QED
    BY <1>1, <2>3
<1>3. CASE m # 0
  <2> DEFINE k == m - 1
  <2>1. k \in Nat /\ k \notin T
    BY <1>1, <1>3
  <2> HIDE DEF k
  <2>2. PICK v : IsWalk(v, tree, p, k)
    BY <2>1
  <2> USE DEF k
  <2> DEFINE u == [n \in 0 .. m |-> IF n = m THEN AloneStep(tree, p, v[m - 1], m) ELSE v[n]]
  <2>3. v[0] = AloneStart(tree) /\ \A n \in 1 .. k : v[n] = AloneStep(tree, p, v[n - 1], n)
    <3> HIDE DEF k
    <3> QED
      BY <2>1, <2>2, WalkValues
  <2>4. \A n \in 0 .. m - 1 : u[n] = v[n]
    BY <2>1
  <2>5. u[m] = AloneStep(tree, p, u[m - 1], m)
    BY <2>1, <2>4
  <2>6. u[0] = AloneStart(tree) /\ \A n \in 1 .. m : u[n] = AloneStep(tree, p, u[n - 1], n)
    <3>1. ASSUME NEW n \in 1 .. m PROVE u[n] = AloneStep(tree, p, u[n - 1], n)
      <4>1. CASE n = m
        BY <2>5, <4>1
      <4>2. CASE n # m
        <5>1. n \in 1 .. m - 1 /\ n - 1 \in 0 .. m - 1 /\ n \in 0 .. m - 1
          BY <4>2
        <5> QED
          BY <2>3, <2>4, <5>1
      <4> QED
        BY <4>1, <4>2
    <3>2. 0 \in 0 .. m - 1
      BY <2>1
    <3> QED
      BY <2>3, <2>4, <3>1, <3>2
  <2>7. DOMAIN u = 0 .. m /\ u = [n \in 0 .. m |-> u[n]]
    OBVIOUS
  <2> HIDE DEF u
  <2>8. IsWalk(u, tree, p, m)
    BY <2>6, <2>7, IsWalkByValues
  <2> QED
    BY <1>1, <2>8
<1> QED
  BY <1>2, <1>3

LEMMA AloneWalkUnfolds ==
  ASSUME NEW tree, NEW p, Len(p) \in Nat
  PROVE  /\ AloneWalk(tree, p)[0] = AloneStart(tree)
         /\ \A n \in 1 .. Len(p) :
              AloneWalk(tree, p)[n] = AloneStep(tree, p, AloneWalk(tree, p)[n - 1], n)
<1>1. AloneWalk(tree, p) = CHOOSE w : IsWalk(w, tree, p, Len(p))
  BY DEF AloneWalk, IsWalk
<1>2. IsWalk(AloneWalk(tree, p), tree, p, Len(p))
  BY <1>1, WalkExists
<1> QED
  BY <1>2, WalkValues

LEMMA StartFields ==
  ASSUME NEW tree
  PROVE  /\ AloneStart(tree).node = <<>>
         /\ AloneStart(tree).level = tree[<<>>].star
BY DEF AloneStart

LEMMA StepFields ==
  ASSUME NEW tree, NEW p, NEW at, NEW n
  PROVE  /\ AloneStep(tree, p, at, n).node = EvalNode(tree, at.node, p[n])
         /\ AloneStep(tree, p, at, n).level =
              EvalLevel(tree, at.node, p[n], at.level, n = Len(p))
BY DEF AloneStep

-----------------------------------------------------------------------------
(* The maps that are collected.                                            *)

\* What MapsNamed recurs through.
IsFound(f, names, m) ==
  f = [n \in 0 .. m |-> IF n = 0 THEN <<>> ELSE AppendMap(f[n - 1], names[n])]

LEMMA IsFoundByValues ==
  ASSUME NEW names, NEW m \in Nat, NEW f, DOMAIN f = 0 .. m,
         f = [n \in 0 .. m |-> f[n]],
         f[0] = <<>>,
         \A n \in 1 .. m : f[n] = AppendMap(f[n - 1], names[n])
  PROVE  IsFound(f, names, m)
<1>1. \A n \in 0 .. m : n = 0 \/ n \in 1 .. m
  OBVIOUS
<1>2. \A n \in 0 .. m : f[n] = IF n = 0 THEN <<>> ELSE AppendMap(f[n - 1], names[n])
  BY <1>1
<1> QED
  BY <1>2 DEF IsFound

LEMMA FoundValues ==
  ASSUME NEW names, NEW m \in Nat, NEW f, IsFound(f, names, m)
  PROVE  f[0] = <<>> /\ \A n \in 1 .. m : f[n] = AppendMap(f[n - 1], names[n])
BY DEF IsFound

LEMMA FoundExists ==
  ASSUME NEW names, NEW N \in Nat
  PROVE  \E f : IsFound(f, names, N)
<1> DEFINE T == {m \in Nat : \A f : ~IsFound(f, names, m)}
<1> SUFFICES ASSUME T # {} PROVE FALSE
  OBVIOUS
<1>1. PICK m \in T : \A y \in T : m <= y
  BY LeastNumber
<1>2. CASE m = 0
  <2> DEFINE u == [n \in 0 .. m |-> <<>>]
  <2>1. DOMAIN u = 0 .. m /\ u = [n \in 0 .. m |-> u[n]] /\ u[0] = <<>>
    OBVIOUS
  <2>2. \A n \in 1 .. m : u[n] = AppendMap(u[n - 1], names[n])
    BY <1>2
  <2> HIDE DEF u
  <2>3. IsFound(u, names, m)
    BY <2>1, <2>2, IsFoundByValues
  <2> QED
    BY <1>1, <2>3
<1>3. CASE m # 0
  <2> DEFINE k == m - 1
  <2>1. k \in Nat /\ k \notin T
    BY <1>1, <1>3
  <2> HIDE DEF k
  <2>2. PICK v : IsFound(v, names, k)
    BY <2>1
  <2>3. v[0] = <<>> /\ \A n \in 1 .. k : v[n] = AppendMap(v[n - 1], names[n])
    BY <2>1, <2>2, FoundValues
  <2> USE DEF k
  <2> DEFINE u == [n \in 0 .. m |-> IF n = m THEN AppendMap(v[m - 1], names[m]) ELSE v[n]]
  <2>4. \A n \in 0 .. m - 1 : u[n] = v[n]
    BY <2>1
  <2>5. u[m] = AppendMap(u[m - 1], names[m])
    BY <2>1, <2>4
  <2>6. ASSUME NEW n \in 1 .. m PROVE u[n] = AppendMap(u[n - 1], names[n])
    <3>1. CASE n = m
      BY <2>5, <3>1
    <3>2. CASE n # m
      <4>1. n \in 1 .. m - 1 /\ n - 1 \in 0 .. m - 1 /\ n \in 0 .. m - 1
        BY <3>2
      <4> QED
        BY <2>3, <2>4, <4>1
    <3> QED
      BY <3>1, <3>2
  <2>7. u[0] = <<>>
    BY <2>1, <2>3, <2>4
  <2>8. DOMAIN u = 0 .. m /\ u = [n \in 0 .. m |-> u[n]]
    OBVIOUS
  <2> HIDE DEF u
  <2>9. IsFound(u, names, m)
    BY <2>6, <2>7, <2>8, IsFoundByValues
  <2> QED
    BY <1>1, <2>9
<1> QED
  BY <1>2, <1>3

\* Only maps that exist are found.
LEMMA MapsNamedExist ==
  ASSUME NEW names \in Seq(MapName)
  PROVE  MapsNamed(names) \in Seq({accessMap[n] : n \in {x \in MapName : HasMap(x)}})
<1> DEFINE S == {accessMap[n] : n \in {x \in MapName : HasMap(x)}}
           N == Len(names)
           f == CHOOSE g : IsFound(g, names, N)
<1>1. N \in Nat /\ \A n \in 1 .. N : names[n] \in MapName
  BY LenProperties
<1>2. MapsNamed(names) = f[N]
  BY DEF MapsNamed, IsFound
<1>3. IsFound(f, names, N)
  BY <1>1, FoundExists
<1> HIDE DEF f
<1>4. f[0] = <<>> /\ \A n \in 1 .. N : f[n] = AppendMap(f[n - 1], names[n])
  BY <1>1, <1>3, FoundValues
<1>5. \A g \in Seq(S), n \in MapName : AppendMap(g, n) \in Seq(S)
  <2> SUFFICES ASSUME NEW g \in Seq(S), NEW n \in MapName PROVE AppendMap(g, n) \in Seq(S)
    OBVIOUS
  <2>1. HasMap(n) => accessMap[n] \in S
    OBVIOUS
  <2> HIDE DEF S
  <2> QED
    BY <2>1 DEF AppendMap
<1> HIDE DEF S, N
<1>6. ASSUME NEW n \in 0 .. N, f[n] \notin Seq(S) PROVE FALSE
  <2> DEFINE T == {k \in 0 .. N : f[k] \notin Seq(S)}
  <2>1. T \in SUBSET Nat /\ T # {}
    BY <1>1, <1>6
  <2> HIDE DEF T
  <2>2. PICK m \in T : \A y \in T : m <= y
    BY <2>1, LeastNumber
  <2> USE DEF T
  <2>3. m # 0
    <3>1. <<>> \in Seq(S)
      OBVIOUS
    <3> QED
      BY <1>4, <2>2, <3>1
  <2>4. m - 1 \in 0 .. N /\ m \in 1 .. N /\ f[m - 1] \in Seq(S)
    BY <1>1, <2>2, <2>3
  <2>5. f[m] \in Seq(S)
    BY <1>1, <1>4, <1>5, <2>4
  <2> QED
    BY <2>2, <2>5
<1> QED
  BY <1>1, <1>2, <1>6 DEF S

-----------------------------------------------------------------------------
(* One component of one map.                                               *)

LEMMA EntryFacts ==
  ASSUME NEW e \in Entry
  PROVE  /\ e.kind \in {"absent", "leaf", "list", "branch"}
         /\ e.level \in Level /\ e.star \in Level /\ e.dot \in Level
         /\ e.kind = "leaf" => e.level # 0
BY DEF Entry, Absent, GroupList, Leaf, Branch, Level, Permission, Revoked, Read, GrantGrant

\* Where a walk of tree may be after i components, or behind it.
NodeOK(tree, node, n) ==
  node = NoNode \/ (node \in DOMAIN tree /\ tree[node].kind = "branch" /\ Len(node) <= n)

\* A level is carried down or replaced, never lost, except to a list of groups:
\* a map that has decided a component decides all that follow.
LEMMA EvalFacts ==
  ASSUME NEW tree, NEW p \in Seq(STRING), TreeOK(tree, p), NEW n \in 0 .. Len(p) - 1,
         NEW node, NodeOK(tree, node, n), NEW dfl \in Level
  PROVE  /\ EvalLevel(tree, node, p[n + 1], dfl, n + 1 = Len(p)) \in Level
         /\ dfl # 0 /\ p[n + 1] # GroupKey =>
              EvalLevel(tree, node, p[n + 1], dfl, n + 1 = Len(p)) # 0
         /\ NodeOK(tree, EvalNode(tree, node, p[n + 1]), n + 1)
<1>1. CASE node = NoNode
  BY <1>1 DEF EvalLevel, EvalNode, NodeOK
<1>2. CASE node # NoNode
  <2> DEFINE part == p[n + 1]
             below == Append(node, part)
             e == tree[below]
  <2>1. node \in DOMAIN tree /\ tree[node].kind = "branch" /\ Len(node) <= n
    BY <1>2 DEF NodeOK
  <2>2. Len(p) \in Nat /\ n + 1 \in 1 .. Len(p) /\ part \in STRING
    BY LenProperties
  <2>3. node \in Seq(STRING) /\ Len(node) \in Nat
    BY <2>1, LenProperties DEF TreeOK
  <2>4. below \in DOMAIN tree /\ (e.kind = "list" => part = GroupKey)
    BY <2>1, <2>2, <2>3 DEF TreeOK
  <2>5. Len(below) = Len(node) + 1
    BY <2>2, <2>3, AppendProperties
  <2>6. e \in Entry /\ tree[node] \in Entry
    BY <2>1, <2>4 DEF TreeOK
  <2>7. /\ e.kind \in {"absent", "leaf", "list", "branch"}
        /\ e.level \in Level /\ e.star \in Level /\ e.dot \in Level /\ tree[node].star \in Level
        /\ e.kind = "leaf" => e.level # 0
    BY <2>6, EntryFacts
  <2> HIDE DEF below, e, part
  <2>8. NodeOK(tree, EvalNode(tree, node, part), n + 1)
    BY <2>1, <2>2, <2>3, <2>4, <2>5 DEF NodeOK, EvalNode, below
  <2>9. ASSUME NEW final \in BOOLEAN
        PROVE  /\ EvalLevel(tree, node, part, dfl, final) \in Level
               /\ dfl # 0 /\ part # GroupKey => EvalLevel(tree, node, part, dfl, final) # 0
    <3>1. EvalLevel(tree, node, part, dfl, final) =
            CASE e.kind = "absent" -> Or(tree[node].star, dfl)
              [] e.kind \in {"leaf", "list"} -> e.level
              [] e.kind = "branch" ->
                   IF dfl = 0 THEN e.star
                   ELSE Or(IF final THEN e.dot ELSE e.star, dfl)
      BY <1>2 DEF EvalLevel, e, below
    <3>2. CASE e.kind = "absent"
      BY <2>7, <3>1, <3>2 DEF Or
    <3>3. CASE e.kind \in {"leaf", "list"}
      BY <2>4, <2>7, <3>1, <3>3
    <3>4. CASE e.kind = "branch"
      BY <2>7, <3>1, <3>4 DEF Or
    <3> QED
      BY <2>7, <3>2, <3>3, <3>4
  <2> QED
    BY <2>8, <2>9 DEF part
<1> QED
  BY <1>1, <1>2

-----------------------------------------------------------------------------
(* The inductive invariant.                                                *)

InputOK ==
  /\ path \in Seq(STRING)
  /\ explicit \in Seq(Group)
  /\ \A n \in MapName : accessMap[n] \in Trees
  /\ \A n \in MapName : HasMap(n) => TreeOK(accessMap[n], path)
  /\ \E t \in Situations :
       explicit \in t.memberships /\ charLevel \in t.levels /\ path \in t.paths

ProgressOK ==
  /\ pc \in {"collect", "walk", "done"}
  /\ maps \in Seq({accessMap[n] : n \in {x \in MapName : HasMap(x)}})
  /\ i \in 0 .. Len(path)
  /\ perm \in Level

NodesOK ==
  /\ DOMAIN cur = 1 .. Mapc
  /\ dfls \in [1 .. Mapc -> Level]
  /\ \A k \in 1 .. Mapc : NodeOK(maps[k], cur[k], i)

\* Map k is where it would be had it been walked on its own.
InStep(k) ==
  /\ cur[k] = AloneWalk(maps[k], path)[i].node
  /\ dfls[k] = AloneWalk(maps[k], path)[i].level

\* Map d is the first with an opinion so far.  The maps up to it have not been
\* left behind; those after it may have been, and do not matter any more.
FirstSoFar(d) ==
  /\ \A k \in 1 .. Mapc : k <= d \/ i = 0 => InStep(k)
  /\ \A k \in 1 .. Mapc : k < d => dfls[k] = 0
  /\ d <= Mapc => dfls[d] # 0
  /\ i > 0 => j = IF d <= Mapc THEN d ELSE Mapc

WalkInv ==
  /\ Mapc > 0
  /\ NodesOK
  /\ j \in 1 .. Mapc
  /\ ListsAtRoot => \E d \in 1 .. Mapc + 1 : FirstSoFar(d)

IInv ==
  /\ InputOK
  /\ ProgressOK
  /\ pc = "collect" => maps = <<>> /\ i = 0 /\ j = 1
  /\ pc = "walk" => WalkInv
  /\ ResolvesByFirstMatch

LEMMA LengthOfPath == InputOK => Len(path) \in Nat
BY LenProperties DEF InputOK

\* What is walked is well-formed.
LEMMA MapsAreTrees ==
  ASSUME InputOK, ProgressOK
  PROVE  /\ Mapc \in Nat
         /\ \A k \in 1 .. Mapc : /\ TreeOK(maps[k], path)
                                 /\ \E n \in MapName : HasMap(n) /\ maps[k] = accessMap[n]
<1> DEFINE S == {accessMap[n] : n \in {x \in MapName : HasMap(x)}}
<1>1. maps \in Seq(S)
  BY DEF ProgressOK
<1>2. \A tree \in S : \E n \in MapName : HasMap(n) /\ tree = accessMap[n]
  OBVIOUS
<1> HIDE DEF S
<1>3. Mapc \in Nat /\ \A k \in 1 .. Mapc : maps[k] \in S
  BY <1>1, LenProperties DEF Mapc
<1> QED
  BY <1>2, <1>3 DEF InputOK

LEMMA InitialResolver == Init => IInv
<1> SUFFICES ASSUME Init PROVE IInv
  OBVIOUS
<1>1. InputOK
  <2>1. PICK t \in Situations :
          /\ \E own \in t.own, dflt \in t.default, groupMap \in t.groups :
               accessMap = [n \in MapName |-> IF n = User THEN own
                                              ELSE IF n = Default THEN dflt
                                              ELSE groupMap[n]]
          /\ explicit \in t.memberships
          /\ charLevel \in t.levels
          /\ path \in t.paths
    BY DEF Init
  <2>2. \A n \in MapName : accessMap[n] \in TreesOf(t)
    <3>1. PICK own \in t.own, dflt \in t.default, groupMap \in t.groups :
               accessMap = [n \in MapName |-> IF n = User THEN own
                                              ELSE IF n = Default THEN dflt
                                              ELSE groupMap[n]]
      BY <2>1
    <3>2. \A g \in Group : groupMap[g] \in TreesOf(t)
      BY DEF TreesOf
    <3> QED
      BY <3>1, <3>2 DEF MapName, TreesOf
  <2>3. \A n \in MapName : accessMap[n] \in Trees
    BY <2>2 DEF Trees
  <2>4. \A n \in MapName : HasMap(n) => TreeOK(accessMap[n], path)
    BY <2>1, <2>2, AccessResolverAssumption DEF HasMap
  <2>5. path \in Seq(STRING) /\ explicit \in Seq(Group)
    BY <2>1, AccessResolverAssumption
  <2> QED
    BY <2>1, <2>3, <2>4, <2>5 DEF InputOK
<1>2. ProgressOK
  BY <1>1, LengthOfPath DEF Init, ProgressOK, Level
<1> QED
  BY <1>1, <1>2 DEF Init, IInv, ResolvesByFirstMatch

LEMMA GroupsAreGroups == InputOK => ResolveGroups \in Seq(Group)
<1>1. "Arch_full" \in Group /\ "Arch_junior" \in Group
  BY AccessResolverAssumption
<1>2. <<>> \in Seq(Group) /\ <<"Arch_full">> \in Seq(Group) /\ <<"Arch_junior">> \in Seq(Group)
  BY <1>1
<1> QED
  BY <1>2, ConcatProperties DEF ResolveGroups, InputOK

LEMMA ConsideredExist ==
  ASSUME InputOK
  PROVE  MapsToConsider \in Seq({accessMap[n] : n \in {x \in MapName : HasMap(x)}})
<1>1. ResolveGroups \in Seq(Group)
  BY GroupsAreGroups
<1>2. ResolveGroups \in Seq(MapName) /\ <<User>> \in Seq(MapName) /\ <<Default>> \in Seq(MapName)
  BY <1>1, SeqMonotonic DEF MapName
<1>3. (<<User>> \o ResolveGroups) \o <<Default>> \in Seq(MapName)
  BY <1>2, ConcatProperties
<1> QED
  BY <1>3, MapsNamedExist DEF MapsToConsider

\* The collected maps, all at their roots and none behind.
LEMMA CollectKeeps ==
  ASSUME IInv, Collect
  PROVE  IInv'
<1> DEFINE S == {accessMap[n] : n \in {x \in MapName : HasMap(x)}}
<1>1. InputOK /\ ProgressOK /\ i = 0 /\ j = 1
  BY DEF IInv, Collect
<1>2. /\ maps' = MapsToConsider /\ UNCHANGED <<accessMap, explicit, charLevel, path, i, j>>
      /\ IF Mapc' = 0
         THEN pc' = "done" /\ perm' = Revoked
         ELSE /\ pc' = "walk" /\ perm' = perm
              /\ cur' = [k \in 1 .. Mapc' |-> <<>>]
              /\ dfls' = [k \in 1 .. Mapc' |-> maps'[k][<<>>].star]
  BY DEF Collect, input
<1>3. MapsToConsider \in Seq(S)
  BY <1>1, ConsideredExist
<1>4. InputOK'
  BY <1>1, <1>2 DEF InputOK, HasMap, NoTree
<1>5. ProgressOK'
  BY <1>1, <1>2, <1>3 DEF ProgressOK, HasMap, Level, Permission, Revoked
<1>6. CASE Mapc' = 0
  <2>1. ResolvesByFirstMatch'
    BY <1>2, <1>6 DEF ResolvesByFirstMatch
  <2> QED
    BY <1>2, <1>4, <1>5, <1>6, <2>1 DEF IInv
<1>7. CASE Mapc' # 0
  <2> DEFINE M == Len(MapsToConsider)
  <2>1. /\ M \in Nat /\ M > 0 /\ Mapc' = M /\ maps' = MapsToConsider
        /\ \A k \in 1 .. M : MapsToConsider[k] \in S
    <3>1. Mapc' = M
      BY <1>2 DEF Mapc
    <3> HIDE DEF S
    <3> QED
      BY <1>2, <1>3, <1>7, <3>1, LenProperties
  <2>2. \A k \in 1 .. M : TreeOK(maps'[k], path)
    <3>1. \A tree \in S : TreeOK(tree, path)
      BY <1>1 DEF InputOK
    <3> HIDE DEF S
    <3> QED
      BY <2>1, <3>1
  <2> HIDE DEF M, S
  <2>3. \A k \in 1 .. M :
          /\ <<>> \in DOMAIN maps'[k]
          /\ maps'[k][<<>>].kind = "branch"
          /\ maps'[k][<<>>].star \in Level
    <3> SUFFICES ASSUME NEW k \in 1 .. M
                 PROVE  /\ <<>> \in DOMAIN maps'[k]
                        /\ maps'[k][<<>>].kind = "branch"
                        /\ maps'[k][<<>>].star \in Level
      OBVIOUS
    <3>1. /\ <<>> \in DOMAIN maps'[k] /\ maps'[k][<<>>].kind = "branch"
          /\ maps'[k] \in [DOMAIN maps'[k] -> Entry]
      BY <2>2 DEF TreeOK
    <3>2. maps'[k][<<>>] \in Entry
      BY <3>1
    <3> QED
      BY <3>1, <3>2, EntryFacts
  <2>4. /\ cur' = [k \in 1 .. M |-> <<>>]
        /\ dfls' = [k \in 1 .. M |-> maps'[k][<<>>].star]
        /\ path' = path /\ i' = 0 /\ j' = 1 /\ pc' = "walk"
    BY <1>1, <1>2, <1>7, <2>1 DEF input
  <2>5. NodesOK'
    <3>1. DOMAIN cur' = 1 .. M /\ dfls' \in [1 .. M -> Level]
      BY <2>3, <2>4
    <3>2. \A k \in 1 .. M : NodeOK(maps'[k], cur'[k], 0)
      BY <2>3, <2>4 DEF NodeOK
    <3> QED
      BY <2>1, <2>4, <3>1, <3>2 DEF NodesOK
  <2>6. \A k \in 1 .. M : InStep(k)'
    <3>1. Len(path) \in Nat
      BY <1>1, LengthOfPath
    <3>2. \A k \in 1 .. M : AloneWalk(maps'[k], path)[0] = AloneStart(maps'[k])
      BY <3>1, AloneWalkUnfolds
    <3>3. \A k \in 1 .. M : /\ AloneWalk(maps'[k], path)[0].node = <<>>
                            /\ AloneWalk(maps'[k], path)[0].level = maps'[k][<<>>].star
      BY <3>2, StartFields
    <3> QED
      BY <2>4, <3>3 DEF InStep
  <2>7. PICK d \in 1 .. M + 1 :
          /\ \A k \in 1 .. M : k < d => dfls'[k] = 0
          /\ d <= M => dfls'[d] # 0
    <3> DEFINE T == {d \in 1 .. M + 1 : d <= M => dfls'[d] # 0}
    <3>1. M + 1 \in T /\ T \in SUBSET Nat
      BY <2>1
    <3> HIDE DEF T
    <3>2. PICK d \in T : \A y \in T : d <= y
      BY <3>1, LeastNumber
    <3> USE DEF T
    <3>3. \A k \in 1 .. M : k < d => dfls'[k] = 0
      BY <2>1, <3>2
    <3> QED
      BY <3>2, <3>3
  <2>8. FirstSoFar(d)'
    BY <2>1, <2>4, <2>6, <2>7 DEF FirstSoFar
  <2>9. WalkInv'
    BY <2>1, <2>4, <2>5, <2>7, <2>8 DEF WalkInv
  <2>10. ResolvesByFirstMatch'
    BY <2>4 DEF ResolvesByFirstMatch
  <2> QED
    BY <1>4, <1>5, <2>4, <2>9, <2>10 DEF IInv
<1> QED
  BY <1>6, <1>7

\* One component: the map that decides it is no later than the one that has
\* decided so far, and the maps up to it were all in step.
LEMMA ComponentKeeps ==
  ASSUME IInv, Component
  PROVE  IInv'
<1>1. /\ InputOK /\ ProgressOK /\ WalkInv /\ NodesOK
      /\ pc = "walk" /\ i < Len(path)
  BY DEF IInv, Component, WalkInv
<1>2. PICK d \in 1 .. Mapc + 1 :
        /\ \A k \in 1 .. d - 1 : NextLevel(k) = 0
        /\ d <= Mapc => NextLevel(d) # 0
        /\ dfls' = [k \in 1 .. Mapc |-> IF k <= d THEN NextLevel(k) ELSE dfls[k]]
        /\ cur' = [k \in 1 .. Mapc |->
                     IF k <= d THEN EvalNode(maps[k], cur[k], path[i + 1]) ELSE cur[k]]
        /\ j' = IF d <= Mapc THEN d ELSE Mapc
  BY DEF Component
<1>3. /\ accessMap' = accessMap /\ explicit' = explicit /\ charLevel' = charLevel
      /\ path' = path /\ maps' = maps /\ pc' = "walk" /\ perm' = perm
      /\ i' = i + 1
  BY <1>1 DEF Component, input
<1>4. ListsAtRoot' = ListsAtRoot
  BY <1>3 DEF ListsAtRoot
<1>5. /\ Mapc \in Nat /\ Mapc > 0 /\ Mapc' = Mapc
      /\ \A k \in 1 .. Mapc : TreeOK(maps[k], path)
      /\ Len(path) \in Nat /\ i \in 0 .. Len(path) - 1 /\ path \in Seq(STRING)
  <2>1. Mapc' = Mapc
    BY <1>3 DEF Mapc
  <2>2. Len(path) \in Nat /\ i \in 0 .. Len(path) - 1 /\ path \in Seq(STRING)
    BY <1>1, LengthOfPath DEF ProgressOK, InputOK
  <2> QED
    BY <1>1, <2>1, <2>2, MapsAreTrees DEF WalkInv
<1>6. \A k \in 1 .. Mapc : dfls[k] \in Level /\ NodeOK(maps[k], cur[k], i)
  BY <1>1 DEF NodesOK
<1>7. ASSUME NEW k \in 1 .. Mapc
      PROVE  /\ NextLevel(k) \in Level
             /\ dfls[k] # 0 /\ path[i + 1] # GroupKey => NextLevel(k) # 0
             /\ NodeOK(maps[k], EvalNode(maps[k], cur[k], path[i + 1]), i + 1)
  BY <1>5, <1>6, EvalFacts DEF NextLevel
<1>8. ASSUME ListsAtRoot, NEW k \in 1 .. Mapc, k <= d PROVE InStep(k)
  <2>1. PICK first \in 1 .. Mapc + 1 : FirstSoFar(first)
    BY <1>1, <1>8 DEF WalkInv
  <2>2. CASE i = 0
    BY <2>1, <2>2 DEF FirstSoFar
  <2>3. CASE i # 0 /\ first <= Mapc
    <3>1. path[i + 1] # GroupKey
      BY <1>5, <1>8, <2>3 DEF ListsAtRoot
    <3>2. NextLevel(first) # 0
      BY <1>5, <1>7, <2>1, <2>3, <3>1 DEF FirstSoFar
    <3>3. d <= first
      BY <1>2, <1>5, <3>2
    <3> QED
      BY <1>5, <1>8, <2>1, <3>3 DEF FirstSoFar
  <2>4. CASE ~(first <= Mapc)
    BY <1>5, <1>8, <2>1, <2>4 DEF FirstSoFar
  <2> QED
    BY <2>2, <2>3, <2>4
<1>9. InputOK'
  BY <1>1, <1>3 DEF InputOK, HasMap
<1>10. ProgressOK'
  BY <1>1, <1>3, <1>5 DEF ProgressOK, HasMap
<1>11. NodesOK'
  <2>1. DOMAIN cur' = 1 .. Mapc /\ dfls' \in [1 .. Mapc -> Level]
    BY <1>2, <1>6, <1>7
  <2>2. ASSUME NEW k \in 1 .. Mapc PROVE NodeOK(maps[k], cur'[k], i + 1)
    <3>1. CASE k <= d
      BY <1>2, <1>7, <3>1
    <3>2. CASE ~(k <= d)
      <4>1. cur'[k] = cur[k]
        BY <1>2, <3>2
      <4>2. NodeOK(maps[k], cur[k], i) /\ i \in Nat
        BY <1>5, <1>6
      <4>3. cur[k] \in DOMAIN maps[k] => Len(cur[k]) \in Nat
        BY <1>5, LenProperties DEF TreeOK
      <4> QED
        BY <4>1, <4>2, <4>3 DEF NodeOK
    <3> QED
      BY <3>1, <3>2
  <2> QED
    BY <1>3, <1>5, <2>1, <2>2 DEF NodesOK
<1>12. ASSUME ListsAtRoot, NEW k \in 1 .. Mapc, k <= d
       PROVE  InStep(k)'
  <2> DEFINE was == AloneWalk(maps[k], path)[i]
             is  == AloneWalk(maps[k], path)[i + 1]
  <2>1. cur[k] = was.node /\ dfls[k] = was.level
    BY <1>8, <1>12 DEF InStep
  <2>2. is = AloneStep(maps[k], path, was, i + 1)
    <3>1. i + 1 \in 1 .. Len(path) /\ (i + 1) - 1 = i
      BY <1>5
    <3>2. is = AloneStep(maps[k], path, AloneWalk(maps[k], path)[(i + 1) - 1], i + 1)
      BY <1>5, <3>1, AloneWalkUnfolds
    <3> QED
      BY <3>1, <3>2
  <2> HIDE DEF was, is
  <2>3. /\ is.node = EvalNode(maps[k], was.node, path[i + 1])
        /\ is.level = EvalLevel(maps[k], was.node, path[i + 1], was.level, i + 1 = Len(path))
    BY <2>2, StepFields
  <2>4. cur'[k] = is.node
    BY <1>2, <1>12, <2>1, <2>3
  <2>5. dfls'[k] = NextLevel(k)
    BY <1>2, <1>12
  <2>6. NextLevel(k) = is.level
    BY <2>1, <2>3 DEF NextLevel
  <2> QED
    BY <1>3, <2>4, <2>5, <2>6 DEF InStep, is
<1>13. ListsAtRoot => FirstSoFar(d)'
  <2>1. \A k \in 1 .. Mapc : k < d => dfls'[k] = 0
    BY <1>2, <1>5
  <2>2. d <= Mapc => dfls'[d] # 0
    BY <1>2, <1>5
  <2> QED
    BY <1>2, <1>3, <1>5, <1>12, <2>1, <2>2 DEF FirstSoFar
<1>14. WalkInv'
  <2>1. j' \in 1 .. Mapc
    BY <1>2, <1>5
  <2> QED
    BY <1>4, <1>5, <1>11, <1>13, <2>1 DEF WalkInv
<1>15. ResolvesByFirstMatch'
  BY <1>3 DEF ResolvesByFirstMatch
<1> QED
  BY <1>3, <1>9, <1>10, <1>14, <1>15 DEF IInv

\* The end of the path: the map that has decided, or the last, is in step.
LEMMA ConcludeKeeps ==
  ASSUME IInv, Conclude
  PROVE  IInv'
<1>1. /\ InputOK /\ ProgressOK /\ WalkInv /\ NodesOK /\ pc = "walk" /\ i = Len(path)
  BY DEF IInv, Conclude, WalkInv
<1>2. /\ accessMap' = accessMap /\ explicit' = explicit /\ charLevel' = charLevel
      /\ path' = path /\ maps' = maps /\ i' = i /\ cur' = cur /\ dfls' = dfls
      /\ j' = j /\ pc' = "done" /\ Mapc' = Mapc
      /\ perm' = IF Answer < Read THEN Revoked ELSE Answer
  BY DEF Conclude, input, walk, Mapc
<1>3. /\ Mapc \in Nat /\ Mapc > 0 /\ Len(path) \in Nat
      /\ j \in 1 .. Mapc /\ \A k \in 1 .. Mapc : dfls[k] \in Level
  BY <1>1, MapsAreTrees, LengthOfPath DEF WalkInv, NodesOK
<1>4. Answer \in Level
  BY <1>3 DEF Answer, Level, Permission, Read, GrantGrant, Revoked
<1>5. InputOK'
  BY <1>1, <1>2 DEF InputOK, HasMap
<1>6. ProgressOK'
  <2>1. perm' \in Level
    BY <1>2, <1>4 DEF Level, Permission, Revoked, Read
  <2> QED
    BY <1>1, <1>2, <2>1 DEF ProgressOK, HasMap
<1>7. ASSUME path # <<>>, ~Ruled, ListsAtRoot
      PROVE  \/ \E k \in 1 .. Mapc : FirstMatch(k) /\ perm' = Alone(maps[k])
             \/ (\A k \in 1 .. Mapc : Alone(maps[k]) = 0) /\ perm' = Revoked
  <2> PICK d \in 1 .. Mapc + 1 : FirstSoFar(d)
    BY <1>1, <1>7 DEF WalkInv
  <2>1. i > 0
    BY <1>1, <1>3, <1>7, EmptySeq DEF InputOK
  <2>2. \A k \in 1 .. Mapc : k <= d => dfls[k] = Alone(maps[k])
    BY <1>1, <1>3 DEF FirstSoFar, InStep, Alone
  <2>3. Answer = dfls[j] /\ j = IF d <= Mapc THEN d ELSE Mapc
    BY <1>7, <2>1 DEF Answer, FirstSoFar
  <2>4. CASE d <= Mapc
    <3>1. Answer = Alone(maps[d]) /\ Alone(maps[d]) # 0 /\ d \in 1 .. Mapc
      BY <1>3, <2>2, <2>3, <2>4 DEF FirstSoFar
    <3>2. FirstMatch(d)
      BY <1>3, <2>2, <3>1 DEF FirstMatch, FirstSoFar
    <3>3. perm' = Answer
      BY <1>2, <1>4, <3>1 DEF Level, Permission, Revoked, Read
    <3> QED
      BY <3>1, <3>2, <3>3
  <2>5. CASE ~(d <= Mapc)
    <3>1. \A k \in 1 .. Mapc : Alone(maps[k]) = 0
      BY <1>3, <2>2, <2>5 DEF FirstSoFar
    <3>2. Answer = 0
      BY <1>3, <2>2, <2>3, <2>5, <3>1
    <3>3. perm' = Revoked
      BY <1>2, <3>2 DEF Read
    <3> QED
      BY <3>1, <3>3
  <2> QED
    BY <2>4, <2>5
<1>8. ResolvesByFirstMatch'
  BY <1>2, <1>7 DEF ResolvesByFirstMatch, ListsAtRoot, Ruled, FirstMatch, Alone, Mapc
<1> QED
  BY <1>2, <1>5, <1>6, <1>8 DEF IInv

LEMMA StutterKeeps ==
  ASSUME IInv, UNCHANGED vars
  PROVE  IInv'
<1>1. /\ accessMap' = accessMap /\ explicit' = explicit /\ charLevel' = charLevel
      /\ path' = path /\ maps' = maps /\ i' = i /\ cur' = cur /\ dfls' = dfls
      /\ j' = j /\ pc' = pc /\ perm' = perm /\ Mapc' = Mapc
  BY DEF vars, input, walk, Mapc
<1>2. InputOK' /\ ProgressOK'
  BY <1>1 DEF IInv, InputOK, ProgressOK, HasMap
<1>3. NodesOK' = NodesOK
  BY <1>1 DEF NodesOK
<1>4. \A d : FirstSoFar(d)' = FirstSoFar(d)
  BY <1>1 DEF FirstSoFar, InStep
<1>5. pc = "walk" => WalkInv'
  BY <1>1, <1>3, <1>4 DEF IInv, WalkInv, ListsAtRoot
<1>6. ResolvesByFirstMatch'
  BY <1>1 DEF IInv, ResolvesByFirstMatch, ListsAtRoot, Ruled, FirstMatch, Alone
<1> QED
  BY <1>1, <1>2, <1>5, <1>6 DEF IInv

LEMMA ResolverStep == IInv /\ [Next]_vars => IInv'
BY CollectKeeps, ComponentKeeps, ConcludeKeeps, StutterKeeps DEF Next

LEMMA ResolverInvariant == Spec => []IInv
BY InitialResolver, ResolverStep, PTL DEF Spec

-----------------------------------------------------------------------------
(* What is shown of it.                                                    *)

\* The state of a resolution keeps its type: the answer is always a level, and
\* while the maps are walked the one that decided is one of them and every
\* descent is at a node of its own tree or behind (pkg/authorization/
\* authorizer.go, resolveAccess).
THEOREM TypesHold == Spec => []TypeOK
<1>1. IInv => TypeOK
  <2> SUFFICES ASSUME IInv PROVE TypeOK
    OBVIOUS
  <2>1. InputOK /\ ProgressOK
    BY DEF IInv
  <2>2. \A k \in DOMAIN maps : \E n \in MapName : HasMap(n) /\ maps[k] = accessMap[n]
    <3>1. DOMAIN maps = 1 .. Mapc
      BY <2>1, LenProperties DEF ProgressOK, Mapc
    <3> QED
      BY <2>1, <3>1, MapsAreTrees
  <2>3. pc = "walk" => /\ j \in 1 .. Mapc
                       /\ dfls \in [1 .. Mapc -> Level]
                       /\ DOMAIN cur = 1 .. Mapc
                       /\ \A k \in 1 .. Mapc : cur[k] = NoNode \/ cur[k] \in DOMAIN maps[k]
    BY DEF IInv, WalkInv, NodesOK, NodeOK
  <2> QED
    BY <2>1, <2>2, <2>3 DEF TypeOK, InputOK, ProgressOK
<1> QED
  BY <1>1, ResolverInvariant, PTL

\* "The first match is used as the access level" (docs/viking_access_tree.md:
\* 102): whatever the maps, the groups, the user and the path, walking all maps
\* together, each component stopping at the first that decides it, comes to
\* what the first map with an opinion says when it is walked on its own, and
\* denies when there is none (authorizer.go, resolveAccess and evalMap).
THEOREM FirstMatchResolves == Spec => []ResolvesByFirstMatch
<1>1. IInv => ResolvesByFirstMatch
  BY DEF IInv
<1> QED
  BY <1>1, ResolverInvariant, PTL

-----------------------------------------------------------------------------
(* The MUD's resolver: its recursion over the components of a path.        *)

IsMudWalk(w, trees, p, m) ==
  w = [n \in 0 .. m |-> IF n = 0 THEN MudStart(trees) ELSE MudStep(trees, p, w[n - 1], n)]

LEMMA IsMudWalkByValues ==
  ASSUME NEW trees, NEW p, NEW m \in Nat, NEW w,
         w = [n \in 0 .. m |-> w[n]],
         w[0] = MudStart(trees),
         \A n \in 1 .. m : w[n] = MudStep(trees, p, w[n - 1], n)
  PROVE  IsMudWalk(w, trees, p, m)
<1>1. \A n \in 0 .. m : n = 0 \/ n \in 1 .. m
  OBVIOUS
<1>2. \A n \in 0 .. m : w[n] = IF n = 0 THEN MudStart(trees)
                               ELSE MudStep(trees, p, w[n - 1], n)
  BY <1>1
<1> QED
  BY <1>2 DEF IsMudWalk

LEMMA MudWalkValues ==
  ASSUME NEW trees, NEW p, NEW m \in Nat, NEW w, IsMudWalk(w, trees, p, m)
  PROVE  /\ w[0] = MudStart(trees)
         /\ \A n \in 1 .. m : w[n] = MudStep(trees, p, w[n - 1], n)
BY DEF IsMudWalk

LEMMA MudWalkExists ==
  ASSUME NEW trees, NEW p, NEW N \in Nat
  PROVE  \E w : IsMudWalk(w, trees, p, N)
<1> DEFINE T == {m \in Nat : \A w : ~IsMudWalk(w, trees, p, m)}
<1> SUFFICES ASSUME T # {} PROVE FALSE
  OBVIOUS
<1>1. PICK m \in T : \A y \in T : m <= y
  BY LeastNumber
<1>2. CASE m = 0
  <2> DEFINE u == [n \in 0 .. m |-> MudStart(trees)]
  <2>1. u = [n \in 0 .. m |-> u[n]] /\ u[0] = MudStart(trees)
    OBVIOUS
  <2>2. \A n \in 1 .. m : u[n] = MudStep(trees, p, u[n - 1], n)
    BY <1>2
  <2> HIDE DEF u
  <2>3. IsMudWalk(u, trees, p, m)
    BY <2>1, <2>2, IsMudWalkByValues
  <2> QED
    BY <1>1, <2>3
<1>3. CASE m # 0
  <2> DEFINE k == m - 1
  <2>1. k \in Nat /\ k \notin T
    BY <1>1, <1>3
  <2> HIDE DEF k
  <2>2. PICK v : IsMudWalk(v, trees, p, k)
    BY <2>1
  <2>3. v[0] = MudStart(trees) /\ \A n \in 1 .. k : v[n] = MudStep(trees, p, v[n - 1], n)
    BY <2>1, <2>2, MudWalkValues
  <2> USE DEF k
  <2> DEFINE u == [n \in 0 .. m |-> IF n = m THEN MudStep(trees, p, v[m - 1], m) ELSE v[n]]
  <2>4. \A n \in 0 .. m - 1 : u[n] = v[n]
    BY <2>1
  <2>5. u[m] = MudStep(trees, p, u[m - 1], m)
    BY <2>1, <2>4
  <2>6. ASSUME NEW n \in 1 .. m PROVE u[n] = MudStep(trees, p, u[n - 1], n)
    <3>1. CASE n = m
      BY <2>5, <3>1
    <3>2. CASE n # m
      <4>1. n \in 1 .. m - 1 /\ n - 1 \in 0 .. m - 1 /\ n \in 0 .. m - 1
        BY <3>2
      <4> QED
        BY <2>3, <2>4, <4>1
    <3> QED
      BY <3>1, <3>2
  <2>7. u[0] = MudStart(trees)
    BY <2>1, <2>3, <2>4
  <2>8. u = [n \in 0 .. m |-> u[n]]
    OBVIOUS
  <2> HIDE DEF u
  <2>9. IsMudWalk(u, trees, p, m)
    BY <2>6, <2>7, <2>8, IsMudWalkByValues
  <2> QED
    BY <1>1, <2>9
<1> QED
  BY <1>2, <1>3

LEMMA MudWalkUnfolds ==
  ASSUME NEW trees, NEW p, Len(p) \in Nat
  PROVE  /\ MudWalk(trees, p)[0] = MudStart(trees)
         /\ \A n \in 1 .. Len(p) :
              MudWalk(trees, p)[n] = MudStep(trees, p, MudWalk(trees, p)[n - 1], n)
<1>1. MudWalk(trees, p) = CHOOSE w : IsMudWalk(w, trees, p, Len(p))
  BY DEF MudWalk, IsMudWalk
<1>2. IsMudWalk(MudWalk(trees, p), trees, p, Len(p))
  BY <1>1, MudWalkExists
<1> QED
  BY <1>2, MudWalkValues

-----------------------------------------------------------------------------
(* One component: eval_map and evalMap.                                    *)

LEMMA EvalAgrees ==
  ASSUME NEW tree, NEW p \in Seq(STRING), TreeOK(tree, p), NEW n \in 0 .. Len(p) - 1,
         NEW node, NodeOK(tree, node, n), NEW dfl \in Level, NEW final \in BOOLEAN,
         p[n + 1] # GroupKey
  PROVE  /\ MudEval(tree, node, p[n + 1], dfl, final).acc
              = EvalLevel(tree, node, p[n + 1], dfl, final)
         /\ MudEval(tree, node, p[n + 1], dfl, final).node = EvalNode(tree, node, p[n + 1])
<1>1. CASE node = NoNode
  BY <1>1 DEF MudEval, EvalLevel, EvalNode
<1>2. CASE node # NoNode
  <2> DEFINE part == p[n + 1]
             e == tree[Append(node, part)]
  <2>1. node \in DOMAIN tree /\ tree[node].kind = "branch" /\ Len(node) < Len(p)
    <3>1. Len(p) \in Nat
      BY LenProperties
    <3>2. node \in DOMAIN tree /\ tree[node].kind = "branch" /\ Len(node) <= n
      BY <1>2 DEF NodeOK
    <3>3. Len(node) \in Nat
      BY <3>2, LenProperties DEF TreeOK
    <3> QED
      BY <3>1, <3>2, <3>3
  <2>2. Append(node, part) \in DOMAIN tree /\ e.kind # "list"
    <3>1. n + 1 \in 1 .. Len(p)
      BY LenProperties
    <3> QED
      BY <2>1, <3>1 DEF TreeOK
  <2>3. e.kind \in {"absent", "leaf", "branch"}
    BY <2>2, EntryFacts DEF TreeOK
  <2>4. CASE e.kind = "absent"
    BY <1>2, <2>4 DEF MudEval, EvalLevel, EvalNode
  <2>5. CASE e.kind = "leaf"
    BY <1>2, <2>5 DEF MudEval, EvalLevel, EvalNode
  <2>6. CASE e.kind = "branch"
    <3>1. EvalNode(tree, node, part) = Append(node, part)
      BY <1>2, <2>6 DEF EvalNode
    <3>2. EvalLevel(tree, node, part, dfl, final)
            = IF dfl = 0 THEN e.star ELSE Or(IF final THEN e.dot ELSE e.star, dfl)
      BY <1>2, <2>6 DEF EvalLevel
    <3>3. MudEval(tree, node, part, dfl, final)
            = [acc  |-> IF dfl = 0 THEN e.star
                        ELSE IF final /\ e.dot # 0 THEN e.dot
                        ELSE IF ~final /\ e.star # 0 THEN e.star
                        ELSE dfl,
               node |-> Append(node, part)]
      BY <1>2, <2>6 DEF MudEval
    <3> HIDE DEF part, e
    <3>4. MudEval(tree, node, part, dfl, final).acc
            = IF dfl = 0 THEN e.star
              ELSE IF final /\ e.dot # 0 THEN e.dot
              ELSE IF ~final /\ e.star # 0 THEN e.star
              ELSE dfl
      BY <3>3
    <3>5. MudEval(tree, node, part, dfl, final).node = EvalNode(tree, node, part)
      BY <3>1, <3>3
    <3>6. MudEval(tree, node, part, dfl, final).acc = EvalLevel(tree, node, part, dfl, final)
      <4>1. CASE final = TRUE
        BY <3>2, <3>4, <4>1, Zenon DEF Or
      <4>2. CASE final = FALSE
        BY <3>2, <3>4, <4>2, Zenon DEF Or
      <4> QED
        BY <4>1, <4>2
    <3> QED
      BY <3>5, <3>6 DEF part
  <2> QED
    BY <2>3, <2>4, <2>5, <2>6
<1> QED
  BY <1>1, <1>2

\* Nor does it matter that access.c has taken the list of groups away.
LEMMA SubtractAgrees ==
  ASSUME NEW tree, NEW p \in Seq(STRING), TreeOK(tree, p), NEW n \in 0 .. Len(p) - 1,
         NEW node, NodeOK(tree, node, n), node # <<GroupKey>>, p[n + 1] # GroupKey,
         NEW dfl \in Level, NEW final \in BOOLEAN
  PROVE  /\ MudEval(Subtract(tree), node, p[n + 1], dfl, final)
              = MudEval(tree, node, p[n + 1], dfl, final)
         /\ EvalNode(tree, node, p[n + 1]) # <<GroupKey>>
<1> DEFINE part == p[n + 1]
<1>1. CASE node = NoNode
  BY <1>1 DEF MudEval, EvalNode, NoNode, GroupKey
<1>2. CASE node # NoNode
  <2>1. node \in Seq(STRING) /\ part \in STRING
    BY <1>2, LenProperties DEF NodeOK, TreeOK
  <2> HIDE DEF part
  <2>2. /\ Len(Append(node, part)) = Len(node) + 1
        /\ Append(node, part)[Len(node) + 1] = part
        /\ Len(node) \in Nat
    BY <2>1, AppendProperties, LenProperties
  <2>3. Append(node, part) # <<GroupKey>>
    <3>1. Len(<<GroupKey>>) = 1 /\ <<GroupKey>>[1] = GroupKey
      OBVIOUS
    <3>2. part # GroupKey
      BY DEF part
    <3> QED
      BY <2>2, <3>1, <3>2
  <2>4. \A x : x # <<GroupKey>> /\ x \in DOMAIN tree => Subtract(tree)[x] = tree[x]
    BY DEF Subtract
  <2>5. node \in DOMAIN tree /\ Append(node, part) \in DOMAIN tree
    <3>1. Len(p) \in Nat /\ n + 1 \in 1 .. Len(p)
      BY LenProperties
    <3>2. node \in DOMAIN tree /\ tree[node].kind = "branch" /\ Len(node) < Len(p)
      BY <1>2, <2>2, <3>1 DEF NodeOK
    <3> QED
      BY <3>1, <3>2 DEF TreeOK, part
  <2>6. /\ Subtract(tree)[node] = tree[node]
        /\ Subtract(tree)[Append(node, part)] = tree[Append(node, part)]
    BY <2>3, <2>4, <2>5
  <2>7. MudEval(Subtract(tree), node, part, dfl, final) = MudEval(tree, node, part, dfl, final)
    BY <2>6 DEF MudEval
  <2>8. EvalNode(tree, node, part) # <<GroupKey>>
    BY <2>3 DEF EvalNode, NoNode, GroupKey
  <2> QED
    BY <2>7, <2>8 DEF part
<1> QED
  BY <1>1, <1>2

\* The loop over the maps stops at one place only.
LEMMA WonIsUnique ==
  ASSUME NEW M \in Nat, NEW acc, NEW d \in 1 .. M + 1, NEW e \in 1 .. M + 1,
         d <= M => acc[d] # 0, \A k \in 1 .. d - 1 : acc[k] = 0,
         e <= M => acc[e] # 0, \A k \in 1 .. e - 1 : acc[k] = 0
  PROVE  d = e
<1>1. ASSUME d < e PROVE FALSE
  BY <1>1
<1>2. ASSUME e < d PROVE FALSE
  BY <1>2
<1> QED
  BY <1>1, <1>2

\* Every tree evaluates component n of p to its level and its node.
Evaluates(trees, p, at, n, levels, nodes) ==
  \A k \in 1 .. Len(trees) :
    /\ MudEval(trees[k], at.node[k], p[n], at.dfl[k], n = Len(p)).acc = levels[k]
    /\ MudEval(trees[k], at.node[k], p[n], at.dfl[k], n = Len(p)).node = nodes[k]

\* The first M trees went from at to to, the ones up to d by levels and nodes.
Moved(M, at, to, d, levels, nodes) ==
  \A k \in 1 .. M : /\ to.node[k] = IF k <= d THEN nodes[k] ELSE at.node[k]
                    /\ to.dfl[k] = IF k <= d THEN levels[k] ELSE at.dfl[k]

\* A step of the MUD whose loop stops at d.
LEMMA MudStepFields ==
  ASSUME NEW trees, NEW p, NEW at, NEW n, NEW M \in Nat, M = Len(trees),
         NEW levels, NEW nodes, Evaluates(trees, p, at, n, levels, nodes),
         NEW d \in 1 .. M + 1,
         d <= M => levels[d] # 0, \A k \in 1 .. d - 1 : levels[k] = 0,
         NEW to, to = MudStep(trees, p, at, n)
  PROVE  to.won = d /\ Moved(M, at, to, d, levels, nodes)
<1> DEFINE r == [k \in 1 .. M |->
                   MudEval(trees[k], at.node[k], p[n], at.dfl[k], n = Len(p))]
           Stops(e) == /\ e <= M => r[e].acc # 0
                       /\ \A k \in 1 .. e - 1 : r[k].acc = 0
           won == CHOOSE e \in 1 .. M + 1 : Stops(e)
<1>1. to = [node |-> [k \in 1 .. M |-> IF k <= won THEN r[k].node ELSE at.node[k]],
            dfl  |-> [k \in 1 .. M |-> IF k <= won THEN r[k].acc ELSE at.dfl[k]],
            won  |-> won]
  BY DEF MudStep
<1>2. \A k \in 1 .. M : r[k].acc = levels[k] /\ r[k].node = nodes[k]
  BY DEF Evaluates
<1> HIDE DEF r
<1>3. Stops(d)
  BY <1>2
<1>4. won \in 1 .. M + 1 /\ Stops(won)
  BY <1>3
<1> HIDE DEF won
<1>5. /\ won <= M => levels[won] # 0
      /\ \A k \in 1 .. won - 1 : levels[k] = 0
  BY <1>2, <1>4
<1>6. won = d
  BY <1>4, <1>5, WonIsUnique
<1> QED
  BY <1>1, <1>2, <1>6 DEF Moved

-----------------------------------------------------------------------------
(* The maps: get_access_maps and resolveGroups.                            *)

LEMMA AppendedValues ==
  ASSUME NEW S, NEW s \in Seq(S), NEW e \in S
  PROVE  /\ Append(s, e) \in Seq(S) /\ Len(Append(s, e)) = Len(s) + 1
         /\ \A k \in 1 .. Len(s) : Append(s, e)[k] = s[k]
         /\ Append(s, e)[Len(s) + 1] = e
BY AppendProperties

\* When only the first name may lack a map, and off is 1 if it does, the maps
\* found are those of the other names in their order.
LEMMA MapsNamedValues ==
  ASSUME NEW names \in Seq(MapName), NEW off \in 0 .. 1, off <= Len(names),
         off = 1 => ~HasMap(names[1]),
         \A n \in off + 1 .. Len(names) : HasMap(names[n])
  PROVE  /\ Len(MapsNamed(names)) = Len(names) - off
         /\ \A k \in 1 .. Len(names) - off : MapsNamed(names)[k] = accessMap[names[k + off]]
<1> DEFINE S == {accessMap[n] : n \in {x \in MapName : HasMap(x)}}
           N == Len(names)
           f == CHOOSE g : IsFound(g, names, N)
           Found(n) == /\ f[n] \in Seq(S)
                       /\ Len(f[n]) = n - off
                       /\ \A k \in 1 .. n - off : f[n][k] = accessMap[names[k + off]]
<1>1. N \in Nat /\ \A n \in 1 .. N : names[n] \in MapName
  BY LenProperties
<1>2. MapsNamed(names) = f[N]
  BY DEF MapsNamed, IsFound
<1>3. IsFound(f, names, N)
  BY <1>1, FoundExists
<1> HIDE DEF f
<1>4. f[0] = <<>> /\ \A n \in 1 .. N : f[n] = AppendMap(f[n - 1], names[n])
  BY <1>1, <1>3, FoundValues
<1>5. Found(off)
  <2>1. f[off] = <<>>
    <3>1. CASE off = 0
      BY <1>4, <3>1
    <3>2. CASE off = 1
      <4>1. f[1] = AppendMap(f[0], names[1])
        BY <1>1, <1>4, <3>2
      <4> QED
        BY <1>4, <3>2, <4>1 DEF AppendMap
    <3> QED
      BY <3>1, <3>2
  <2>2. <<>> \in Seq(S) /\ Len(<<>>) = 0
    OBVIOUS
  <2> QED
    BY <2>1, <2>2
<1>6. ASSUME NEW n \in off + 1 .. N, Found(n - 1) PROVE Found(n)
  <2>1. f[n] = Append(f[n - 1], accessMap[names[n]])
    <3>1. n \in 1 .. N /\ HasMap(names[n])
      BY <1>1
    <3>2. f[n] = AppendMap(f[n - 1], names[n])
      BY <1>4, <3>1
    <3> QED
      BY <3>1, <3>2 DEF AppendMap
  <2>2. accessMap[names[n]] \in S
    BY <1>1
  <2>3. f[n - 1] \in Seq(S) /\ Len(f[n - 1]) = n - 1 - off
    BY <1>6
  <2> HIDE DEF S
  <2>4. /\ f[n] \in Seq(S) /\ Len(f[n]) = n - off
        /\ \A k \in 1 .. n - 1 - off : f[n][k] = f[n - 1][k]
        /\ f[n][n - off] = accessMap[names[n]]
    <3>1. Len(f[n - 1]) + 1 = n - off
      BY <1>1, <2>3
    <3> QED
      BY <2>1, <2>2, <2>3, <3>1, AppendedValues
  <2>5. ASSUME NEW k \in 1 .. n - off PROVE f[n][k] = accessMap[names[k + off]]
    <3>1. CASE k = n - off
      BY <1>1, <2>4, <3>1
    <3>2. CASE k # n - off
      <4>1. k \in 1 .. n - 1 - off
        BY <1>1, <3>2
      <4> QED
        BY <1>6, <2>4, <4>1
    <3> QED
      BY <3>1, <3>2
  <2> QED
    BY <2>4, <2>5
<1> HIDE DEF Found, N
<1>7. ASSUME NEW n \in off .. N, ~Found(n) PROVE FALSE
  <2> DEFINE T == {m \in off .. N : ~Found(m)}
  <2>1. T \in SUBSET Nat /\ T # {}
    BY <1>1, <1>7
  <2> HIDE DEF T
  <2>2. PICK m \in T : \A y \in T : m <= y
    BY <2>1, LeastNumber
  <2> USE DEF T
  <2>3. m # off
    BY <1>5, <2>2
  <2>4. m - 1 \in off .. N /\ m \in off + 1 .. N /\ Found(m - 1)
    BY <1>1, <2>2, <2>3
  <2> QED
    BY <1>6, <2>2, <2>4
<1>8. Found(N)
  BY <1>1, <1>7 DEF N
<1> QED
  BY <1>2, <1>8 DEF Found, N

LEMMA SameOwnGroups ==
  ASSUME InputOK, HasMap("Arch_full")
  PROVE  OwnGroups = ResolveGroups
<1>1. charLevel \in Int
  BY AccessResolverAssumption DEF InputOK
<1>2. CASE charLevel = NoCharacter
  <2>1. OwnGroups = explicit
    BY <1>2 DEF OwnGroups, NoCharacter, ArchWizard, JuniorArch
  <2>2. ResolveGroups = explicit \o <<>>
    BY <1>2 DEF ResolveGroups
  <2>3. explicit \o <<>> = explicit
    BY ConcatEmptySeq DEF InputOK
  <2> QED
    BY <2>1, <2>2, <2>3
<1>3. CASE charLevel # NoCharacter
  <2>1. CASE charLevel >= ArchWizard
    BY <1>1, <1>3, <2>1 DEF OwnGroups, ResolveGroups, ArchWizard
  <2>2. CASE ~(charLevel >= ArchWizard)
    <3>1. charLevel < ArchWizard
      BY <1>1, <2>2 DEF ArchWizard
    <3>2. CASE HasMap("Arch_junior") /\ charLevel >= JuniorArch /\ charLevel # Elder
      BY <1>3, <2>2, <3>1, <3>2 DEF OwnGroups, ResolveGroups
    <3>3. CASE ~(HasMap("Arch_junior") /\ charLevel >= JuniorArch /\ charLevel # Elder)
      <4>1. OwnGroups = explicit
        BY <1>3, <2>2, <3>3 DEF OwnGroups
      <4>2. ResolveGroups = explicit \o <<>>
        BY <1>3, <2>2, <3>3 DEF ResolveGroups
      <4>3. explicit \o <<>> = explicit
        BY ConcatEmptySeq DEF InputOK
      <4> QED
        BY <4>1, <4>2, <4>3
    <3> QED
      BY <3>2, <3>3
  <2> QED
    BY <2>1, <2>2
<1> QED
  BY <1>2, <1>3

LEMMA SameGroups ==
  ASSUME InputOK, HasMap("Arch_full"), NEW specific, AddedGroups(specific) = <<>>
  PROVE  QueryGroups(specific) = ResolveGroups
BY SameOwnGroups, GroupsAreGroups, ConcatEmptySeq DEF QueryGroups

\* The same trees, but for a list of groups that is taken away.
SameTrees(trees, considered) ==
  /\ Len(trees) = Len(considered)
  /\ \A k \in 1 .. Len(considered) :
       trees[k] = considered[k] \/ trees[k] = Subtract(considered[k])

\* With no group's map missing, both walk the same trees in the same order.
LEMMA SameMaps ==
  ASSUME InputOK, NEW specific, Comparable(specific)
  PROVE  SameTrees(MudTrees(specific), MapsToConsider) /\ Len(MapsToConsider) > 0
<1> DEFINE S == {accessMap[n] : n \in {x \in MapName : HasMap(x)}}
           G == ResolveGroups
           names == (<<User>> \o G) \o <<Default>>
           rest == G \o <<Default>>
           off == IF HasMap(User) THEN 0 ELSE 1
           listed == GetAccessMaps(specific)
<1>1. G \in Seq(MapName) /\ User \in MapName /\ Default \in MapName
  <2>1. "Arch_full" \in MapName /\ "Arch_junior" \in MapName
    BY AccessResolverAssumption DEF MapName
  <2>2. explicit \in Seq(MapName)
    BY SeqMonotonic DEF InputOK, MapName
  <2>3. <<>> \in Seq(MapName) /\ <<"Arch_full">> \in Seq(MapName) /\ <<"Arch_junior">> \in Seq(MapName)
    BY <2>1
  <2> QED
    BY <2>2, <2>3, ConcatProperties DEF ResolveGroups, MapName
<1>2. <<User>> \in Seq(MapName) /\ <<Default>> \in Seq(MapName)
  BY <1>1
<1>3. MapsToConsider = MapsNamed(names)
  BY DEF MapsToConsider
<1>4. listed = IF HasMap(User) THEN names ELSE rest
  BY SameGroups DEF GetAccessMaps, Comparable
<1> HIDE DEF G, listed
<1>5. Len(G) \in Nat /\ \A n \in 1 .. Len(G) : G[n] \in MapName
  BY <1>1, LenProperties
<1>6. /\ rest \in Seq(MapName) /\ Len(rest) = Len(G) + 1
      /\ \A k \in 1 .. Len(G) + 1 : rest[k] = IF k <= Len(G) THEN G[k] ELSE Default
  <2>1. /\ rest \in Seq(MapName) /\ Len(rest) = Len(G) + Len(<<Default>>)
        /\ \A k \in 1 .. Len(G) + Len(<<Default>>) :
             rest[k] = IF k <= Len(G) THEN G[k] ELSE <<Default>>[k - Len(G)]
    BY <1>1, <1>2, ConcatProperties
  <2>2. Len(<<Default>>) = 1 /\ <<Default>>[1] = Default
    OBVIOUS
  <2>3. ASSUME NEW k \in 1 .. Len(G) + 1
        PROVE  rest[k] = IF k <= Len(G) THEN G[k] ELSE Default
    <3>1. CASE k <= Len(G)
      BY <2>1, <2>2, <3>1
    <3>2. CASE ~(k <= Len(G))
      <4>1. k - Len(G) = 1
        BY <1>5, <3>2
      <4> QED
        BY <2>1, <2>2, <3>2, <4>1
    <3> QED
      BY <3>1, <3>2
  <2> QED
    BY <2>1, <2>2, <2>3
<1>7. /\ names \in Seq(MapName) /\ Len(names) = Len(G) + 2 /\ names[1] = User
      /\ \A k \in 1 .. Len(G) + 1 : names[k + 1] = rest[k]
  <2>1. names = <<User>> \o rest
    <3> HIDE DEF rest
    <3>1. \A s, t, u \in Seq(MapName) : (s \o t) \o u = s \o (t \o u)
      BY ConcatAssociative
    <3> QED
      BY <1>1, <1>2, <3>1 DEF rest
  <2> HIDE DEF rest, names
  <2>2. /\ <<User>> \o rest \in Seq(MapName)
        /\ Len(<<User>> \o rest) = Len(<<User>>) + Len(rest)
        /\ \A k \in 1 .. Len(<<User>>) + Len(rest) :
             (<<User>> \o rest)[k] = IF k <= Len(<<User>>) THEN <<User>>[k]
                                     ELSE rest[k - Len(<<User>>)]
    BY <1>2, <1>6, ConcatProperties
  <2>3. Len(<<User>>) = 1 /\ <<User>>[1] = User
    OBVIOUS
  <2>4. names[1] = User
    BY <1>5, <1>6, <2>1, <2>2, <2>3
  <2>5. ASSUME NEW k \in 1 .. Len(G) + 1 PROVE names[k + 1] = rest[k]
    <3>1. k + 1 \in 1 .. 1 + Len(rest) /\ ~(k + 1 <= 1) /\ (k + 1) - 1 = k
      BY <1>5, <1>6
    <3> QED
      BY <2>1, <2>2, <2>3, <3>1
  <2> QED
    BY <1>5, <1>6, <2>1, <2>2, <2>3, <2>4, <2>5
<1> HIDE DEF names, rest
<1>8. /\ DOMAIN listed = 1 .. Len(names) - off
      /\ \A k \in 1 .. Len(names) - off : listed[k] = names[k + off]
  <2>1. CASE HasMap(User)
    <3>1. DOMAIN names = 1 .. Len(names)
      BY <1>7, LenProperties
    <3> QED
      BY <1>4, <1>5, <1>7, <2>1, <3>1
  <2>2. CASE ~HasMap(User)
    <3>1. DOMAIN rest = 1 .. Len(rest)
      BY <1>6, LenProperties
    <3>2. Len(names) - 1 = Len(rest)
      BY <1>5, <1>6, <1>7
    <3> QED
      BY <1>4, <1>5, <1>6, <1>7, <2>2, <3>1, <3>2
  <2> QED
    BY <2>1, <2>2
<1>9. \A n \in off + 1 .. Len(names) : HasMap(names[n])
  <2> SUFFICES ASSUME NEW n \in off + 1 .. Len(names) PROVE HasMap(names[n])
    OBVIOUS
  <2>1. n - off \in 1 .. Len(names) - off /\ (n - off) + off = n
    BY <1>5, <1>7
  <2>2. HasMap(listed[n - off])
    BY <1>8, <2>1 DEF MudDefined, Comparable, listed
  <2> QED
    BY <1>8, <2>1, <2>2
<1>10. off \in 0 .. 1 /\ off <= Len(names) /\ (off = 1 => ~HasMap(names[1]))
  BY <1>5, <1>7
<1> HIDE DEF off
<1>11. /\ Len(MapsNamed(names)) = Len(names) - off
       /\ \A k \in 1 .. Len(names) - off :
            MapsNamed(names)[k] = accessMap[names[k + off]]
  BY <1>7, <1>9, <1>10, MapsNamedValues
<1>12. MudTrees(specific) =
         [k \in 1 .. Len(names) - off |->
            IF k = 1 /\ HasMap(User) /\ QueryGroups(specific) # <<>>
            THEN Subtract(accessMap[User]) ELSE accessMap[names[k + off]]]
  BY <1>8 DEF MudTrees, listed
<1>13. ASSUME NEW k \in 1 .. Len(names) - off
       PROVE  \/ MudTrees(specific)[k] = MapsNamed(names)[k]
              \/ MudTrees(specific)[k] = Subtract(MapsNamed(names)[k])
  <2>1. CASE k = 1 /\ HasMap(User) /\ QueryGroups(specific) # <<>>
    <3>1. MudTrees(specific)[k] = Subtract(accessMap[User])
      BY <1>12, <2>1
    <3>2. MapsNamed(names)[k] = accessMap[names[1]]
      BY <1>11, <2>1 DEF off
    <3> QED
      BY <1>7, <3>1, <3>2
  <2>2. CASE ~(k = 1 /\ HasMap(User) /\ QueryGroups(specific) # <<>>)
    BY <1>11, <1>12, <2>2
  <2> QED
    BY <2>1, <2>2
<1>14. Len(names) - off \in Nat /\ Len(names) - off > 0
  BY <1>5, <1>7, <1>10
<1>15. Len(MudTrees(specific)) = Len(names) - off
  BY <1>12, <1>14
<1> QED
  BY <1>3, <1>11, <1>13, <1>14, <1>15 DEF SameTrees

-----------------------------------------------------------------------------
(* The walks in lockstep.                                                  *)

\* The MUD's walk of its trees, after as many components, has every tree where
\* the daemon has its own, and stopped at the same one.
Lockstep(trees) ==
  /\ \A k \in 1 .. Mapc : /\ cur[k] = MudWalk(trees, path)[i].node[k]
                          /\ dfls[k] = MudWalk(trees, path)[i].dfl[k]
                          /\ cur[k] # <<GroupKey>>
  /\ MudWalk(trees, path)[i].won \in 1 .. Mapc + 1
  /\ j = IF MudWalk(trees, path)[i].won <= Mapc THEN MudWalk(trees, path)[i].won ELSE Mapc
  /\ MudWalk(trees, path)[i].won > Mapc => dfls[Mapc] = 0

MudInv ==
  /\ \A specific \in ArchGroupd :
       pc = "walk" /\ Comparable(specific) =>
         SameTrees(MudTrees(specific), maps) /\ Lockstep(MudTrees(specific))
  /\ MatchesMud

LEMMA InitialMud == Init => MudInv
BY DEF Init, MudInv, MatchesMud

\* What the reference is computed from is not touched.
LEMMA SameReference ==
  ASSUME UNCHANGED input, NEW specific
  PROVE  /\ Comparable(specific)' = Comparable(specific)
         /\ MudTrees(specific)' = MudTrees(specific)
         /\ GetAccess(specific)' = GetAccess(specific)
<1>1. /\ accessMap' = accessMap /\ explicit' = explicit /\ charLevel' = charLevel
      /\ path' = path
  BY DEF input
<1>2. \A n : HasMap(n)' = HasMap(n)
  BY <1>1 DEF HasMap
<1>3. OwnGroups' = OwnGroups
  BY <1>1, <1>2 DEF OwnGroups
<1>4. AddedGroups(specific)' = AddedGroups(specific)
  BY <1>2, <1>3 DEF AddedGroups
<1>5. QueryGroups(specific)' = QueryGroups(specific)
  BY <1>3, <1>4 DEF QueryGroups
<1>6. GetAccessMaps(specific)' = GetAccessMaps(specific)
  BY <1>2, <1>5 DEF GetAccessMaps
<1>7. MudDefined(specific)' = MudDefined(specific)
  BY <1>2, <1>6 DEF MudDefined
<1>8. MudTrees(specific)' = MudTrees(specific)
  BY <1>1, <1>2, <1>5, <1>6 DEF MudTrees
<1>9. GetAccess(specific)' = GetAccess(specific)
  BY <1>1, <1>8 DEF GetAccess
<1>10. Comparable(specific)' = Comparable(specific)
  BY <1>1, <1>2, <1>4, <1>7 DEF Comparable
<1> QED
  BY <1>8, <1>9, <1>10

\* Once there are maps to walk, every tree is at its root in both.
LEMMA CollectKeepsMud ==
  ASSUME IInv, MudInv, Collect
  PROVE  MudInv'
<1>1. InputOK /\ i = 0 /\ j = 1
  BY DEF IInv, Collect
<1>2. /\ maps' = MapsToConsider /\ UNCHANGED <<input, i, j>>
      /\ IF Mapc' = 0
         THEN pc' = "done" /\ perm' = Revoked
         ELSE /\ pc' = "walk"
              /\ cur' = [k \in 1 .. Mapc' |-> <<>>]
              /\ dfls' = [k \in 1 .. Mapc' |-> maps'[k][<<>>].star]
  BY DEF Collect
<1>3. ASSUME NEW specific, Comparable(specific)'
      PROVE  SameTrees(MudTrees(specific)', maps') /\ Mapc' > 0
  <2>1. Comparable(specific) /\ MudTrees(specific)' = MudTrees(specific)
    BY <1>2, <1>3, SameReference
  <2>2. SameTrees(MudTrees(specific), MapsToConsider) /\ Len(MapsToConsider) > 0
    BY <1>1, <2>1, SameMaps
  <2> QED
    BY <1>2, <2>1, <2>2 DEF Mapc
<1>4. CASE Mapc' = 0
  <2>1. \A specific \in ArchGroupd : ~Comparable(specific)'
    BY <1>3, <1>4
  <2> QED
    BY <1>2, <1>4, <2>1 DEF MudInv, MatchesMud
<1>5. CASE Mapc' # 0
  <2>1. /\ Mapc' \in Nat /\ Mapc' > 0
        /\ \A k \in 1 .. Mapc' : <<>> \in DOMAIN maps'[k]
    <3> DEFINE S == {accessMap[n] : n \in {x \in MapName : HasMap(x)}}
    <3>1. MapsToConsider \in Seq(S)
      BY <1>1, ConsideredExist
    <3>2. \A tree \in S : <<>> \in DOMAIN tree
      BY <1>1 DEF InputOK, TreeOK
    <3> HIDE DEF S
    <3> QED
      BY <1>2, <1>5, <3>1, <3>2, LenProperties DEF Mapc
  <2>2. path' = path /\ i' = 0 /\ j' = 1 /\ pc' = "walk" /\ Len(path) \in Nat
    BY <1>1, <1>2, <1>5, LengthOfPath DEF input
  <2>3. ASSUME NEW specific, Comparable(specific)'
        PROVE  Lockstep(MudTrees(specific))'
    <3>1. PICK trees : trees = MudTrees(specific)'
      OBVIOUS
    <3>2. SameTrees(trees, maps')
      BY <1>3, <2>3, <3>1
    <3>3. Len(trees) = Mapc'
      BY <3>2 DEF SameTrees, Mapc
    <3>4. PICK at : at = MudStart(trees)
      OBVIOUS
    <3>5. MudWalk(trees, path')[i'] = at
      BY <2>2, <3>4, MudWalkUnfolds
    <3>6. /\ at.won = 1
          /\ \A k \in 1 .. Mapc' : at.node[k] = <<>> /\ at.dfl[k] = trees[k][<<>>].star
      BY <3>3, <3>4 DEF MudStart
    <3>7. ASSUME NEW k \in 1 .. Mapc' PROVE trees[k][<<>>].star = maps'[k][<<>>].star
      <4>1. trees[k] = maps'[k] \/ trees[k] = Subtract(maps'[k])
        BY <3>2 DEF SameTrees, Mapc
      <4>2. <<>> # <<GroupKey>>
        OBVIOUS
      <4>3. Subtract(maps'[k])[<<>>] = maps'[k][<<>>]
        BY <2>1, <4>2 DEF Subtract
      <4> QED
        BY <4>1, <4>3
    <3>8. \A k \in 1 .. Mapc' : /\ cur'[k] = at.node[k] /\ dfls'[k] = at.dfl[k]
                                /\ cur'[k] # <<GroupKey>>
      BY <1>2, <1>5, <3>6, <3>7
    <3>9. 1 \in 1 .. Mapc' + 1 /\ 1 <= Mapc' /\ ~(1 > Mapc')
      <4>1. \A M \in Nat : M > 0 => 1 \in 1 .. M + 1 /\ 1 <= M /\ ~(1 > M)
        OBVIOUS
      <4> QED
        BY <2>1, <4>1
    <3> QED
      BY <2>2, <3>1, <3>5, <3>6, <3>8, <3>9 DEF Lockstep
  <2> QED
    BY <1>3, <2>2, <2>3 DEF MudInv, MatchesMud
<1> QED
  BY <1>4, <1>5

\* The trees up to the one that decides move on, and are the same in both.
LEMMA ComponentKeepsMud ==
  ASSUME IInv, MudInv, Component
  PROVE  MudInv'
<1>1. /\ InputOK /\ ProgressOK /\ WalkInv /\ NodesOK
      /\ pc = "walk" /\ i < Len(path)
  BY DEF IInv, Component, WalkInv
<1>2. PICK d \in 1 .. Mapc + 1 :
        /\ \A k \in 1 .. d - 1 : NextLevel(k) = 0
        /\ d <= Mapc => NextLevel(d) # 0
        /\ dfls' = [k \in 1 .. Mapc |-> IF k <= d THEN NextLevel(k) ELSE dfls[k]]
        /\ cur' = [k \in 1 .. Mapc |->
                     IF k <= d THEN EvalNode(maps[k], cur[k], path[i + 1]) ELSE cur[k]]
        /\ j' = IF d <= Mapc THEN d ELSE Mapc
  BY DEF Component
<1>3. UNCHANGED input /\ path' = path /\ maps' = maps /\ pc' = "walk" /\ i' = i + 1
  BY <1>1 DEF Component, input
<1>4. /\ Mapc \in Nat /\ Mapc > 0 /\ Mapc' = Mapc /\ Mapc = Len(maps)
      /\ \A k \in 1 .. Mapc : TreeOK(maps[k], path)
      /\ Len(path) \in Nat /\ i \in 0 .. Len(path) - 1 /\ path \in Seq(STRING)
  <2>1. Mapc' = Mapc /\ Mapc = Len(maps)
    BY <1>3 DEF Mapc
  <2>2. Len(path) \in Nat /\ i \in 0 .. Len(path) - 1 /\ path \in Seq(STRING)
    BY <1>1, LengthOfPath DEF ProgressOK, InputOK
  <2> QED
    BY <1>1, <2>1, <2>2, MapsAreTrees DEF WalkInv
<1> DEFINE levels == [k \in 1 .. Mapc |-> NextLevel(k)]
           nodes == [k \in 1 .. Mapc |-> EvalNode(maps[k], cur[k], path[i + 1])]
<1>5. /\ d <= Mapc => levels[d] # 0
      /\ \A k \in 1 .. d - 1 : levels[k] = 0
  BY <1>2, <1>4
<1>6. \A k \in 1 .. Mapc : /\ dfls'[k] = IF k <= d THEN levels[k] ELSE dfls[k]
                           /\ cur'[k] = IF k <= d THEN nodes[k] ELSE cur[k]
                           /\ levels[k] = NextLevel(k)
                           /\ nodes[k] = EvalNode(maps[k], cur[k], path[i + 1])
  BY <1>2
<1> HIDE DEF levels, nodes
<1>7. ASSUME NEW specific \in ArchGroupd, Comparable(specific)'
      PROVE  SameTrees(MudTrees(specific)', maps') /\ Lockstep(MudTrees(specific))'
  <2>1. Comparable(specific) /\ MudTrees(specific)' = MudTrees(specific)
    BY <1>3, <1>7, SameReference
  <2>2. PICK trees : trees = MudTrees(specific)
    OBVIOUS
  <2>3. SameTrees(trees, maps) /\ Lockstep(trees) /\ Len(trees) = Mapc
    BY <1>1, <1>4, <2>1, <2>2 DEF MudInv, SameTrees
  <2>4. PICK at : at = MudWalk(trees, path)[i]
    OBVIOUS
  <2>5. \A k \in 1 .. Mapc : cur[k] = at.node[k] /\ dfls[k] = at.dfl[k] /\ cur[k] # <<GroupKey>>
    BY <2>3, <2>4 DEF Lockstep
  <2>6. MudWalk(trees, path)[i + 1] = MudStep(trees, path, at, i + 1)
    <3>1. i + 1 \in 1 .. Len(path) /\ (i + 1) - 1 = i
      BY <1>4
    <3>2. MudWalk(trees, path)[i + 1]
            = MudStep(trees, path, MudWalk(trees, path)[(i + 1) - 1], i + 1)
      BY <1>4, <3>1, MudWalkUnfolds
    <3> QED
      BY <2>4, <3>1, <3>2
  <2>7. path[i + 1] # GroupKey
    <3>1. i + 1 \in DOMAIN path
      BY <1>4, LenProperties
    <3> QED
      BY <2>1, <3>1 DEF Comparable
  <2>8. ASSUME NEW k \in 1 .. Mapc
        PROVE  /\ MudEval(trees[k], at.node[k], path[i + 1], at.dfl[k], i + 1 = Len(path)).acc
                    = levels[k]
               /\ MudEval(trees[k], at.node[k], path[i + 1], at.dfl[k], i + 1 = Len(path)).node
                    = nodes[k]
               /\ nodes[k] # <<GroupKey>>
    <3>1. /\ NodeOK(maps[k], cur[k], i) /\ dfls[k] \in Level /\ TreeOK(maps[k], path)
          /\ cur[k] # <<GroupKey>>
      BY <1>1, <1>4, <2>5 DEF NodesOK
    <3>2. ASSUME NEW final \in BOOLEAN
          PROVE  /\ MudEval(maps[k], cur[k], path[i + 1], dfls[k], final).acc
                      = EvalLevel(maps[k], cur[k], path[i + 1], dfls[k], final)
                 /\ MudEval(maps[k], cur[k], path[i + 1], dfls[k], final).node
                      = EvalNode(maps[k], cur[k], path[i + 1])
                 /\ MudEval(Subtract(maps[k]), cur[k], path[i + 1], dfls[k], final)
                      = MudEval(maps[k], cur[k], path[i + 1], dfls[k], final)
                 /\ EvalNode(maps[k], cur[k], path[i + 1]) # <<GroupKey>>
      <4>1. /\ MudEval(maps[k], cur[k], path[i + 1], dfls[k], final).acc
                 = EvalLevel(maps[k], cur[k], path[i + 1], dfls[k], final)
            /\ MudEval(maps[k], cur[k], path[i + 1], dfls[k], final).node
                 = EvalNode(maps[k], cur[k], path[i + 1])
        BY <1>4, <2>7, <3>1, EvalAgrees
      <4>2. /\ MudEval(Subtract(maps[k]), cur[k], path[i + 1], dfls[k], final)
                 = MudEval(maps[k], cur[k], path[i + 1], dfls[k], final)
            /\ EvalNode(maps[k], cur[k], path[i + 1]) # <<GroupKey>>
        BY <1>4, <2>7, <3>1, SubtractAgrees
      <4> QED
        BY <4>1, <4>2
    <3>3. trees[k] = maps[k] \/ trees[k] = Subtract(maps[k])
      BY <1>4, <2>3 DEF SameTrees
    <3>4. ASSUME NEW final \in BOOLEAN
          PROVE  /\ MudEval(trees[k], cur[k], path[i + 1], dfls[k], final).acc
                      = EvalLevel(maps[k], cur[k], path[i + 1], dfls[k], final)
                 /\ MudEval(trees[k], cur[k], path[i + 1], dfls[k], final).node
                      = EvalNode(maps[k], cur[k], path[i + 1])
      BY <3>2, <3>3
    <3>5. (i + 1 = Len(path)) \in BOOLEAN
      OBVIOUS
    <3>6. /\ MudEval(trees[k], cur[k], path[i + 1], dfls[k], i + 1 = Len(path)).acc
               = EvalLevel(maps[k], cur[k], path[i + 1], dfls[k], i + 1 = Len(path))
          /\ MudEval(trees[k], cur[k], path[i + 1], dfls[k], i + 1 = Len(path)).node
               = EvalNode(maps[k], cur[k], path[i + 1])
      BY <3>4, <3>5
    <3>7. EvalNode(maps[k], cur[k], path[i + 1]) # <<GroupKey>>
      BY <3>2
    <3> QED
      BY <1>6, <2>5, <3>6, <3>7 DEF NextLevel
  <2>9. PICK to : to = MudStep(trees, path, at, i + 1)
    OBVIOUS
  <2>10. to.won = d /\ Moved(Mapc, at, to, d, levels, nodes)
    <3>1. Evaluates(trees, path, at, i + 1, levels, nodes)
      BY <2>3, <2>8 DEF Evaluates
    <3> QED
      BY <1>4, <1>5, <2>3, <2>9, <3>1, MudStepFields
  <2>11. MudWalk(trees, path')[i'] = to
    BY <1>3, <2>6, <2>9
  <2>12. \A k \in 1 .. Mapc : /\ cur'[k] = to.node[k] /\ dfls'[k] = to.dfl[k]
                              /\ cur'[k] # <<GroupKey>>
    BY <1>6, <2>5, <2>8, <2>10 DEF Moved
  <2>13. d > Mapc => dfls'[Mapc] = 0
    BY <1>2, <1>4, <1>5, <1>6
  <2>14. Lockstep(MudTrees(specific))'
    BY <1>2, <1>4, <2>1, <2>2, <2>10, <2>11, <2>12, <2>13 DEF Lockstep
  <2> QED
    BY <1>3, <2>1, <2>2, <2>3, <2>14
<1> QED
  BY <1>3, <1>7 DEF MudInv, MatchesMud

\* At the end of the path both answer from the same tree.
LEMMA ConcludeKeepsMud ==
  ASSUME IInv, MudInv, Conclude
  PROVE  MudInv'
<1>1. /\ InputOK /\ ProgressOK /\ WalkInv /\ NodesOK
      /\ pc = "walk" /\ i = Len(path)
  BY DEF IInv, Conclude, WalkInv
<1>2. /\ UNCHANGED input /\ maps' = maps /\ pc' = "done"
      /\ perm' = IF Answer < Read THEN Revoked ELSE Answer
  BY DEF Conclude, walk
<1>3. ASSUME NEW specific \in ArchGroupd, Comparable(specific)
      PROVE  Answer = GetAccess(specific)
  <2>1. PICK trees : trees = MudTrees(specific)
    OBVIOUS
  <2>2. PICK last : last = MudWalk(trees, path)[Len(path)]
    OBVIOUS
  <2>3. Len(trees) = Mapc /\ Lockstep(trees)
    BY <1>1, <1>3, <2>1 DEF MudInv, SameTrees, Mapc
  <2>4. /\ last.won \in 1 .. Mapc + 1
        /\ j = IF last.won <= Mapc THEN last.won ELSE Mapc
        /\ last.won > Mapc => dfls[Mapc] = 0
        /\ \A k \in 1 .. Mapc : dfls[k] = last.dfl[k]
    BY <1>1, <2>2, <2>3 DEF Lockstep
  <2>5. Mapc \in Nat /\ Mapc > 0
    BY <1>1, MapsAreTrees DEF WalkInv
  <2>6. Ruled <=> /\ Len(path) >= 2
                  /\ path[1] \in {"d", "players"}
                  /\ last.won # 1 \/ Mapc = 1
    <3>1. (j # 1 \/ Mapc = 1) <=> (last.won # 1 \/ Mapc = 1)
      BY <2>4, <2>5
    <3> QED
      BY <3>1 DEF Ruled
  <2>7. dfls[j] = IF last.won > Mapc THEN 0 ELSE last.dfl[last.won]
    BY <2>4, <2>5
  <2>8. GetAccess(specific) =
          CASE Ruled /\ path[2] = User -> GrantGrant
            [] Ruled /\ path[2] # User /\ Len(path) >= 3 /\ path[3] = "open" -> Read
            [] OTHER -> IF last.won > Mapc THEN 0 ELSE last.dfl[last.won]
    BY <2>1, <2>2, <2>3, <2>6 DEF GetAccess
  <2>9. CASE Ruled /\ path[2] = User
    BY <2>8, <2>9 DEF Answer
  <2>10. CASE Ruled /\ path[2] # User /\ Len(path) >= 3 /\ path[3] = "open"
    BY <2>8, <2>10 DEF Answer
  <2>11. CASE ~(Ruled /\ path[2] = User)
              /\ ~(Ruled /\ path[2] # User /\ Len(path) >= 3 /\ path[3] = "open")
    <3>1. Answer = dfls[j]
      BY <2>11 DEF Answer
    <3>2. GetAccess(specific) = IF last.won > Mapc THEN 0 ELSE last.dfl[last.won]
      BY <2>8, <2>11
    <3> QED
      BY <2>7, <3>1, <3>2
  <2> QED
    BY <2>9, <2>10, <2>11
<1>4. MatchesMud'
  BY <1>2, <1>3, SameReference DEF MatchesMud
<1> QED
  BY <1>2, <1>4 DEF MudInv

LEMMA MudsStep == IInv /\ MudInv /\ [Next]_vars => MudInv'
<1> SUFFICES ASSUME IInv, MudInv, [Next]_vars PROVE MudInv'
  OBVIOUS
<1>1. CASE UNCHANGED vars
  <2>1. /\ UNCHANGED input /\ maps' = maps /\ i' = i /\ cur' = cur /\ dfls' = dfls
        /\ j' = j /\ pc' = pc /\ perm' = perm /\ path' = path
    BY <1>1 DEF vars, walk, input
  <2>2. Mapc' = Mapc
    BY <2>1 DEF Mapc
  <2>3. MatchesMud'
    BY <2>1, SameReference DEF MatchesMud, MudInv
  <2>4. ASSUME NEW specific \in ArchGroupd, pc' = "walk", Comparable(specific)'
        PROVE  SameTrees(MudTrees(specific)', maps') /\ Lockstep(MudTrees(specific))'
    <3>1. Comparable(specific) /\ MudTrees(specific)' = MudTrees(specific)
      BY <2>1, <2>4, SameReference
    <3>2. SameTrees(MudTrees(specific), maps) /\ Lockstep(MudTrees(specific))
      BY <2>1, <2>4, <3>1 DEF MudInv
    <3> QED
      BY <2>1, <2>2, <3>1, <3>2 DEF Lockstep
  <2> QED
    BY <2>3, <2>4 DEF MudInv, SameTrees
<1> QED
  BY <1>1, CollectKeepsMud, ComponentKeepsMud, ConcludeKeepsMud DEF Next

\* authorizer.go:84, "a direct port of access.c _get_access": for every file of
\* access maps, user, level and path on which the two may be compared (access.c
\* does not fail, archgroupd adds no group, Arch_full has a map, the path does
\* not name a list of groups), the daemon allows an operation at exactly the
\* levels at which the MUD does.
THEOREM PortIsFaithful == Spec => []MatchesMud
<1>1. IInv /\ MudInv /\ [Next]_vars => (IInv /\ MudInv)'
  BY ResolverStep, MudsStep
<1>2. Init => IInv /\ MudInv
  BY InitialResolver, InitialMud
<1>3. MudInv => MatchesMud
  BY DEF MudInv
<1> QED
  BY <1>1, <1>2, <1>3, PTL DEF Spec
=============================================================================
