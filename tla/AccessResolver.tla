--------------------------- MODULE AccessResolver ---------------------------
(***************************************************************************)
(* ResolvePermission of pkg/authorization/authorizer.go, for one user, one  *)
(* path and one snapshot of the access map: the maps that apply to the user *)
(* are collected in order of priority and walked together, one component of *)
(* the path at a time.  A component stops at the first map that decides it, *)
(* so that the maps after it are left where they were, behind the walk.     *)
(***************************************************************************)
EXTENDS AccessTree

CONSTANTS
  User,          \* the user's name
  Group,         \* the names of the groups, with "Arch_full" and "Arch_junior"
  Situations     \* the users, access maps and paths tried together: records of
                 \* sets.  own, groups, default: trees for the user's own map,
                 \* functions from Group to trees, trees for the default map;
                 \* memberships: "?" lists; levels: the user's, or NoCharacter;
                 \* paths: sequences of components

NoTree == <<>>
Default == "*"
MapName == Group \union {User, Default}

\* What a situation has trees for.
TreesOf(t) == t.own \union t.default \union UNION {{m[g] : g \in Group} : m \in t.groups}

\* A walk along p finds an entry, Absent if nothing else, below every branch,
\* and a list under GroupKey only.
TreeOK(tree, p) ==
  /\ DOMAIN tree \subseteq Seq(STRING)
  /\ tree \in [DOMAIN tree -> Entry]
  /\ <<>> \in DOMAIN tree /\ tree[<<>>].kind = "branch"
  /\ \A n \in DOMAIN tree : tree[n].kind = "branch" /\ Len(n) < Len(p) =>
       \A k \in 1 .. Len(p) :
         /\ Append(n, p[k]) \in DOMAIN tree
         /\ tree[Append(n, p[k])].kind = "list" => p[k] = GroupKey

ASSUME AccessResolverAssumption ==
  /\ {"Arch_full", "Arch_junior"} \subseteq Group
  /\ \A t \in Situations :
       /\ t.memberships \subseteq Seq(Group)
       /\ t.levels \subseteq Int
       /\ t.paths \subseteq Seq(STRING)
       /\ \A tree \in TreesOf(t), p \in t.paths : tree = NoTree \/ TreeOK(tree, p)

VARIABLES
  accessMap,  \* accessMap[n]: the tree called n, NoTree if it is no mapping
  explicit,   \* the groups of the user's "?" list
  charLevel,  \* the level LoadUser returns
  path,       \* the components of the path asked for
  pc,         \* "collect", "walk" or "done"
  maps,       \* the trees to consider, most important first
  i,          \* how many components have been walked
  cur,        \* cur[k]: the node of maps[k] reached, NoNode once exhausted
  dfls,       \* dfls[k]: the level carried down in maps[k]
  j,          \* the map that decided the last component
  perm        \* the answer

input == <<accessMap, explicit, charLevel, path>>
walk == <<maps, i, cur, dfls, j>>
vars == <<input, pc, walk, perm>>

\* No path: "/" separates components and is none.
NoNode == <<"/">>
Mapc == Len(maps)

HasMap(n) == accessMap[n] # NoTree

\* A list of groups in the user's own map; without one there are none.
HasList(tree) == <<GroupKey>> \in DOMAIN tree /\ tree[<<GroupKey>>] = GroupList

Init ==
  /\ \E t \in Situations :
       /\ \E own \in t.own, dflt \in t.default, groupMap \in t.groups :
            accessMap = [n \in MapName |-> IF n = User THEN own
                                           ELSE IF n = Default THEN dflt
                                           ELSE groupMap[n]]
       /\ explicit \in {g \in t.memberships : HasList(accessMap[User]) \/ g = <<>>}
       /\ charLevel \in t.levels
       /\ path \in t.paths
  /\ pc = "collect"
  /\ maps = <<>>
  /\ i = 0
  /\ cur = <<>>
  /\ dfls = <<>>
  /\ j = 1
  /\ perm = 0

-----------------------------------------------------------------------------

\* Mutant: elders are junior archs.
ResolveGroupsWithElder ==
  explicit \o
    IF charLevel = NoCharacter THEN <<>>
    ELSE IF HasMap("Arch_full") /\ charLevel >= ArchWizard THEN <<"Arch_full">>
    ELSE IF HasMap("Arch_junior") /\ charLevel >= JuniorArch THEN <<"Arch_junior">>
    ELSE <<>>

\* The implicit groups of an arch, after the explicit ones of the "?" list.
ResolveGroups ==
  explicit \o
    IF charLevel = NoCharacter THEN <<>>
    ELSE IF HasMap("Arch_full") /\ charLevel >= ArchWizard THEN <<"Arch_full">>
    ELSE IF HasMap("Arch_junior") /\ charLevel >= JuniorArch /\ charLevel # Elder
      THEN <<"Arch_junior">>
    ELSE <<>>

\* Of the maps with these names, those there are.
AppendMap(found, n) == IF HasMap(n) THEN Append(found, accessMap[n]) ELSE found

MapsNamed(names) ==
  LET found[n \in 0 .. Len(names)] ==
        IF n = 0 THEN <<>> ELSE AppendMap(found[n - 1], names[n])
  IN found[Len(names)]

\* The user's own map, the maps of the groups, the default map.
MapsToConsider == MapsNamed(<<User>> \o ResolveGroups \o <<Default>>)

\* resolveAccess sets up the descent, or ends at once: no map, no access.
Collect ==
  /\ pc = "collect"
  /\ maps' = MapsToConsider
  /\ IF Mapc' = 0
       THEN /\ pc' = "done"
            /\ perm' = Revoked
            /\ UNCHANGED <<cur, dfls>>
       ELSE /\ pc' = "walk"
            /\ cur' = [k \in 1 .. Mapc' |-> <<>>]
            /\ dfls' = [k \in 1 .. Mapc' |-> maps'[k][<<>>].star]
            /\ UNCHANGED perm
  /\ UNCHANGED <<input, i, j>>

\* evalMap: the level of component part in tree, whose descent is at node and
\* carries the default dfl.
EvalLevel(tree, node, part, dfl, final) ==
  IF node = NoNode THEN dfl
  ELSE LET e == tree[Append(node, part)]
       IN CASE e.kind = "absent" -> Or(tree[node].star, dfl)
            [] e.kind \in {"leaf", "list"} -> e.level
            [] e.kind = "branch" ->
                 IF dfl = 0 THEN e.star
                 ELSE Or(IF final THEN e.dot ELSE e.star, dfl)

\* evalMap: where it leaves the descent.
EvalNode(tree, node, part) ==
  IF node # NoNode /\ tree[Append(node, part)].kind = "branch"
  THEN Append(node, part)
  ELSE NoNode

NextLevel(k) ==
  EvalLevel(maps[k], cur[k], path[i + 1], dfls[k], i + 1 = Len(path))

\* Mutant: no break once a map has decided, so that the last one wins.
ComponentWithoutBreak ==
  /\ pc = "walk"
  /\ i < Len(path)
  /\ \E d \in 1 .. Mapc :
       /\ NextLevel(d) # 0 \/ (d = Mapc /\ \A k \in 1 .. Mapc : NextLevel(k) = 0)
       /\ \A k \in d + 1 .. Mapc : NextLevel(k) = 0
       /\ j' = d
  /\ dfls' = [k \in 1 .. Mapc |-> NextLevel(k)]
  /\ cur' = [k \in 1 .. Mapc |-> EvalNode(maps[k], cur[k], path[i + 1])]
  /\ i' = i + 1
  /\ UNCHANGED <<input, pc, maps, perm>>

\* Mutant: j is left one past the last map when none decides.
ComponentPastEnd ==
  /\ pc = "walk"
  /\ i < Len(path)
  /\ \E d \in 1 .. Mapc + 1 :
       /\ \A k \in 1 .. d - 1 : NextLevel(k) = 0
       /\ d <= Mapc => NextLevel(d) # 0
       /\ dfls' = [k \in 1 .. Mapc |-> IF k <= d THEN NextLevel(k) ELSE dfls[k]]
       /\ cur' = [k \in 1 .. Mapc |->
                    IF k <= d THEN EvalNode(maps[k], cur[k], path[i + 1]) ELSE cur[k]]
       /\ j' = d
  /\ i' = i + 1
  /\ UNCHANGED <<input, pc, maps, perm>>

\* One component: map d is the first that decides it, and the maps up to d
\* move on; when none does, all of them move and the last one is kept.
Component ==
  /\ pc = "walk"
  /\ i < Len(path)
  /\ \E d \in 1 .. Mapc + 1 :
       /\ \A k \in 1 .. d - 1 : NextLevel(k) = 0
       /\ d <= Mapc => NextLevel(d) # 0
       /\ dfls' = [k \in 1 .. Mapc |-> IF k <= d THEN NextLevel(k) ELSE dfls[k]]
       /\ cur' = [k \in 1 .. Mapc |->
                    IF k <= d THEN EvalNode(maps[k], cur[k], path[i + 1]) ELSE cur[k]]
       /\ j' = IF d <= Mapc THEN d ELSE Mapc
  /\ i' = i + 1
  /\ UNCHANGED <<input, pc, maps, perm>>

\* A wizard's own directory and everybody's "open" directory, unless the
\* first of several maps decided.
Ruled ==
  /\ Len(path) >= 2
  /\ path[1] \in {"d", "players"}
  /\ j # 1 \/ Mapc = 1

Answer ==
  IF Ruled /\ path[2] = User THEN GrantGrant
  ELSE IF Ruled /\ Len(path) >= 3 /\ path[3] = "open" THEN Read
  ELSE dfls[j]

\* The end of resolveAccess and of ResolvePermission: 0 is denied as -1 is.
Conclude ==
  /\ pc = "walk"
  /\ i = Len(path)
  /\ perm' = IF Answer < Read THEN Revoked ELSE Answer
  /\ pc' = "done"
  /\ UNCHANGED <<input, walk>>

Next == Collect \/ Component \/ Conclude

Spec == Init /\ [][Next]_vars

-----------------------------------------------------------------------------
(* Properties.                                                             *)

Trees == UNION {TreesOf(t) : t \in Situations}

TypeOK ==
  /\ \A n \in MapName : accessMap[n] \in Trees
  /\ \E t \in Situations :
       explicit \in t.memberships /\ charLevel \in t.levels /\ path \in t.paths
  /\ pc \in {"collect", "walk", "done"}
  /\ \A k \in DOMAIN maps : \E n \in MapName : HasMap(n) /\ maps[k] = accessMap[n]
  /\ i \in 0 .. Len(path)
  /\ perm \in Level
  /\ pc = "walk" =>
       /\ j \in 1 .. Mapc
       /\ dfls \in [1 .. Mapc -> Level]
       /\ DOMAIN cur = 1 .. Mapc
       /\ \A k \in 1 .. Mapc : cur[k] = NoNode \/ cur[k] \in DOMAIN maps[k]

\* The walk of tree on its own along p: where it is after n components, and
\* what it says.
AloneStart(tree) == [node |-> <<>>, level |-> tree[<<>>].star]

AloneStep(tree, p, at, n) ==
  [node  |-> EvalNode(tree, at.node, p[n]),
   level |-> EvalLevel(tree, at.node, p[n], at.level, n = Len(p))]

AloneWalk(tree, p) ==
  LET w[n \in 0 .. Len(p)] ==
        IF n = 0 THEN AloneStart(tree) ELSE AloneStep(tree, p, w[n - 1], n)
  IN w

\* What tree says of the path when it is walked on its own.
Alone(tree) == AloneWalk(tree, path)[Len(path)].level

\* Tree k is the first to decide the path.
FirstMatch(k) ==
  /\ Alone(maps[k]) # 0
  /\ \A h \in 1 .. k - 1 : Alone(maps[h]) = 0

\* Below the first component, a path that names a list of groups undoes what
\* its map has decided, and lets maps decide that were left behind.
ListsAtRoot == \A k \in 2 .. Len(path) : path[k] # GroupKey

\* docs/viking_access_tree.md:102: "lazy evaluator algorithm, meaning that the
\* first match is used as the access level": walking the maps together comes
\* to what the first map with an opinion says on its own.
ResolvesByFirstMatch ==
  pc = "done" /\ path # <<>> /\ ~Ruled /\ ListsAtRoot =>
    \/ \E k \in 1 .. Mapc : FirstMatch(k) /\ perm = Alone(maps[k])
    \/ (\A k \in 1 .. Mapc : Alone(maps[k]) = 0) /\ perm = Revoked
=============================================================================
