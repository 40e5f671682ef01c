----------------------------- MODULE MudAccess -----------------------------
(***************************************************************************)
(* The MUD's own resolver, resources/access.c, as the reference that        *)
(* AccessResolver is compared with on the same access map, user and path.   *)
(* access.c fails with a runtime error on a group that has no map, on a     *)
(* path that names a list of groups, and on a path no map decides: the      *)
(* first two are left out, the third denies.                               *)
(***************************************************************************)
EXTENDS AccessResolver

CONSTANT
  ArchGroupd     \* what archgroupd may answer for the user: sequences of groups

\* access.c's fusers, who have no groups.  A name with a capital letter, which
\* is a group's, has none either.
FakeUsers == {"*", "backbone", "root"}

ASSUME MudAccessAssumption ==
  /\ User \notin FakeUsers \union Group
  /\ ArchGroupd \subseteq Seq(Group)

\* query_groups, before archgroupd's.  l stays 0 unless the first condition
\* gets to look it up.
OwnGroups ==
  LET l == IF HasMap("Arch_full") THEN charLevel ELSE 0
  IN CASE HasMap("Arch_full") /\ l >= ArchWizard -> explicit \o <<"Arch_full">>
       [] HasMap("Arch_junior") /\ l >= JuniorArch /\ l < ArchWizard /\ l # Elder ->
            explicit \o <<"Arch_junior">>
       [] OTHER -> explicit

\* Those of archgroupd's groups that have a map and are not in the list yet.
Among(s, S) == SelectSeq(s, LAMBDA e : e \in S)

AddedGroups(specific) ==
  Among(specific, {g \in Group : HasMap(g) /\ \A k \in DOMAIN OwnGroups : OwnGroups[k] # g})

QueryGroups(specific) == OwnGroups \o AddedGroups(specific)

\* get_access_maps: the names of the maps, the user's if access_map has it.
GetAccessMaps(specific) ==
  IF HasMap(User) THEN <<User>> \o QueryGroups(specific) \o <<Default>>
  ELSE QueryGroups(specific) \o <<Default>>

MudDefined(specific) ==
  \A k \in DOMAIN GetAccessMaps(specific) : HasMap(GetAccessMaps(specific)[k])

\* subtract_map, of the user's list of groups.
Subtract(tree) == [tree EXCEPT ![<<GroupKey>>] = Absent]

\* The trees of the maps, in the order they are walked: of a user with groups,
\* the own map goes without the list.
MudTrees(specific) ==
  LET names == GetAccessMaps(specific)
  IN [k \in DOMAIN names |->
        IF k = 1 /\ HasMap(User) /\ QueryGroups(specific) # <<>>
        THEN Subtract(accessMap[User])
        ELSE accessMap[names[k]]]

\* eval_map on list[idx], here a tree and the node its descent is at.
MudEval(tree, node, part, dfl, final) ==
  LET v == tree[Append(node, part)]
      here == Or(tree[node].star, dfl)
  IN IF node = NoNode THEN [acc |-> dfl, node |-> NoNode]
     ELSE IF v.kind = "absent" THEN [acc |-> here, node |-> NoNode]
     ELSE IF v.kind = "leaf" THEN [acc |-> v.level, node |-> NoNode]
     ELSE [acc  |-> IF dfl = 0 THEN v.star
                    ELSE IF final /\ v.dot # 0 THEN v.dot
                    ELSE IF ~final /\ v.star # 0 THEN v.star
                    ELSE dfl,
           node |-> Append(node, part)]

\* _get_access before the first component: every tree at its root.  won is its
\* j, one past the last tree when the loop over them ran to its end.
MudStart(trees) ==
  [node |-> [k \in 1 .. Len(trees) |-> <<>>],
   dfl  |-> [k \in 1 .. Len(trees) |-> trees[k][<<>>].star],
   won  |-> 1]

\* Component n of p, up to the first tree that decides it.
MudStep(trees, p, at, n) ==
  LET mapc == Len(trees)
      r == [k \in 1 .. mapc |->
              MudEval(trees[k], at.node[k], p[n], at.dfl[k], n = Len(p))]
      won == CHOOSE d \in 1 .. mapc + 1 :
               /\ d <= mapc => r[d].acc # 0
               /\ \A k \in 1 .. d - 1 : r[k].acc = 0
  IN [node |-> [k \in 1 .. mapc |-> IF k <= won THEN r[k].node ELSE at.node[k]],
      dfl  |-> [k \in 1 .. mapc |-> IF k <= won THEN r[k].acc ELSE at.dfl[k]],
      won  |-> won]

MudWalk(trees, p) ==
  LET w[n \in 0 .. Len(p)] ==
        IF n = 0 THEN MudStart(trees) ELSE MudStep(trees, p, w[n - 1], n)
  IN w

\* _get_access: the trees walked together, and the ruled directories.
GetAccess(specific) ==
  LET trees == MudTrees(specific)
      mapc == Len(trees)
      last == MudWalk(trees, path)[Len(path)]
      ruled == /\ Len(path) >= 2
               /\ path[1] \in {"d", "players"}
               /\ last.won # 1 \/ mapc = 1
  IN CASE ruled /\ path[2] = User -> GrantGrant
       [] ruled /\ path[2] # User /\ Len(path) >= 3 /\ path[3] = "open" -> Read
       [] OTHER -> IF last.won > mapc THEN 0 ELSE last.dfl[last.won]

-----------------------------------------------------------------------------
(* Properties.                                                             *)

\* Where the two may be compared: access.c does not fail, archgroupd adds no
\* group, there is a map for Arch_full, without which access.c takes a junior
\* arch's level for 0, and the path does not name the list of groups.
Comparable(specific) ==
  /\ MudDefined(specific)
  /\ AddedGroups(specific) = <<>>
  /\ HasMap("Arch_full")
  /\ \A k \in DOMAIN path : path[k] # GroupKey

\* authorizer.go:84, "a direct port of access.c _get_access": the daemon
\* allows an operation at exactly the levels at which the MUD does.
MatchesMud ==
  \A specific \in ArchGroupd :
    pc = "done" /\ Comparable(specific)
      => perm = IF GetAccess(specific) < Read THEN Revoked ELSE GetAccess(specific)
=============================================================================
