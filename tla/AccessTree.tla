----------------------------- MODULE AccessTree -----------------------------
(***************************************************************************)
(* The trees of access.o's access_map, as pkg/authorization walks them and  *)
(* as the MUD's resources/access.c does.                                   *)
(*                                                                         *)
(* A tree is a function from paths below its root, sequences of components, *)
(* to the entries found there.  An entry is absent, a leaf with a level, a  *)
(* branch with a "*" and a "." level of its own, 0 where it has none, or,   *)
(* under the key "?", a list of groups.  The root, <<>>, is a branch.       *)
(***************************************************************************)
EXTENDS Integers, Sequences

\* types.go: the permissions.  0 is no permission: what a missing key reads as.
Revoked == -1
Read == 1
GrantRead == 2
Write == 3
GrantWrite == 4
GrantGrant == 5

Permission == {Revoked} \union Read .. GrantGrant
Level == Permission \union {0}

Absent == [kind |-> "absent", level |-> 0, star |-> 0, dot |-> 0]
Leaf(l) == [kind |-> "leaf", level |-> l, star |-> 0, dot |-> 0]
Branch(s, d) == [kind |-> "branch", level |-> 0, star |-> s, dot |-> d]

\* A list of groups.  It is no level: read as one, it is 0.  Which groups it
\* holds matters in a user's own map only (AccessResolver's explicit).
GroupList == [kind |-> "list", level |-> 0, star |-> 0, dot |-> 0]
GroupKey == "?"

Entry ==
  {Absent, GroupList} \union {Leaf(l) : l \in Permission}
                      \union {Branch(s, d) : s \in Level, d \in Level}

\* The level of users/types.go that make a wizard an arch.
JuniorArch == 40
Elder == 42
ArchWizard == 45

\* The level of a user whose character file cannot be loaded.
NoCharacter == -1

\* The first of two levels that decides.
Or(l, m) == IF l # 0 THEN l ELSE m
=============================================================================
