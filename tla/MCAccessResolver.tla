-------------------------- MODULE MCAccessResolver --------------------------
(***************************************************************************)
(* Access maps, users and paths on which AccessResolver is checked.         *)
(***************************************************************************)
EXTENDS MudAccess

\* The walk: three components of one name, so that a map left behind would
\* find entries where it is; a user's map and the default map of every shape.
Deep == <<"a", "a", "a">>
Below(n) == SubSeq(Deep, 1, n)

Branches == {Branch(s, d) : s \in {Revoked, 0, Read}, d \in {0, Write}}
Ends == {Absent, Leaf(Revoked), Leaf(Write)}

\* Entries at the three depths; there is nothing below what is no branch.
Chains(branches) ==
  {c \in (Ends \union branches) \X (Ends \union branches) \X (Ends \union branches) :
     \A k \in 1 .. 2 : c[k] \notin branches => c[k + 1] = Absent}

WalkTree(s, c) ==
  [p \in {Below(n) : n \in 0 .. 3} |-> IF p = <<>> THEN Branch(s, 0) ELSE c[Len(p)]]

OwnWalkTrees ==
  {WalkTree(s, c) : s \in {Revoked, 0, Read}, c \in Chains(Branches)}

\* The map consulted last needs less variety.
DefaultWalkTrees ==
  {WalkTree(s, c) : s \in {0, Read}, c \in Chains({Branch(0, 0), Branch(Read, 0)})}

\* No group is the user's, but there is a map for Arch_full.
WalkGroups ==
  [g \in Group |-> IF g = "Arch_full" THEN WalkTree(0, <<Absent, Absent, Absent>>) ELSE NoTree]

Walks ==
  [own |-> OwnWalkTrees, groups |-> {WalkGroups}, default |-> DefaultWalkTrees,
   memberships |-> {<<>>}, levels |-> {31}, paths |-> {Deep}]

-----------------------------------------------------------------------------
\* The rules: who is an arch, whose home it is, what is open, and which maps
\* there are, with trees that say little, and a list of groups in some of the
\* users' own.
Names == {"players", "frogo", "aedil", "open", "log", GroupKey}

RulePaths ==
  {<<>>, <<GroupKey>>, <<GroupKey, "log">>,
   <<"log">>, <<"players">>, <<"players", "frogo">>,
   <<"players", "frogo", "open">>, <<"players", "aedil", "open">>,
   <<"players", "aedil", "open", "log">>, <<"players", "aedil", "log">>}

\* Every node that can be looked up, from where the walk is or from behind it.
RuleNodes ==
  UNION {{SubSeq(p, 1, n) : n \in 0 .. Len(p)} : p \in RulePaths}
    \union {<<n>> : n \in Names}
    \union {<<"players", n>> : n \in Names}

RuleTree(s, players, home) ==
  [p \in RuleNodes |->
     CASE p = <<>> -> Branch(s, 0)
       [] p = <<"players">> -> players
       [] p = <<"players", "frogo">> /\ players.kind = "branch" -> home
       [] OTHER -> Absent]

OwnRuleTrees ==
  {NoTree} \union
  {RuleTree(s, t, h) : s \in {Revoked, 0, Read},
                       t \in {Absent, Leaf(Write), Branch(0, 0), Branch(Revoked, Read)},
                       h \in {Absent, Leaf(Revoked)}}

ListedRuleTrees ==
  {[RuleTree(s, t, Absent) EXCEPT ![<<GroupKey>>] = GroupList] :
     s \in {Revoked, 0}, t \in {Absent, Leaf(Write), Branch(Revoked, Read)}}

OtherRuleTrees ==
  {NoTree} \union
  {RuleTree(s, t, Absent) : s \in {0, GrantGrant}, t \in {Absent, Leaf(Read)}}

DefaultRuleTrees ==
  {NoTree} \union {RuleTree(s, Absent, Absent) : s \in {0, Read}}

Rules ==
  [own |-> OwnRuleTrees \union ListedRuleTrees,
   groups |-> [Group -> OtherRuleTrees], default |-> DefaultRuleTrees,
   memberships |-> {<<>>, <<"Wiz_domain">>, <<"Wiz_domain", "Arch_junior">>},
   levels |-> {NoCharacter, 31, JuniorArch, Elder, ArchWizard},
   paths |-> RulePaths]

\* The user is in archgroupd, or is not.
MCArchGroupd == {<<>>, <<"Arch_junior">>}

MCSituations == {Walks, Rules}
=============================================================================
