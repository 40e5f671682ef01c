--------------------------- MODULE AccessService ---------------------------
(***************************************************************************)
(* What pkg/authorization promises its callers, without saying how: every   *)
(* permission request is answered from one version of the MUD's access.o    *)
(* that was valid and was not replaced too long before the request was      *)
(* made, or it is denied.  AccessCache implements this specification.       *)
(***************************************************************************)
EXTENDS Integers, Sequences

CONSTANTS
  Proc,      \* the goroutines that ask for permissions
  Window     \* how long a replaced version may still decide requests

VARIABLES
  now,       \* the clock
  saves,     \* every state access.o has been in: when it began, is it usable
  request,   \* request[p]: "idle", "busy" or "done"
  asked,     \* asked[p]: when p's request was made
  answer     \* answer[p]: the version that decided p's request, or Denied

vars == <<now, saves, request, asked, answer>>

Denied == 0

Init ==
  /\ now = 0
  /\ saves \in {<<[at |-> 0, valid |-> b]>> : b \in BOOLEAN}
  /\ request = [p \in Proc |-> "idle"]
  /\ asked = [p \in Proc |-> 0]
  /\ answer = [p \in Proc |-> Denied]

\* Version v was still in the file less than Window before time t.
Fresh(v, t) == v = Len(saves) \/ saves[v + 1].at + Window > t

Ask(p) ==
  /\ request[p] # "busy"
  /\ request' = [request EXCEPT ![p] = "busy"]
  /\ asked' = [asked EXCEPT ![p] = now]
  /\ answer' = [answer EXCEPT ![p] = Denied]
  /\ UNCHANGED <<now, saves>>

Answer(p) ==
  /\ request[p] = "busy"
  /\ request' = [request EXCEPT ![p] = "done"]
  /\ \/ UNCHANGED answer
     \/ \E v \in DOMAIN saves :
          /\ saves[v].valid
          /\ Fresh(v, asked[p])
          /\ answer' = [answer EXCEPT ![p] = v]
  /\ UNCHANGED <<now, saves, asked>>

Save ==
  /\ \E b \in BOOLEAN : saves' = Append(saves, [at |-> now, valid |-> b])
  /\ UNCHANGED <<now, request, asked, answer>>

Tick ==
  /\ now' = now + 1
  /\ UNCHANGED <<saves, request, asked, answer>>

Next == Save \/ Tick \/ \E p \in Proc : Ask(p) \/ Answer(p)

Spec == Init /\ [][Next]_vars
=============================================================================
