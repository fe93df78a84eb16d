------------------------------- MODULE Delivery -------------------------------
(***************************************************************************)
(* What Stream.Conversations promises to its processor, without the        *)
(* goroutines: pages arrive one at a time, each after the pages it depends *)
(* on; a nil return comes only when all that was asked for has arrived or  *)
(* was skipped as not found, and after it nothing arrives.                 *)
(***************************************************************************)
EXTENDS Integers

CONSTANTS
  Items,        \* the pages that may be delivered
  DependsOn,    \* DependsOn[i]: sets of pages; one of the sets precedes i
  Units,        \* sets of pages that a link stands for
  MayFail,      \* failures may happen
  MaySkip       \* a link may be skipped as a whole

VARIABLES delivered, outcome

vars == <<delivered, outcome>>

Init == delivered = {} /\ outcome = "run"

Deliver(i) ==
  /\ outcome # "ok"
  /\ \E d \in DependsOn[i] : d \subseteq delivered
  /\ delivered' = delivered \cup {i}
  /\ UNCHANGED outcome

Succeed ==
  /\ outcome = "run"
  /\ \A u \in Units : u \subseteq delivered \/ MaySkip
  /\ outcome' = "ok"
  /\ UNCHANGED delivered

Fail ==
  /\ outcome = "run" /\ MayFail
  /\ outcome' = "failed"
  /\ UNCHANGED delivered

Next == (\E i \in Items : Deliver(i)) \/ Succeed \/ Fail

Spec == Init /\ [][Next]_vars
=============================================================================
