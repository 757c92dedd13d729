---------------------------- MODULE SerialStore ----------------------------
(***************************************************************************)
(* What a store with concurrent updates promises: each update takes effect *)
(* at one instant, on the whole document as it is at that instant, or is   *)
(* rejected and leaves no trace.                                           *)
(*                                                                         *)
(* Two weaknesses are promised too.  An update that cannot read the        *)
(* document takes it to be empty.  And as long as somebody who found it    *)
(* damaged is not done with it, it may be given up for an empty one, and   *)
(* an update may still write what it was before.                           *)
(***************************************************************************)
CONSTANTS Updates,
          Documents,
          Empty,
          Effects(_, _)   \* update, document -> the documents it may leave

VARIABLES doc,
          damaged,        \* somebody finds, or found, the document damaged
          basis,          \* update -> the document it takes for the current one
          outcome         \* update -> "none", "stored" or "rejected"

svars == <<doc, damaged, basis, outcome>>

Current == [is |-> "current"]

Init ==
  /\ doc \in Documents /\ damaged \in BOOLEAN
  /\ basis = [u \in Updates |-> Current]
  /\ outcome = [u \in Updates |-> "none"]

TakenFor(u) == IF basis[u] = Current THEN doc ELSE basis[u]

Misread(u) ==
  /\ outcome[u] = "none"
  /\ basis' = [basis EXCEPT ![u] = Empty]
  /\ UNCHANGED <<doc, damaged, outcome>>

Commit(u) ==
  /\ outcome[u] = "none"
  /\ doc' \in Effects(u, TakenFor(u))
  /\ outcome' = [outcome EXCEPT ![u] = "stored"]
  /\ basis' = [basis EXCEPT ![u] = Current]
  /\ damaged' \in {damaged, FALSE}

\* Several at once when the process ends; the store is then opened anew.
Reject(S) ==
  /\ \A u \in S : outcome[u] = "none"
  /\ outcome' = [u \in Updates |-> IF u \in S THEN "rejected" ELSE outcome[u]]
  /\ basis' = [u \in Updates |-> IF u \in S THEN Current ELSE basis[u]]
  /\ damaged' \in {damaged, FALSE}
  /\ UNCHANGED doc

GiveUp ==
  /\ damaged /\ doc' \in {doc, Empty} /\ damaged' \in BOOLEAN
  /\ basis' \in [Updates -> Documents \cup {Current}]
  /\ \A u \in Updates : basis'[u] \in {Current, TakenFor(u)}
  /\ UNCHANGED outcome

Next ==
  \/ GiveUp
  \/ \E u \in Updates : Misread(u) \/ Commit(u)
  \/ \E S \in SUBSET Updates : Reject(S)

Spec == Init /\ [][Next]_svars
=============================================================================
