--------------------------- MODULE SerialRegistry ---------------------------
(***************************************************************************)
(* What the registries promise their clients: every request is served, in  *)
(* each collection it is about, at one instant, on the whole collection as *)
(* it is at that instant, and its answer tells what it did.  A request     *)
(* that fails, or that the end of the process overtakes, leaves no trace.  *)
(*                                                                         *)
(* One weakness is promised too: a request that cannot read the file takes *)
(* the collection to be empty.                                             *)
(***************************************************************************)
CONSTANTS Names,            \* the collections
          Requests,
          Asks,             \* what the requests may ask for
          Stores,           \* what a collection may hold
          Empty,
          Outcome(_, _, _, _)  \* request, input, collection, what it holds ->
                               \*   [saves, items: held afterwards, answer]

VARIABLES items,            \* collection -> what it holds
          ask,              \* request -> its input
          blind,            \* <<r, c>>: r could not read the file of c
          answer            \* request -> collection -> its answer

rvars == <<items, ask, blind, answer>>

None == [is |-> "none"]
Error == [is |-> "error"]
Lost == [is |-> "lost"]

Init ==
  /\ items \in [Names -> Stores] /\ ask \in Asks
  /\ blind = {} /\ answer = [r \in Requests |-> [c \in Names |-> None]]

GoBlind(r, c) ==
  /\ answer[r][c] = None /\ blind' = blind \cup {<<r, c>>}
  /\ UNCHANGED <<items, ask, answer>>

Serve(r, c) ==
  LET out == Outcome(r, ask[r], c, IF <<r, c>> \in blind THEN Empty ELSE items[c]) IN
  /\ answer[r][c] = None
  /\ answer' = [answer EXCEPT ![r][c] = out.answer]
  /\ items' = IF out.saves THEN [items EXCEPT ![c] = out.items] ELSE items
  /\ UNCHANGED <<ask, blind>>

Fail(r, c) ==
  /\ answer[r][c] = None /\ answer' = [answer EXCEPT ![r][c] = Error]
  /\ UNCHANGED <<items, ask, blind>>

\* The process ends: these are never answered.
Lose(S) ==
  /\ \A j \in S : answer[j[1]][j[2]] = None
  /\ answer' = [r \in Requests |-> [c \in Names |->
       IF <<r, c>> \in S THEN Lost ELSE answer[r][c]]]
  /\ UNCHANGED <<items, ask, blind>>

Next ==
  \/ \E r \in Requests, c \in Names : GoBlind(r, c) \/ Serve(r, c) \/ Fail(r, c)
  \/ \E S \in SUBSET (Requests \X Names) : Lose(S)

Spec == Init /\ [][Next]_rvars
=============================================================================
