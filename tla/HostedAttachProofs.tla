------------------------- MODULE HostedAttachProofs -------------------------
(***************************************************************************)
(* Theorems about the Hosted tab, for any number of sessions, panels,      *)
(* clicks and failures.                                                    *)
(*                                                                         *)
(* What makes them inductive: what calls, frames and the record on screen  *)
(* say of a session stays true, as sessions only move from unmade to live  *)
(* to ended (FactsInv); a panel waits for one call of a kind (UniqueInv);  *)
(* each attachment the daemon keeps is that of the selected session, or    *)
(* lost sight of, or some call on the way accounts for it (CoverInv); and  *)
(* the selected session stays attached: a detach that would undo it comes  *)
(* before an attach that renews it (ClaimInv).                             *)
(***************************************************************************)
EXTENDS HostedAttach, SeqFacts, FiniteSetTheorems

\* What one call says of the session it names.
CallOK(c, lives) ==
  /\ c.leave => c.kind = "detach"
  /\ c.kind = "detach" /\ c.phase = "served" => c.leave
  /\ c.current => c.kind = "attach"
  /\ (c.kind = "create" /\ c.phase # "served") <=> lives[c.id] = "unmade"
  /\ c.ended \/ (c.kind = "kill" /\ c.phase = "served") => lives[c.id] = "ended"

\* What a record says of its session.
RecordOK(r, lives) ==
  /\ lives[r.id] # "unmade"
  /\ r.ended => lives[r.id] = "ended"

\* What is under way, listed or shown is true of the sessions.
FactsInv ==
  /\ \A k \in DOMAIN calls : CallOK(calls[k], life)
  /\ \A i \in DOMAIN frames : RecordOK(frames[i], life)
  /\ \A s \in listed \cup coming : life[s] = "ended"
  /\ shown # Nothing => /\ mounted /\ RecordOK(shown, life)
                        /\ shown.id = Selected \/ shown.ended

\* A panel selects a session that was made, and none before it is mounted.
SelInv == \A p \in Panels : /\ p > panel => sel[p] = No
                            /\ sel[p] # No => life[sel[p]] # "unmade"

\* At most one call of each kind the panel waits for.
Same(c, d) ==
  /\ c.kind = d.kind
  /\ \/ c.kind = "create"
     \/ /\ c.kind = "kill" \/ (c.kind = "attach" /\ c.current /\ d.current)
        /\ c.panel = d.panel /\ c.phase # "lost" /\ d.phase # "lost"
Unique(cs) == \A j, k \in DOMAIN cs : Same(cs[j], cs[k]) => j = k

\* A call on the way that accounts for an attachment to s.
Accounts(c, s) ==
  /\ c.id = s
  /\ \/ c.kind = "attach"
     \/ c.kind = "detach" /\ ~c.leave
     \/ c.kind = "create" /\ (OnScreen(c.panel) \/ s # sel[c.panel])

\* Every attachment the daemon keeps is wanted, known to be lost, or under way.
CoverInv ==
  /\ \A s \in attached : \/ s = Selected \/ s \in stranded
                         \/ \E k \in DOMAIN calls : Accounts(calls[k], s)
  /\ \A k \in DOMAIN calls :
       calls[k].kind \in {"attach", "create"} /\ calls[k].phase = "lost" => calls[k].id \in stranded

\* The attach panel p waits for, to session s.
Holds(c, s, p) == c.kind = "attach" /\ c.id = s /\ c.panel = p /\ c.current /\ c.phase = "sent"

\* The detach of panel p's Leave button.
Leaves(c, p) == c.leave /\ c.panel = p /\ c.phase # "lost"

\* A detach of session s that is still to be served.
Undoes(c, s) == c.kind = "detach" /\ c.id = s /\ c.phase # "served"

\* Whatever detaches s comes before an attach that is waited for, or is a Leave.
Guarded(cs, s, p) ==
  \A j \in DOMAIN cs : Undoes(cs[j], s) =>
     Leaves(cs[j], p) \/ \E k \in DOMAIN cs : k > j /\ Holds(cs[k], s, p)

\* The selected session is attached, or will be, as long as nobody cut it off.
ClaimInv ==
  Selected # No /\ Selected \notin cutOff =>
    /\ Guarded(calls, Selected, panel)
    /\ life[Selected] = "live" => 
         \/ Selected \in attached
         \/ \E k \in DOMAIN calls : Holds(calls[k], Selected, panel) \/ Leaves(calls[k], panel)

\* No two calls a panel waits for are of a kind.
UniqueInv == Unique(calls)

\* The calls the panel makes are calls.
LEMMA CallTyped ==
  ASSUME NEW kind \in {"attach", "detach", "create", "kill"}, NEW s \in Sessions, NEW p \in Panels
  PROVE  /\ Call(kind, s, p) \in Calls
         /\ [Call(kind, s, p) EXCEPT !.leave = TRUE] \in Calls
  BY DEF Call, Calls

\* One call less: the others are what they were, in the order they were in.
LEMMA RemovedCalls ==
  ASSUME NEW cs \in Seq(Calls), NEW k \in DOMAIN cs
  PROVE  LET rest == RemoveAt(cs, k) IN
         /\ rest \in Seq(Calls)
         /\ \A i \in DOMAIN rest : \E j \in DOMAIN cs \ {k} : rest[i] = cs[j]
         /\ \A j \in DOMAIN cs \ {k} : \E i \in DOMAIN rest : rest[i] = cs[j]
         /\ Unique(cs) => Unique(rest)
         /\ \A x, p : /\ Guarded(cs, x, p)
                      /\ Holds(cs[k], x, p) => \A j \in DOMAIN cs : j < k => ~Undoes(cs[j], x)
                      => Guarded(rest, x, p)
<1> DEFINE rest == RemoveAt(cs, k)
           Old(i) == IF i < k THEN i ELSE i + 1
           New(j) == IF j < k THEN j ELSE j - 1
<1>1. DOMAIN cs = 1..Len(cs) /\ k \in 1..Len(cs) /\ Len(cs) \in Nat
  OBVIOUS
<1>2. /\ rest \in Seq(Calls) /\ Len(rest) = Len(cs) - 1
      /\ \A i \in 1..(Len(cs) - 1) : rest[i] = cs[Old(i)]
  BY <1>1, RemoveFacts
<1>3. /\ DOMAIN cs = 1..Len(cs) /\ k \in 1..Len(cs) /\ Len(cs) \in Nat
      /\ rest \in Seq(Calls) /\ Len(rest) = Len(cs) - 1 /\ DOMAIN rest = 1..(Len(cs) - 1)
      /\ \A i \in 1..(Len(cs) - 1) : rest[i] = cs[Old(i)]
  BY <1>1, <1>2
<1> HIDE DEF rest
<1>4. \A i \in DOMAIN rest : Old(i) \in DOMAIN cs /\ Old(i) # k /\ rest[i] = cs[Old(i)]
  BY <1>3
<1>5. \A j \in DOMAIN cs : j # k => New(j) \in DOMAIN rest /\ rest[New(j)] = cs[j]
  BY <1>3
<1>6. \A i, j \in DOMAIN rest : /\ Old(i) = Old(j) => i = j
                                /\ i < j <=> Old(i) < Old(j)
  BY <1>3
<1>7. \A i \in DOMAIN rest, j \in DOMAIN cs : j # k /\ j > Old(i) => New(j) > i
  BY <1>3
<1>8. Unique(cs) => Unique(rest)
  BY <1>4, <1>6 DEF Unique
<1>9. ASSUME NEW x, NEW p, Guarded(cs, x, p),
             Holds(cs[k], x, p) => \A j \in DOMAIN cs : j < k => ~Undoes(cs[j], x)
      PROVE  Guarded(rest, x, p)
  <2> SUFFICES ASSUME NEW i \in DOMAIN rest, Undoes(rest[i], x), ~Leaves(rest[i], p)
               PROVE  \E j \in DOMAIN rest : j > i /\ Holds(rest[j], x, p)
    BY DEF Guarded
  <2>1. PICK j \in DOMAIN cs : j > Old(i) /\ Holds(cs[j], x, p)
    BY <1>4, <1>9 DEF Guarded
  <2>2. j # k
    BY <1>3, <1>4, <1>9, <2>1
  <2>3. QED
    BY <1>5, <1>7, <2>1, <2>2
<1>10. QED
  BY <1>3, <1>4, <1>5, <1>8, <1>9 DEF rest

\* One call changes: it may cease to be waited for, and to undo.
LEMMA ChangedCalls ==
  ASSUME NEW cs \in Seq(Calls), NEW k \in DOMAIN cs, NEW c \in Calls
  PROVE  LET new == [cs EXCEPT ![k] = c] IN
         /\ new \in Seq(Calls) /\ DOMAIN new = DOMAIN cs
         /\ new[k] = c /\ \A j \in DOMAIN cs \ {k} : new[j] = cs[j]
         /\ Unique(cs) /\ (\A d : Same(c, d) \/ Same(d, c) => Same(cs[k], d)) => Unique(new)
         /\ \A x, p : /\ Guarded(cs, x, p)
                      /\ Holds(cs[k], x, p) => \A j \in DOMAIN cs : j < k => ~Undoes(cs[j], x)
                      /\ Undoes(c, x) => Undoes(cs[k], x) /\ (Leaves(cs[k], p) => Leaves(c, p))
                      => Guarded(new, x, p)
<1> DEFINE new == [cs EXCEPT ![k] = c]
<1>1. /\ new \in Seq(Calls) /\ DOMAIN new = DOMAIN cs /\ DOMAIN cs = 1..Len(cs) /\ Len(cs) \in Nat
      /\ new[k] = c /\ \A j \in DOMAIN cs \ {k} : new[j] = cs[j]
  OBVIOUS
<1> HIDE DEF new
<1>2. ASSUME Unique(cs), \A d : Same(c, d) \/ Same(d, c) => Same(cs[k], d)
      PROVE  Unique(new)
  <2> SUFFICES ASSUME NEW i \in DOMAIN cs, NEW j \in DOMAIN cs, Same(new[i], new[j])
               PROVE  i = j
    BY <1>1 DEF Unique
  <2>1. CASE i = k /\ j # k
    BY <1>1, <1>2, <2>1 DEF Unique
  <2>2. CASE i # k /\ j = k
    BY <1>1, <1>2, <2>2 DEF Unique
  <2>3. CASE i # k /\ j # k
    BY <1>1, <1>2, <2>3 DEF Unique
  <2>4. QED
    BY <2>1, <2>2, <2>3
<1>3. ASSUME NEW x, NEW p, Guarded(cs, x, p),
             Holds(cs[k], x, p) => \A j \in DOMAIN cs : j < k => ~Undoes(cs[j], x),
             Undoes(c, x) => Undoes(cs[k], x) /\ (Leaves(cs[k], p) => Leaves(c, p))
      PROVE  Guarded(new, x, p)
  <2> SUFFICES ASSUME NEW i \in DOMAIN cs, Undoes(new[i], x), ~Leaves(new[i], p)
               PROVE  \E j \in DOMAIN cs : j > i /\ Holds(new[j], x, p)
    BY <1>1 DEF Guarded
  <2>1. Undoes(cs[i], x) /\ ~Leaves(cs[i], p)
    BY <1>1, <1>3
  <2>2. PICK j \in DOMAIN cs : j > i /\ Holds(cs[j], x, p)
    BY <1>3, <2>1 DEF Guarded
  <2>3. j # k
    BY <1>3, <2>1, <2>2, <1>1
  <2>4. QED
    BY <1>1, <2>2, <2>3
<1>4. QED
  BY <1>1, <1>2, <1>3 DEF new

\* One call more, behind the others.
LEMMA AddedCalls ==
  ASSUME NEW cs \in Seq(Calls), NEW c \in Calls
  PROVE  LET new == Append(cs, c) IN
         /\ new \in Seq(Calls)
         /\ \A i \in DOMAIN new : new[i] = c \/ \E j \in DOMAIN cs : new[i] = cs[j]
         /\ \A j \in DOMAIN cs : j \in DOMAIN new /\ new[j] = cs[j]
         /\ \E i \in DOMAIN new : new[i] = c
         /\ Unique(cs) /\ (\A j \in DOMAIN cs : ~Same(cs[j], c) /\ ~Same(c, cs[j])) => Unique(new)
         /\ \A x, p : Guarded(cs, x, p) /\ (Undoes(c, x) => Leaves(c, p)) => Guarded(new, x, p)
         /\ \A x, p : Holds(c, x, p) => Guarded(new, x, p)
<1> DEFINE new == Append(cs, c)
<1>1. /\ new \in Seq(Calls) /\ Len(cs) \in Nat /\ DOMAIN cs = 1..Len(cs)
      /\ DOMAIN new = 1..(Len(cs) + 1)
      /\ new[Len(cs) + 1] = c /\ \A j \in DOMAIN cs : new[j] = cs[j]
  BY AppendFacts
<1> HIDE DEF new
<1>2. \A i \in DOMAIN new : i \in DOMAIN cs \/ i = Len(cs) + 1
  BY <1>1
<1>3. \A j \in DOMAIN cs : j \in DOMAIN new /\ j < Len(cs) + 1
  BY <1>1
<1>4. Len(cs) + 1 \in DOMAIN new
  BY <1>1
<1>5. ASSUME Unique(cs), \A j \in DOMAIN cs : ~Same(cs[j], c) /\ ~Same(c, cs[j])
      PROVE  Unique(new)
  BY <1>1, <1>2, <1>5 DEF Unique
<1>6. ASSUME NEW x, NEW p, Guarded(cs, x, p), Undoes(c, x) => Leaves(c, p)
      PROVE  Guarded(new, x, p)
  BY <1>1, <1>2, <1>3, <1>6 DEF Guarded
<1>7. ASSUME NEW x, NEW p, Holds(c, x, p)
      PROVE  Guarded(new, x, p)
  <2>1. ~Undoes(c, x)
    BY <1>7 DEF Holds, Undoes
  <2>2. QED
    BY <1>1, <1>2, <1>3, <1>4, <1>7, <2>1 DEF Guarded
<1>8. QED
  BY <1>1, <1>2, <1>3, <1>4, <1>5, <1>6, <1>7 DEF new

\* A call that is superseded by a later attach of its panel.
Superseded(c, p) == [c EXCEPT !.current = @ /\ c.panel # p]

\* What selectSession makes of the calls.
Reselected(rest, previous, s, p) ==
  [k \in DOMAIN rest |-> [rest[k] EXCEPT !.current = @ /\ rest[k].panel # p]]
    \o (IF previous = No THEN <<>> ELSE <<Call("detach", previous, p)>>)
    \o <<Call("attach", s, p)>>

\* The calls after selectSession: the attach it sends is the one waited for, and
\* comes after whatever would undo it.
LEMMA SelectCalls ==
  ASSUME NEW rest \in Seq(Calls), NEW p \in Panels, NEW s \in Sessions,
         NEW previous \in Sessions \cup {No},
         Unique(rest), \A k \in DOMAIN rest : rest[k].current => rest[k].kind = "attach"
  PROVE  LET new == Reselected(rest, previous, s, p) IN
         /\ new \in Seq(Calls) /\ Unique(new)
         /\ \A i \in DOMAIN new :
                 \/ new[i] = Call("attach", s, p)
                 \/ previous # No /\ new[i] = Call("detach", previous, p)
                 \/ \E k \in DOMAIN rest : new[i] = Superseded(rest[k], p)
         /\ \A k \in DOMAIN rest : \E i \in DOMAIN new : new[i] = Superseded(rest[k], p)
         /\ \E i \in DOMAIN new : new[i] = Call("attach", s, p)
         /\ previous # No => \E i \in DOMAIN new : new[i] = Call("detach", previous, p)
         /\ Guarded(new, s, p)
         /\ \A x, q : q # p /\ x # previous /\ Guarded(rest, x, q) => Guarded(new, x, q)
<1> DEFINE old == [k \in DOMAIN rest |-> Superseded(rest[k], p)]
           attach == Call("attach", s, p)
           detach == Call("detach", previous, p)
           between == IF previous = No THEN old ELSE Append(old, detach)
           new == Append(between, attach)
<1>1. /\ old \in Seq(Calls) /\ DOMAIN old = DOMAIN rest
      /\ \A k \in DOMAIN rest : rest[k] \in Calls /\ old[k] = Superseded(rest[k], p)
  <2>1. \A k \in DOMAIN rest : rest[k] \in Calls /\ Superseded(rest[k], p) \in Calls
    <3>1. ASSUME NEW c \in Calls PROVE Superseded(c, p) \in Calls
      BY DEF Calls, Superseded
    <3>2. QED
      BY <3>1
  <2>2. QED
    BY <2>1
<1>2. attach \in Calls /\ (previous # No => detach \in Calls)
  BY CallTyped
<1> HIDE DEF old
<1>3. \A k \in DOMAIN rest :
        /\ old[k].kind = rest[k].kind /\ old[k].id = rest[k].id /\ old[k].panel = rest[k].panel
        /\ old[k].phase = rest[k].phase /\ old[k].leave = rest[k].leave
        /\ old[k].current <=> rest[k].current /\ rest[k].panel # p
  BY <1>1 DEF Superseded, Calls
<1>4. Unique(old)
  <2>1. \A j, k \in DOMAIN rest : Same(old[j], old[k]) => Same(rest[j], rest[k])
    BY <1>3 DEF Same
  <2>2. QED
    BY <1>1, <2>1 DEF Unique
<1>5. \A x, q : q # p /\ Guarded(rest, x, q) => Guarded(old, x, q)
  <2>1. ASSUME NEW x, NEW q, NEW k \in DOMAIN rest
        PROVE  /\ Undoes(old[k], x) <=> Undoes(rest[k], x)
               /\ Leaves(old[k], q) <=> Leaves(rest[k], q)
               /\ q # p => (Holds(old[k], x, q) <=> Holds(rest[k], x, q))
    BY <1>3 DEF Undoes, Leaves, Holds
  <2>2. QED
    BY <1>1, <2>1 DEF Guarded
<1>6. /\ between \in Seq(Calls) /\ Unique(between)
      /\ \A i \in DOMAIN between :
              \/ previous # No /\ between[i] = detach
              \/ \E k \in DOMAIN old : between[i] = old[k]
      /\ \A k \in DOMAIN old : \E i \in DOMAIN between : between[i] = old[k]
      /\ previous # No => \E i \in DOMAIN between : between[i] = detach
      /\ \A x, q : x # previous /\ Guarded(old, x, q) => Guarded(between, x, q)
  <2>1. CASE previous = No
    BY <1>1, <1>4, <2>1
  <2>2. CASE previous # No
    <3>1. \A j \in DOMAIN old : ~Same(old[j], detach) /\ ~Same(detach, old[j])
      BY DEF Same, Call
    <3>2. \A x : x # previous => ~Undoes(detach, x)
      BY DEF Undoes, Call
    <3> HIDE DEF detach
    <3>3. /\ Append(old, detach) \in Seq(Calls) /\ Unique(Append(old, detach))
          /\ \A i \in DOMAIN Append(old, detach) :
                  \/ Append(old, detach)[i] = detach
                  \/ \E k \in DOMAIN old : Append(old, detach)[i] = old[k]
          /\ \A k \in DOMAIN old : k \in DOMAIN Append(old, detach) /\ Append(old, detach)[k] = old[k]
          /\ \E i \in DOMAIN Append(old, detach) : Append(old, detach)[i] = detach
          /\ \A x, q : x # previous /\ Guarded(old, x, q) => Guarded(Append(old, detach), x, q)
      BY <1>1, <1>2, <1>4, <2>2, <3>1, <3>2, AddedCalls
    <3>4. QED
      BY <2>2, <3>3
  <2>3. QED
    BY <2>1, <2>2
<1>7. \A k \in DOMAIN old : ~Same(old[k], attach) /\ ~Same(attach, old[k])
  BY <1>1, <1>3 DEF Same, Call
<1>8. previous # No => ~Same(detach, attach) /\ ~Same(attach, detach)
  BY DEF Same, Call
<1>9. Holds(attach, s, p) /\ \A x : ~Undoes(attach, x)
  BY DEF Holds, Undoes, Call
<1> HIDE DEF between, attach, detach
<1>10. \A i \in DOMAIN between : ~Same(between[i], attach) /\ ~Same(attach, between[i])
  BY <1>6, <1>7, <1>8
<1>11. /\ new \in Seq(Calls) /\ Unique(new)
       /\ \A i \in DOMAIN new : new[i] = attach \/ \E j \in DOMAIN between : new[i] = between[j]
       /\ \A j \in DOMAIN between : j \in DOMAIN new /\ new[j] = between[j]
       /\ \E i \in DOMAIN new : new[i] = attach
       /\ \A x, q : Guarded(between, x, q) => Guarded(new, x, q)
       /\ Guarded(new, s, p)
  BY <1>2, <1>6, <1>9, <1>10, AddedCalls
<1>12. Reselected(rest, previous, s, p) = new
  <2>1. old = [k \in DOMAIN rest |-> [rest[k] EXCEPT !.current = @ /\ rest[k].panel # p]]
    BY DEF old, Superseded
  <2>2. old \o <<>> = old /\ (previous # No => old \o <<detach>> = Append(old, detach))
    BY <1>1, <1>2
  <2>3. between \o <<attach>> = new
    BY <1>2, <1>6
  <2>4. QED
    BY <2>1, <2>2, <2>3 DEF between, Reselected, attach, detach
<1> HIDE DEF new
<1>13. \A i \in DOMAIN new :
        \/ new[i] = attach
        \/ previous # No /\ new[i] = detach
        \/ \E k \in DOMAIN rest : new[i] = Superseded(rest[k], p)
  BY <1>1, <1>6, <1>11
<1>14. \A k \in DOMAIN rest : \E i \in DOMAIN new : new[i] = Superseded(rest[k], p)
  BY <1>1, <1>6, <1>11
<1>15. previous # No => \E i \in DOMAIN new : new[i] = detach
  BY <1>6, <1>11
<1>16. \A x, q : q # p /\ x # previous /\ Guarded(rest, x, q) => Guarded(new, x, q)
  BY <1>5, <1>6, <1>11
<1>17. QED
  BY <1>11, <1>12, <1>13, <1>16, <1>14, <1>15 DEF attach, detach

\* The types of the state, without what CoverInv and UniqueInv say of the calls.
Typed ==
  /\ life \in [Sessions -> {"unmade", "live", "ended"}]
  /\ attached \subseteq {s \in Sessions : life[s] = "live"}
  /\ calls \in Seq(Calls)
  /\ panel \in Panels /\ sel \in [Panels -> Sessions \cup {No}]
  /\ shown = Nothing \/ shown \in Records
  /\ {mounted, error, stream, include} \subseteq BOOLEAN
  /\ frames \in Seq(Records) /\ fetch \in {"none", "asked", "coming"}
  /\ UNION {listed, coming, stranded, cutOff} \subseteq Sessions

Inv == Typed /\ FactsInv /\ SelInv /\ UniqueInv /\ CoverInv /\ ClaimInv

\* A panel waits for one call of a kind.
LEMMA UniqueTyped == Typed /\ UniqueInv => TypeOK
<1> SUFFICES ASSUME Typed, UniqueInv PROVE TypeOK
  OBVIOUS
<1>1. ASSUME NEW p \in Panels, NEW kind \in {"attach", "kill", "create"}
      PROVE  Cardinality({k \in DOMAIN calls : /\ calls[k].kind = kind /\ calls[k].panel = p
                                               /\ calls[k].phase # "lost"
                                               /\ (kind = "attach" => calls[k].current)}) <= 1
  <2> DEFINE S == {k \in DOMAIN calls : /\ calls[k].kind = kind /\ calls[k].panel = p
                                        /\ calls[k].phase # "lost"
                                        /\ (kind = "attach" => calls[k].current)}
  <2>1. \A j, k \in S : j = k
    BY DEF UniqueInv, Unique, Same
  <2>2. CASE S = {}
    BY <2>2, FS_EmptySet
  <2>3. CASE S # {}
    <3>1. PICK x \in S : TRUE
      BY <2>3
    <3>2. S = {x}
      BY <2>1, <3>1
    <3>3. QED
      BY <3>2, FS_Singleton
  <2>4. QED
    BY <2>2, <2>3
<1>2. QED
  BY <1>1 DEF Typed, TypeOK

\* The invariant says what the properties say.
LEMMA InvSuffices == Inv => TypeOK /\ ShownIsSelected /\ AttachedToWhatIsShown
<1> SUFFICES ASSUME Inv PROVE TypeOK /\ ShownIsSelected /\ AttachedToWhatIsShown
  OBVIOUS
<1>1. TypeOK
  BY UniqueTyped DEF Inv
<1>2. ShownIsSelected
  BY DEF Inv, FactsInv, RecordOK, ShownIsSelected
<1>3. AttachedToWhatIsShown
  <2> SUFFICES ASSUME calls = <<>>
               PROVE  /\ attached \subseteq {Selected} \cup stranded
                      /\ Detail /\ ~shown.ended /\ shown.id = Selected /\ life[shown.id] = "live"
                           => shown.id \in attached \cup cutOff
    BY DEF AttachedToWhatIsShown
  <2>1. DOMAIN calls = {}
    OBVIOUS
  <2>2. attached \subseteq {Selected} \cup stranded
    BY <2>1 DEF Inv, CoverInv
  <2>3. ASSUME Detail, shown.id = Selected, life[shown.id] = "live"
        PROVE  shown.id \in attached \cup cutOff
    BY <2>1, <2>3 DEF Detail, Inv, ClaimInv
  <2>4. QED
    BY <2>2, <2>3
<1>4. QED
  BY <1>1, <1>2, <1>3

\* Nothing is under way at first.
LEMMA InvInit == Init => Inv
<1> SUFFICES ASSUME Init PROVE Inv
  OBVIOUS
<1> USE HostedAssumption
<1>1. calls \in Seq(Calls) /\ frames \in Seq(Records) /\ DOMAIN calls = {} /\ DOMAIN frames = {}
  BY DEF Init
<1>2. 1 \in Panels
  BY DEF Panels
<1>3. Typed
  BY <1>1, <1>2 DEF Init, Typed
<1>4. Selected = No
  BY <1>2 DEF Init, Selected
<1>5. FactsInv /\ SelInv /\ UniqueInv
  BY <1>1 DEF Init, FactsInv, SelInv, UniqueInv, Unique
<1>6. CoverInv /\ ClaimInv
  BY <1>1, <1>4 DEF Init, CoverInv, ClaimInv
<1>7. QED
  BY <1>3, <1>5, <1>6 DEF Inv

\* What a session may become.
Goes(from, to) == \/ to = from
                  \/ from = "unmade" /\ to = "live"
                  \/ from = "live" /\ to = "ended"

\* A step of every session.
GoesOn == \A s \in Sessions : Goes(life[s], life'[s])

\* What is known of a record outlives the changes of its session.
LEMMA RecordKeeps ==
  ASSUME Typed, GoesOn, NEW r \in Records, RecordOK(r, life)
  PROVE  RecordOK(r, life')
  BY DEF GoesOn, Goes, RecordOK, Records

\* A row of the list moves a record of its session forward.
LEMMA FreshenFacts ==
  ASSUME NEW r, r = Nothing \/ (r \in Records /\ RecordOK(r, life)),
         NEW ended, ended \subseteq Sessions, \A s \in ended : life[s] = "ended"
  PROVE  LET new == Freshen(r, ended) IN
         /\ new.id = r.id /\ (new = Nothing <=> r = Nothing)
         /\ r.ended => new.ended
         /\ new = Nothing \/ (new \in Records /\ RecordOK(new, life))
<1>1. CASE r = Nothing
  <2>1. r.id \notin ended
    BY <1>1, HostedAssumption DEF Nothing
  <2>2. QED
    BY <1>1, <2>1 DEF Freshen
<1>2. CASE r \in Records /\ RecordOK(r, life)
  <2>1. r.id \in Sessions /\ r.id # No /\ r # Nothing
    BY <1>2, HostedAssumption DEF Records, Nothing
  <2>2. CASE r.id \notin ended
    BY <1>2, <2>1, <2>2 DEF Freshen
  <2>3. CASE r.id \in ended
    <3> DEFINE new == [r EXCEPT !.ended = TRUE]
    <3>1. new \in Records /\ new.id = r.id /\ new.ended
      BY <1>2 DEF Records
    <3>2. new # Nothing /\ RecordOK(new, life)
      BY <2>1, <2>3, <3>1 DEF RecordOK, Nothing
    <3>3. QED
      BY <2>1, <2>3, <3>1, <3>2 DEF Freshen
  <2>4. QED
    BY <2>2, <2>3
<1>3. QED
  BY <1>1, <1>2

\* A record that is shown once the list had its say.
LEMMA ShowFacts ==
  ASSUME Inv, NEW r, r = Nothing \/ (r \in Records /\ RecordOK(r, life)), Show(r)
  PROVE  /\ shown'.id = r.id /\ (shown' = Nothing <=> r = Nothing)
         /\ r.ended => shown'.ended
         /\ shown' = Nothing \/ (shown' \in Records /\ RecordOK(shown', life))
<1>1. Rows \subseteq Sessions /\ \A s \in Rows : life[s] = "ended"
  BY DEF Inv, Typed, FactsInv, Rows
<1>2. QED
  BY <1>1, FreshenFacts DEF Show

\* Steps that touch neither the calls nor what they are about.
LEMMA QuietKeeps ==
  ASSUME Inv, Typed', FactsInv',
         UNCHANGED <<daemonVars, calls, panel, mounted, sel, marks>>
  PROVE  Inv'
<1> USE DEF daemonVars, marks
<1>1. Selected' = Selected /\ \A p : OnScreen(p)' <=> OnScreen(p)
  BY DEF Selected, OnScreen
<1>2. SelInv' /\ UniqueInv'
  BY DEF Inv, SelInv, UniqueInv
<1>3. CoverInv'
  BY <1>1 DEF Inv, CoverInv, Accounts
<1>4. ClaimInv'
  BY <1>1 DEF Inv, ClaimInv
<1>5. QED
  BY <1>2, <1>3, <1>4 DEF Inv

\* The list comes, or is shown or hidden.
LEMMA ListKeeps ==
  ASSUME Inv, Toggle \/ Poll \/ FetchServed \/ FetchArrives
  PROVE  Inv'
<1> USE DEF uiVars, streamVars, listVars
<1>1. UNCHANGED <<daemonVars, calls, panel, mounted, sel, marks, error, streamVars>>
  BY DEF Toggle, Poll, FetchServed, FetchArrives
<1>2. /\ include' \in BOOLEAN /\ fetch' \in {"none", "asked", "coming"}
      /\ listed' \cup coming' \subseteq Sessions
      /\ \A s \in listed' \cup coming' : life[s] = "ended"
  BY DEF Toggle, Poll, FetchServed, FetchArrives, Inv, Typed, FactsInv
<1>3. shown = Nothing \/ (shown \in Records /\ RecordOK(shown, life))
  <2>1. shown = Nothing \/ shown \in Records
    BY DEF Inv, Typed
  <2>2. shown # Nothing => RecordOK(shown, life)
    BY DEF Inv, FactsInv
  <2>3. QED
    BY <2>1, <2>2
<1>4. /\ shown'.id = shown.id /\ (shown' = Nothing <=> shown = Nothing)
      /\ shown.ended => shown'.ended
      /\ shown' = Nothing \/ (shown' \in Records /\ RecordOK(shown', life))
  <2>1. CASE Toggle
    <3>1. (IF include' THEN listed ELSE {}) \subseteq Sessions
          /\ \A s \in (IF include' THEN listed ELSE {}) : life[s] = "ended"
      BY DEF Inv, Typed, FactsInv
    <3>2. shown' = Freshen(shown, IF include' THEN listed ELSE {})
      BY <2>1 DEF Toggle
    <3>3. QED
      BY <1>3, <3>1, <3>2, FreshenFacts
  <2>2. CASE FetchArrives
    <3>1. (IF include THEN coming ELSE {}) \subseteq Sessions
          /\ \A s \in (IF include THEN coming ELSE {}) : life[s] = "ended"
      BY DEF Inv, Typed, FactsInv
    <3>2. shown' = Freshen(shown, IF include THEN coming ELSE {})
      BY <2>2 DEF FetchArrives
    <3>3. QED
      BY <1>3, <3>1, <3>2, FreshenFacts
  <2>3. CASE Poll \/ FetchServed
    BY <1>3, <2>3 DEF Poll, FetchServed
  <2>4. QED
    BY <2>1, <2>2, <2>3
<1>5. Typed'
  BY <1>1, <1>2, <1>4 DEF Inv, Typed, daemonVars, marks
<1>6. FactsInv'
  <2>1. Selected' = Selected
    BY <1>1 DEF Selected
  <2>2. shown' # Nothing => mounted' /\ RecordOK(shown', life')
                            /\ (shown'.id = Selected' \/ shown'.ended)
    BY <1>1, <1>4, <2>1 DEF Inv, FactsInv, daemonVars
  <2>3. QED
    BY <1>1, <1>2, <2>2 DEF Inv, FactsInv, daemonVars
<1>7. QED
  BY <1>1, <1>5, <1>6, QuietKeeps

\* The event stream comes and goes.
LEMMA StreamKeeps ==
  ASSUME Inv, StreamReady \/ StreamBreaks
  PROVE  Inv'
<1> USE DEF uiVars, streamVars, listVars
<1>1. UNCHANGED <<daemonVars, calls, uiVars, listVars, marks>> /\ stream' \in BOOLEAN
  BY DEF StreamReady, StreamBreaks
<1>2. frames' = frames \/ frames' = <<>>
  BY DEF StreamReady, StreamBreaks
<1>3. frames' \in Seq(Records) /\ \A i \in DOMAIN frames' : RecordOK(frames'[i], life)
  <2>1. CASE frames' = frames
    BY <2>1 DEF Inv, Typed, FactsInv
  <2>2. CASE frames' = <<>>
    BY <2>2
  <2>3. QED
    BY <1>2, <2>1, <2>2
<1>4. Typed'
  BY <1>1, <1>3 DEF Inv, Typed, daemonVars, marks
<1>5. FactsInv'
  BY <1>1, <1>3 DEF Inv, FactsInv, daemonVars, Selected
<1>6. QED
  BY <1>1, <1>4, <1>5, QuietKeeps

\* A frame of the selected session is shown.
LEMMA FrameKeeps ==
  ASSUME Inv, FrameArrives
  PROVE  Inv'
<1>1. /\ UNCHANGED <<daemonVars, calls, panel, mounted, sel, error, stream, include, listed, coming, marks>>
      /\ frames # <<>> /\ frames' = Tail(frames) /\ frames \in Seq(Records)
      /\ fetch' \in {"none", "asked", "coming"}
  BY DEF FrameArrives, Refetch, Inv, Typed
<1>2. /\ frames' \in Seq(Records) /\ Head(frames) \in Records
      /\ 1 \in DOMAIN frames /\ Head(frames) = frames[1]
      /\ \A i \in DOMAIN frames' : i + 1 \in DOMAIN frames /\ frames'[i] = frames[i + 1]
  BY <1>1, TailFacts
<1>3. RecordOK(Head(frames), life) /\ \A i \in DOMAIN frames' : RecordOK(frames'[i], life)
  BY <1>2 DEF Inv, FactsInv
<1>4. Selected' = Selected
  BY <1>1 DEF Selected
<1>5. /\ shown' = Nothing \/ shown' \in Records
      /\ shown' # Nothing => mounted /\ RecordOK(shown', life) /\ (shown'.id = Selected \/ shown'.ended)
  <2>1. CASE Head(frames).id = Selected
    <3>1. mounted /\ Head(frames) # Nothing
      BY <1>2, <2>1, HostedAssumption DEF Selected, Records, Nothing
    <3>2. Show(Head(frames))
      BY <2>1 DEF FrameArrives
    <3>3. QED
      BY <1>2, <1>3, <2>1, <3>1, <3>2, ShowFacts
  <2>2. CASE Head(frames).id # Selected
    BY <2>2 DEF FrameArrives, Inv, Typed, FactsInv
  <2>3. QED
    BY <2>1, <2>2
<1>6. Typed'
  BY <1>1, <1>2, <1>5 DEF Inv, Typed, daemonVars, marks
<1>7. FactsInv'
  BY <1>1, <1>3, <1>4, <1>5 DEF Inv, FactsInv, daemonVars
<1>8. QED
  BY <1>1, <1>6, <1>7, QuietKeeps

\* What is known of a call outlives the changes of its session.
LEMMA CallKeeps ==
  ASSUME Typed, GoesOn, NEW c \in Calls, CallOK(c, life),
         life[c.id] = "unmade" => life'[c.id] = "unmade"
  PROVE  CallOK(c, life')
<1>1. c.id \in Sessions /\ Goes(life[c.id], life'[c.id])
  BY DEF GoesOn, Calls
<1>2. QED
  BY <1>1 DEF CallOK, Goes

\* The frame the daemon publishes says what is so.
LEMMA PublishFacts ==
  ASSUME Inv, GoesOn, NEW r \in Records, RecordOK(r, life'), Publish(r) \/ UNCHANGED frames
  PROVE  frames' \in Seq(Records) /\ \A i \in DOMAIN frames' : RecordOK(frames'[i], life')
<1>1. frames \in Seq(Records) /\ \A i \in DOMAIN frames : RecordOK(frames[i], life')
  <2>1. frames \in Seq(Records) /\ \A i \in DOMAIN frames : RecordOK(frames[i], life)
    BY DEF Inv, Typed, FactsInv
  <2>2. \A i \in DOMAIN frames : frames[i] \in Records
    BY <2>1
  <2>3. QED
    BY <2>1, <2>2, RecordKeeps DEF Inv
<1>2. frames' = frames \/ frames' = Append(frames, r)
  BY DEF Publish
<1>3. /\ Append(frames, r) \in Seq(Records) /\ Len(frames) \in Nat
      /\ DOMAIN frames = 1..Len(frames) /\ DOMAIN Append(frames, r) = 1..(Len(frames) + 1)
      /\ \A i \in 1..Len(frames) : Append(frames, r)[i] = frames[i]
      /\ Append(frames, r)[Len(frames) + 1] = r
  BY <1>1, AppendFacts
<1>4. \A i \in DOMAIN Append(frames, r) : RecordOK(Append(frames, r)[i], life')
  <2>1. \A i \in DOMAIN Append(frames, r) : i \in DOMAIN frames \/ i = Len(frames) + 1
    BY <1>3
  <2>2. QED
    BY <1>1, <1>3, <2>1
<1>5. QED
  BY <1>1, <1>2, <1>3, <1>4

\* A session ends.
LEMMA EndsFacts ==
  ASSUME Inv, NEW s \in Sessions, life[s] = "live", Ends(s)
  PROVE  /\ life' \in [Sessions -> {"unmade", "live", "ended"}] /\ GoesOn
         /\ attached' \subseteq {t \in Sessions : life'[t] = "live"}
         /\ attached' = attached \ {s} /\ life'[s] = "ended"
         /\ \A t \in Sessions : t # s => life'[t] = life[t]
         /\ frames' \in Seq(Records) /\ \A i \in DOMAIN frames' : RecordOK(frames'[i], life')
<1>1. /\ life' \in [Sessions -> {"unmade", "live", "ended"}] /\ life'[s] = "ended"
      /\ \A t \in Sessions : t # s => life'[t] = life[t]
      /\ attached' = attached \ {s}
  BY DEF Ends, Inv, Typed
<1>2. GoesOn
  BY <1>1 DEF GoesOn, Goes
<1>3. attached' \subseteq {t \in Sessions : life'[t] = "live"}
  BY <1>1 DEF Inv, Typed
<1>4. [id |-> s, ended |-> TRUE] \in Records /\ RecordOK([id |-> s, ended |-> TRUE], life')
  BY <1>1 DEF Records, RecordOK
<1>5. QED
  BY <1>1, <1>2, <1>3, <1>4, PublishFacts DEF Ends

\* What the daemon does to the calls and the sessions, the panel sees later.
LEMMA DaemonFacts ==
  ASSUME Inv, UNCHANGED <<uiVars, stream, listVars, cutOff>>,
         life' \in [Sessions -> {"unmade", "live", "ended"}], GoesOn,
         attached' \subseteq {t \in Sessions : life'[t] = "live"},
         calls' \in Seq(Calls), \A k \in DOMAIN calls' : CallOK(calls'[k], life'),
         frames' \in Seq(Records), \A i \in DOMAIN frames' : RecordOK(frames'[i], life'),
         stranded' \subseteq stranded
  PROVE  /\ Typed' /\ FactsInv' /\ SelInv'
         /\ Selected' = Selected /\ \A p : OnScreen(p)' <=> OnScreen(p)
<1> USE DEF uiVars, listVars
<1>1. Typed'
  BY DEF Inv, Typed
<1>2. Selected' = Selected /\ \A p : OnScreen(p)' <=> OnScreen(p)
  BY DEF Selected, OnScreen
<1>3. \A s \in listed' \cup coming' : life'[s] = "ended"
  <2>1. \A s \in listed \cup coming : s \in Sessions /\ life[s] = "ended"
    BY DEF Inv, Typed, FactsInv
  <2>2. QED
    BY <2>1 DEF GoesOn, Goes
<1>4. shown' # Nothing => mounted' /\ RecordOK(shown', life')
                          /\ (shown'.id = Selected' \/ shown'.ended)
  <2>1. shown # Nothing => shown \in Records /\ mounted /\ RecordOK(shown, life)
                           /\ (shown.id = Selected \/ shown.ended)
    BY DEF Inv, Typed, FactsInv
  <2>2. QED
    BY <1>2, <2>1, RecordKeeps DEF Inv
<1>5. FactsInv'
  BY <1>3, <1>4 DEF FactsInv
<1>6. SelInv'
  <2>1. \A p \in Panels : sel[p] # No => sel[p] \in Sessions /\ life[sel[p]] # "unmade"
    BY DEF Inv, Typed, SelInv
  <2>2. QED
    BY <2>1 DEF Inv, SelInv, GoesOn, Goes
<1>7. QED
  BY <1>1, <1>2, <1>5, <1>6

\* Another client ends a session.
LEMMA EndsElsewhereKeeps ==
  ASSUME Inv, NEW s \in Sessions, EndsElsewhere(s)
  PROVE  Inv'
<1>1. /\ life[s] = "live" /\ Ends(s)
      /\ UNCHANGED <<calls, uiVars, stream, listVars, stranded, cutOff>>
  BY DEF EndsElsewhere, marks
<1>2. /\ life' \in [Sessions -> {"unmade", "live", "ended"}] /\ GoesOn
      /\ attached' \subseteq {t \in Sessions : life'[t] = "live"}
      /\ attached' = attached \ {s} /\ life'[s] = "ended"
      /\ \A t \in Sessions : t # s => life'[t] = life[t]
      /\ frames' \in Seq(Records) /\ \A i \in DOMAIN frames' : RecordOK(frames'[i], life')
  BY <1>1, EndsFacts
<1>3. calls' \in Seq(Calls) /\ \A k \in DOMAIN calls' : CallOK(calls'[k], life')
  <2>1. calls \in Seq(Calls) /\ \A k \in DOMAIN calls : calls[k] \in Calls /\ CallOK(calls[k], life)
    BY DEF Inv, Typed, FactsInv
  <2>2. \A c \in Calls : life[c.id] = "unmade" => life'[c.id] = "unmade"
    BY <1>1, <1>2 DEF Calls
  <2>3. QED
    BY <1>1, <1>2, <2>1, <2>2, CallKeeps DEF Inv
<1>4. /\ Typed' /\ FactsInv' /\ SelInv'
      /\ Selected' = Selected /\ \A p : OnScreen(p)' <=> OnScreen(p)
  BY <1>1, <1>2, <1>3, DaemonFacts
<1>5. CoverInv'
  BY <1>1, <1>2, <1>4 DEF Inv, CoverInv, Accounts, uiVars
<1>6. ClaimInv'
  <2>1. Selected # No => Selected \in Sessions
    BY DEF Inv, Typed, Selected
  <2>2. QED
    BY <1>1, <1>2, <1>4, <2>1 DEF Inv, ClaimInv, uiVars
<1>7. QED
  BY <1>1, <1>4, <1>5, <1>6 DEF Inv, UniqueInv

\* Each call is typed and says what it may.
LEMMA CallsNow ==
  ASSUME Inv, NEW k \in DOMAIN calls
  PROVE  calls \in Seq(Calls) /\ calls[k] \in Calls /\ CallOK(calls[k], life)
  BY DEF Inv, Typed, FactsInv

\* The call that is served is gone, or waits for its answer.
LEMMA ServedCalls ==
  ASSUME Inv, NEW k \in DOMAIN calls, NEW ended \in BOOLEAN, calls' = Served(k, ended)
  PROVE  LET c == [calls[k] EXCEPT !.phase = "served", !.ended = ended]
             stays == ~(calls[k].phase = "lost" \/ (calls[k].kind = "detach" /\ ~calls[k].leave)) IN
         /\ calls' \in Seq(Calls) /\ Unique(calls') /\ c \in Calls
         /\ \A i \in DOMAIN calls' :
               \/ stays /\ calls'[i] = c
               \/ \E j \in DOMAIN calls \ {k} : calls'[i] = calls[j]
         /\ \A j \in DOMAIN calls \ {k} : \E i \in DOMAIN calls' : calls'[i] = calls[j]
         /\ stays => \E i \in DOMAIN calls' : calls'[i] = c
         /\ \A x, p : /\ Guarded(calls, x, p)
                      /\ Holds(calls[k], x, p) => \A j \in DOMAIN calls : j < k => ~Undoes(calls[j], x)
                      => Guarded(calls', x, p)
<1> DEFINE c == [calls[k] EXCEPT !.phase = "served", !.ended = ended]
           stays == ~(calls[k].phase = "lost" \/ (calls[k].kind = "detach" /\ ~calls[k].leave))
           rest == RemoveAt(calls, k)
           new == [calls EXCEPT ![k] = c]
<1>1. calls \in Seq(Calls) /\ calls[k] \in Calls /\ Unique(calls)
  BY CallsNow DEF Inv, UniqueInv
<1>2. /\ c \in Calls /\ c.phase = "served" /\ c.kind = calls[k].kind /\ c.current = calls[k].current
      /\ c.panel = calls[k].panel /\ c.id = calls[k].id /\ c.leave = calls[k].leave
  BY <1>1 DEF Calls
<1>3. stays => calls[k].phase # "lost"
  OBVIOUS
<1>4. calls' = IF stays THEN new ELSE rest
  BY <1>1 DEF Served
<1> HIDE DEF c, stays, rest, new
<1>5. CASE stays
  <2>1. \A d : Same(c, d) \/ Same(d, c) => Same(calls[k], d)
    BY <1>2, <1>3, <1>5 DEF Same
  <2>2. \A x : ~Undoes(c, x)
    BY <1>2 DEF Undoes
  <2>3. /\ new \in Seq(Calls) /\ DOMAIN new = DOMAIN calls /\ Unique(new)
        /\ new[k] = c /\ \A j \in DOMAIN calls \ {k} : new[j] = calls[j]
        /\ \A x, p : /\ Guarded(calls, x, p)
                     /\ Holds(calls[k], x, p) => \A j \in DOMAIN calls : j < k => ~Undoes(calls[j], x)
                     => Guarded(new, x, p)
    BY <1>1, <1>2, <2>1, <2>2, ChangedCalls DEF new
  <2>4. calls' = new
    BY <1>4, <1>5
  <2>5. QED
    BY <1>2, <1>5, <2>3, <2>4 DEF c, stays
<1>6. CASE ~stays
  <2>1. /\ rest \in Seq(Calls) /\ Unique(rest)
        /\ \A i \in DOMAIN rest : \E j \in DOMAIN calls \ {k} : rest[i] = calls[j]
        /\ \A j \in DOMAIN calls \ {k} : \E i \in DOMAIN rest : rest[i] = calls[j]
        /\ \A x, p : /\ Guarded(calls, x, p)
                     /\ Holds(calls[k], x, p) => \A j \in DOMAIN calls : j < k => ~Undoes(calls[j], x)
                     => Guarded(rest, x, p)
    BY <1>1, RemovedCalls DEF rest
  <2>2. calls' = rest
    BY <1>4, <1>6
  <2>3. QED
    BY <1>2, <1>6, <2>1, <2>2 DEF c, stays
<1>7. QED
  BY <1>5, <1>6

\* The call whose turn it is comes after no call that could undo it.
LEMMA DueFacts ==
  ASSUME Inv, NEW k \in DOMAIN calls, Due(k)
  PROVE  \A x : \A j \in DOMAIN calls : j < k => ~Undoes(calls[j], x)
<1>1. \A j \in DOMAIN calls : j < k => j \in 1..(k - 1)
  BY CallsNow
<1>2. QED
  BY <1>1 DEF Due, Undoes

\* Calls as served: typed, unique, and each says what it may.
LEMMA ServedFacts ==
  ASSUME Inv, NEW k \in DOMAIN calls, NEW ended \in BOOLEAN, calls' = Served(k, ended), Due(k),
         GoesOn, \A j \in DOMAIN calls \ {k} : life[calls[j].id] = "unmade" => life'[calls[j].id] = "unmade",
         life'[calls[k].id] # "unmade",
         ended \/ calls[k].kind = "kill" => life'[calls[k].id] = "ended"
  PROVE  /\ calls' \in Seq(Calls) /\ Unique(calls')
         /\ \A i \in DOMAIN calls' : CallOK(calls'[i], life')
         /\ \A x, p : Guarded(calls, x, p) => Guarded(calls', x, p)
<1> DEFINE c == [calls[k] EXCEPT !.phase = "served", !.ended = ended]
           stays == ~(calls[k].phase = "lost" \/ (calls[k].kind = "detach" /\ ~calls[k].leave))
<1>1. /\ calls' \in Seq(Calls) /\ Unique(calls')
      /\ \A i \in DOMAIN calls' : \/ stays /\ calls'[i] = c
                                  \/ \E j \in DOMAIN calls \ {k} : calls'[i] = calls[j]
      /\ \A x, p : /\ Guarded(calls, x, p)
                   /\ Holds(calls[k], x, p) => \A j \in DOMAIN calls : j < k => ~Undoes(calls[j], x)
                   => Guarded(calls', x, p)
  BY ServedCalls
<1>2. stays => CallOK(c, life')
  <2>1. calls[k] \in Calls /\ CallOK(calls[k], life)
    BY CallsNow
  <2>2. /\ c.phase = "served" /\ c.kind = calls[k].kind /\ c.current = calls[k].current
        /\ c.id = calls[k].id /\ c.leave = calls[k].leave /\ c.ended = ended
    BY <2>1 DEF Calls
  <2> HIDE DEF c
  <2>3. QED
    BY <2>1, <2>2 DEF CallOK
<1>3. \A j \in DOMAIN calls \ {k} : CallOK(calls[j], life')
  BY CallsNow, CallKeeps DEF Inv
<1> HIDE DEF c, stays
<1>4. \A i \in DOMAIN calls' : CallOK(calls'[i], life')
  BY <1>1, <1>2, <1>3
<1>5. QED
  BY <1>1, <1>4, DueFacts

\* Accounts looks at nothing that a call's being served changes.
LEMMA AccountsServed ==
  ASSUME NEW c \in Calls, NEW ended \in BOOLEAN, NEW s
  PROVE  Accounts([c EXCEPT !.phase = "served", !.ended = ended], s) <=> Accounts(c, s)
<1> DEFINE d == [c EXCEPT !.phase = "served", !.ended = ended]
<1>1. d.id = c.id /\ d.kind = c.kind /\ d.leave = c.leave /\ d.panel = c.panel
  BY DEF Calls
<1> HIDE DEF d
<1>2. Accounts(d, s) <=> Accounts(c, s)
  BY <1>1 DEF Accounts
<1>3. QED
  BY <1>2 DEF d

\* The daemon attaches.
LEMMA ServeAttachKeeps ==
  ASSUME Inv, NEW k \in DOMAIN calls, ServeAttach(k)
  PROVE  Inv'
<1> DEFINE s == calls[k].id
           ended == life[s] = "ended"
           c == [calls[k] EXCEPT !.phase = "served", !.ended = ended]
<1>1. /\ Due(k) /\ calls[k].kind \in {"attach", "create"} /\ calls' = Served(k, ended)
      /\ life' = IF life[s] = "unmade" THEN [life EXCEPT ![s] = "live"] ELSE life
      /\ attached' = IF ended THEN attached ELSE attached \cup {s}
      /\ IF ended THEN UNCHANGED frames ELSE Publish([id |-> s, ended |-> FALSE])
      /\ UNCHANGED <<uiVars, stream, listVars, stranded, cutOff>>
  BY DEF ServeAttach, marks
<1>2. calls[k] \in Calls /\ s \in Sessions /\ CallOK(calls[k], life) /\ calls[k].phase # "served"
  BY <1>1, CallsNow DEF Calls, Due
<1>3. ~calls[k].leave /\ (life[s] = "unmade" <=> calls[k].kind = "create")
  BY <1>1, <1>2 DEF CallOK
<1>4. /\ life' \in [Sessions -> {"unmade", "live", "ended"}] /\ GoesOn
      /\ life'[s] = IF ended THEN "ended" ELSE "live"
      /\ \A t \in Sessions : t # s => life'[t] = life[t]
      /\ life[s] # "unmade" => life' = life
  <2>1. life \in [Sessions -> {"unmade", "live", "ended"}]
    BY DEF Inv, Typed
  <2>2. CASE life[s] = "unmade"
    BY <1>1, <1>2, <2>1, <2>2 DEF GoesOn, Goes
  <2>3. CASE life[s] # "unmade"
    BY <1>1, <1>2, <2>1, <2>3 DEF GoesOn, Goes
  <2>4. QED
    BY <2>2, <2>3
<1>5. \A j \in DOMAIN calls \ {k} : life[calls[j].id] = "unmade" => life'[calls[j].id] = "unmade"
  <2> SUFFICES ASSUME NEW j \in DOMAIN calls \ {k}, life[calls[j].id] = "unmade"
               PROVE  life'[calls[j].id] = "unmade"
    OBVIOUS
  <2>1. calls[j] \in Calls /\ CallOK(calls[j], life)
    BY CallsNow
  <2>2. calls[j].kind = "create"
    BY <2>1 DEF CallOK
  <2>3. calls[k].kind # "create"
    BY <2>2 DEF Inv, UniqueInv, Unique, Same
  <2>4. QED
    BY <1>3, <1>4, <2>3
<1>6. /\ calls' \in Seq(Calls) /\ Unique(calls')
      /\ \A i \in DOMAIN calls' : CallOK(calls'[i], life')
      /\ \A x, p : Guarded(calls, x, p) => Guarded(calls', x, p)
  BY <1>1, <1>2, <1>4, <1>5, ServedFacts
<1>7. attached' \subseteq {t \in Sessions : life'[t] = "live"}
  <2>1. \A t \in attached : t \in Sessions /\ life[t] = "live"
    BY DEF Inv, Typed
  <2>2. QED
    BY <1>1, <1>2, <1>4, <2>1
<1>8. frames' \in Seq(Records) /\ \A i \in DOMAIN frames' : RecordOK(frames'[i], life')
  <2>1. [id |-> s, ended |-> FALSE] \in Records /\ RecordOK([id |-> s, ended |-> FALSE], life')
    BY <1>2, <1>4 DEF Records, RecordOK
  <2>2. QED
    BY <1>1, <1>4, <2>1, PublishFacts
<1>9. /\ Typed' /\ FactsInv' /\ SelInv'
      /\ Selected' = Selected /\ \A p : OnScreen(p)' <=> OnScreen(p)
  BY <1>1, <1>4, <1>6, <1>7, <1>8, DaemonFacts
<1>10. UNCHANGED <<panel, mounted, sel, stranded, cutOff>>
  BY <1>1 DEF uiVars
<1>11. /\ \A i \in DOMAIN calls' : \/ calls[k].phase # "lost" /\ calls'[i] = c
                                   \/ \E j \in DOMAIN calls \ {k} : calls'[i] = calls[j]
       /\ \A j \in DOMAIN calls \ {k} : \E i \in DOMAIN calls' : calls'[i] = calls[j]
       /\ calls[k].phase # "lost" => \E i \in DOMAIN calls' : calls'[i] = c
  <2> DEFINE stays == ~(calls[k].phase = "lost" \/ (calls[k].kind = "detach" /\ ~calls[k].leave))
  <2>1. /\ \A i \in DOMAIN calls' : \/ stays /\ calls'[i] = c
                                    \/ \E j \in DOMAIN calls \ {k} : calls'[i] = calls[j]
        /\ \A j \in DOMAIN calls \ {k} : \E i \in DOMAIN calls' : calls'[i] = calls[j]
        /\ stays => \E i \in DOMAIN calls' : calls'[i] = c
    <3>1. ended \in BOOLEAN /\ calls' = Served(k, ended)
      BY <1>1
    <3> HIDE DEF ended
    <3>2. QED
      BY <3>1, ServedCalls
  <2>2. stays <=> calls[k].phase # "lost"
    BY <1>1
  <2> HIDE DEF stays, c
  <2>3. QED
    BY <2>1, <2>2
<1>12. CoverInv'
  <2>1. calls[k].kind = "create" => s # sel[calls[k].panel]
    BY <1>2, <1>3, HostedAssumption DEF Inv, SelInv, Calls
  <2>2. Accounts(c, s)
    <3>1. Accounts(calls[k], s)
      BY <1>1, <2>1 DEF Accounts
    <3>2. QED
      BY <1>2, <3>1, AccountsServed
  <2>3. \A t : Accounts(calls[k], t) => t = s
    BY DEF Accounts
  <2>4. calls[k].phase = "lost" => s \in stranded
    BY <1>1 DEF Inv, CoverInv
  <2>5. ASSUME NEW t \in attached'
        PROVE  t = Selected \/ t \in stranded \/ \E i \in DOMAIN calls' : Accounts(calls'[i], t)
    <3>1. CASE t = s
      BY <1>11, <2>2, <2>4, <3>1
    <3>2. CASE t # s
      <4>1. t \in attached
        BY <1>1, <3>2
      <4>2. CASE \E j \in DOMAIN calls : Accounts(calls[j], t)
        BY <1>11, <2>3, <3>2, <4>2
      <4>3. QED
        BY <4>1, <4>2 DEF Inv, CoverInv
    <3>3. QED
      BY <3>1, <3>2
  <2>6. c.phase = "served"
    BY <1>2 DEF Calls
  <2> HIDE DEF c
  <2>7. ASSUME NEW i \in DOMAIN calls', calls'[i].kind \in {"attach", "create"}, calls'[i].phase = "lost"
        PROVE  calls'[i].id \in stranded
    BY <1>11, <2>6, <2>7 DEF Inv, CoverInv
  <2>8. \A d, t : Accounts(d, t)' <=> Accounts(d, t)
    BY <1>9, <1>10 DEF Accounts
  <2>9. QED
    BY <1>9, <1>10, <2>5, <2>7, <2>8 DEF CoverInv
<1>13. ClaimInv'
  <2> SUFFICES ASSUME Selected # No, Selected \notin cutOff
               PROVE  /\ Guarded(calls', Selected, panel)
                      /\ life'[Selected] = "live" =>
                           \/ Selected \in attached'
                           \/ \E i \in DOMAIN calls' :
                                Holds(calls'[i], Selected, panel) \/ Leaves(calls'[i], panel)
    BY <1>9, <1>10 DEF ClaimInv
  <2>1. Guarded(calls', Selected, panel)
    BY <1>6 DEF Inv, ClaimInv
  <2>2. ASSUME life'[Selected] = "live"
        PROVE  \/ Selected \in attached'
               \/ \E i \in DOMAIN calls' : Holds(calls'[i], Selected, panel) \/ Leaves(calls'[i], panel)
    <3>1. Selected \in Sessions /\ life[Selected] # "unmade"
      BY DEF Inv, Typed, SelInv, Selected
    <3>2. CASE Selected = s
      BY <1>1, <1>4, <2>2, <3>2
    <3>3. CASE Selected # s
      <4>1. life[Selected] = "live"
        BY <1>4, <2>2, <3>1, <3>3
      <4>2. CASE Selected \in attached
        BY <1>1, <4>2
      <4>3. CASE Selected \notin attached
        <5>1. PICK j \in DOMAIN calls : Holds(calls[j], Selected, panel) \/ Leaves(calls[j], panel)
          BY <4>1, <4>3 DEF Inv, ClaimInv
        <5>2. j # k
          BY <1>3, <3>3, <5>1 DEF Holds, Leaves
        <5>3. QED
          BY <1>11, <5>1, <5>2
      <4>4. QED
        BY <4>2, <4>3
    <3>4. QED
      BY <3>2, <3>3
  <2>3. QED
    BY <2>1, <2>2
<1>14. QED
  BY <1>6, <1>9, <1>12, <1>13 DEF Inv, UniqueInv

\* The daemon detaches, or ends a session that is asked to end.
LEMMA ReleaseKeeps ==
  ASSUME Inv, NEW k \in DOMAIN calls, Due(k), calls[k].kind \in {"detach", "kill"},
         NEW ended \in BOOLEAN, calls' = Served(k, ended),
         ended \/ calls[k].kind = "kill" => life'[calls[k].id] = "ended",
         \/ life[calls[k].id] = "live" /\ Ends(calls[k].id)
         \/ UNCHANGED <<life, frames>> /\ attached' = attached \ {calls[k].id},
         stranded' \subseteq stranded, stranded \ {calls[k].id} \subseteq stranded',
         \A j \in DOMAIN calls \ {k} : /\ calls[j].phase = "lost" /\ calls[j].id = calls[k].id
                                       /\ calls[k].id \in stranded
                                       => calls[k].id \in stranded',
         UNCHANGED <<uiVars, stream, listVars, cutOff>>
  PROVE  Inv'
<1> DEFINE s == calls[k].id
           c == [calls[k] EXCEPT !.phase = "served", !.ended = ended]
           stays == ~(calls[k].phase = "lost" \/ (calls[k].kind = "detach" /\ ~calls[k].leave))
<1>1. calls[k] \in Calls /\ s \in Sessions /\ CallOK(calls[k], life) /\ calls[k].phase # "served"
  BY CallsNow DEF Calls, Due
<1>2. life[s] \in {"live", "ended"}
  BY <1>1 DEF CallOK, Inv, Typed
<1>3. /\ life' \in [Sessions -> {"unmade", "live", "ended"}] /\ GoesOn
      /\ attached' \subseteq {t \in Sessions : life'[t] = "live"}
      /\ \A t \in Sessions : t # s => life'[t] = life[t]
      /\ life'[s] \in {life[s], "ended"}
      /\ attached' = attached \ {s}
      /\ frames' \in Seq(Records) /\ \A i \in DOMAIN frames' : RecordOK(frames'[i], life')
  <2>1. CASE life[s] = "live" /\ Ends(s)
    BY <1>1, <2>1, EndsFacts
  <2>2. CASE UNCHANGED <<life, frames>> /\ attached' = attached \ {s}
    BY <2>2 DEF Inv, Typed, FactsInv, GoesOn, Goes
  <2>3. QED
    BY <2>1, <2>2
<1>4. /\ calls' \in Seq(Calls) /\ Unique(calls')
      /\ \A i \in DOMAIN calls' : CallOK(calls'[i], life')
      /\ \A x, p : Guarded(calls, x, p) => Guarded(calls', x, p)
  <2>1. \A j \in DOMAIN calls \ {k} : life[calls[j].id] = "unmade" => life'[calls[j].id] = "unmade"
    BY <1>2, <1>3, CallsNow DEF Calls
  <2>2. QED
    BY <1>2, <1>3, <2>1, ServedFacts
<1>5. /\ Typed' /\ FactsInv' /\ SelInv'
      /\ Selected' = Selected /\ \A p : OnScreen(p)' <=> OnScreen(p)
  BY <1>3, <1>4, DaemonFacts
<1>6. UNCHANGED <<panel, mounted, sel, cutOff>>
  BY DEF uiVars
<1>7. /\ \A i \in DOMAIN calls' : \/ stays /\ calls'[i] = c
                                  \/ \E j \in DOMAIN calls \ {k} : calls'[i] = calls[j]
      /\ \A j \in DOMAIN calls \ {k} : \E i \in DOMAIN calls' : calls'[i] = calls[j]
      /\ stays => \E i \in DOMAIN calls' : calls'[i] = c
  BY ServedCalls
<1>8. /\ c.phase = "served" /\ c.id = s /\ c.leave = calls[k].leave /\ c.panel = calls[k].panel
      /\ c.kind = calls[k].kind
  BY <1>1 DEF Calls
<1> HIDE DEF c
<1>9. CoverInv'
  <2>1. ASSUME NEW t \in attached'
        PROVE  t = Selected \/ t \in stranded' \/ \E i \in DOMAIN calls' : Accounts(calls'[i], t)
    <3>1. t \in attached /\ t # s
      BY <1>3
    <3>2. ~Accounts(calls[k], t)
      BY <3>1 DEF Accounts
    <3>3. CASE \E j \in DOMAIN calls : Accounts(calls[j], t)
      BY <1>7, <3>2, <3>3
    <3>4. QED
      BY <3>1, <3>3 DEF Inv, CoverInv
  <2>2. ASSUME NEW i \in DOMAIN calls', calls'[i].kind \in {"attach", "create"}, calls'[i].phase = "lost"
        PROVE  calls'[i].id \in stranded'
    <3>1. PICK j \in DOMAIN calls \ {k} : calls'[i] = calls[j]
      BY <1>7, <1>8, <2>2
    <3>2. calls[j].id \in stranded
      BY <2>2, <3>1 DEF Inv, CoverInv
    <3>3. QED
      BY <2>2, <3>1, <3>2
  <2>3. \A d, t : Accounts(d, t)' <=> Accounts(d, t)
    BY <1>5, <1>6 DEF Accounts
  <2>4. QED
    BY <1>5, <1>6, <2>1, <2>2, <2>3 DEF CoverInv
<1>10. ClaimInv'
  <2> SUFFICES ASSUME Selected # No, Selected \notin cutOff
               PROVE  /\ Guarded(calls', Selected, panel)
                      /\ life'[Selected] = "live" =>
                           \/ Selected \in attached'
                           \/ \E i \in DOMAIN calls' :
                                Holds(calls'[i], Selected, panel) \/ Leaves(calls'[i], panel)
    BY <1>5, <1>6 DEF ClaimInv
  <2>1. Guarded(calls, Selected, panel)
    BY DEF Inv, ClaimInv
  <2>2. ASSUME life'[Selected] = "live"
        PROVE  \/ Selected \in attached'
               \/ \E i \in DOMAIN calls' : Holds(calls'[i], Selected, panel) \/ Leaves(calls'[i], panel)
    <3>1. Selected \in Sessions
      BY DEF Inv, Typed, Selected
    <3>2. life[Selected] = "live"
      BY <1>2, <1>3, <2>2, <3>1
    <3>3. ASSUME NEW j \in DOMAIN calls, Holds(calls[j], Selected, panel) \/ Leaves(calls[j], panel)
          PROVE  \E i \in DOMAIN calls' : Holds(calls'[i], Selected, panel) \/ Leaves(calls'[i], panel)
      <4>1. CASE j # k
        BY <1>7, <3>3, <4>1
      <4>2. CASE j = k
        <5>1. Leaves(calls[k], panel)
          BY <3>3, <4>2 DEF Holds
        <5>2. stays /\ Leaves(c, panel)
          BY <1>8, <5>1 DEF Leaves
        <5>3. QED
          BY <1>7, <5>2
      <4>3. QED
        BY <4>1, <4>2
    <3>4. CASE Selected \in attached /\ Selected \notin attached'
      <4>1. Selected = s
        BY <1>3, <3>4
      <4>2. calls[k].kind = "detach"
        BY <2>2, <4>1
      <4>3. Undoes(calls[k], Selected)
        BY <1>1, <4>1, <4>2 DEF Undoes
      <4>4. \E j \in DOMAIN calls : Holds(calls[j], Selected, panel) \/ Leaves(calls[j], panel)
        BY <2>1, <4>3 DEF Guarded
      <4>5. QED
        BY <3>3, <4>4
    <3>5. QED
      BY <3>2, <3>3, <3>4 DEF Inv, ClaimInv
  <2>3. QED
    BY <1>4, <2>1, <2>2
<1>11. QED
  BY <1>4, <1>5, <1>9, <1>10 DEF Inv, UniqueInv

\* The daemon serves a detach.
LEMMA ServeDetachKeeps ==
  ASSUME Inv, NEW k \in DOMAIN calls, ServeDetach(k)
  PROVE  Inv'
<1> DEFINE s == calls[k].id
           ended == life[s] = "ended"
<1>1. /\ Due(k) /\ calls[k].kind = "detach" /\ calls' = Served(k, ended)
      /\ stranded' = {x \in stranded : x # s \/ \E j \in DOMAIN calls : calls[j].id = s
                                                  /\ calls[j].phase = "lost" /\ j # k}
      /\ IF s \in attached /\ s \in Kills THEN Ends(s)
         ELSE attached' = attached \ {s} /\ UNCHANGED <<life, frames>>
      /\ UNCHANGED <<uiVars, stream, listVars, cutOff>>
  BY DEF ServeDetach
<1>2. s \in attached => life[s] = "live"
  BY DEF Inv, Typed
<1>3. s \in Sessions /\ life[s] \in {"unmade", "live", "ended"}
  BY CallsNow DEF Inv, Typed, Calls
<1>4. \/ life[s] = "live" /\ Ends(s)
      \/ UNCHANGED <<life, frames>> /\ attached' = attached \ {s}
  BY <1>1, <1>2
<1>5. ended => life'[s] = "ended"
  BY <1>4
<1>6. stranded' \subseteq stranded /\ stranded \ {s} \subseteq stranded'
  BY <1>1
<1>7. \A j \in DOMAIN calls \ {k} : calls[j].phase = "lost" /\ calls[j].id = s /\ s \in stranded
                                    => s \in stranded'
  BY <1>1
<1>8. ended \in BOOLEAN
  OBVIOUS
<1> HIDE DEF ended
<1>9. QED
  BY <1>1, <1>4, <1>5, <1>6, <1>7, <1>8, ReleaseKeeps

\* The daemon serves a kill.
LEMMA ServeKillKeeps ==
  ASSUME Inv, NEW k \in DOMAIN calls, ServeKill(k)
  PROVE  Inv'
<1> DEFINE s == calls[k].id
<1>1. /\ Due(k) /\ calls[k].kind = "kill" /\ calls' = Served(k, TRUE)
      /\ IF life[s] = "live" THEN Ends(s) ELSE UNCHANGED <<daemonVars, frames>>
      /\ UNCHANGED <<uiVars, stream, listVars, marks>>
  BY DEF ServeKill
<1>2. s \in Sessions /\ life[s] \in {"live", "ended"}
  BY <1>1, CallsNow DEF Inv, Typed, Calls, CallOK
<1>3. s \in attached => life[s] = "live"
  BY DEF Inv, Typed
<1>4. \/ life[s] = "live" /\ Ends(s)
      \/ UNCHANGED <<life, frames>> /\ attached' = attached \ {s}
  BY <1>1, <1>3 DEF daemonVars
<1>5. life'[s] = "ended"
  <2>1. CASE life[s] = "live"
    BY <1>1, <1>2, <2>1, EndsFacts
  <2>2. CASE life[s] = "ended"
    BY <1>1, <2>2 DEF daemonVars
  <2>3. QED
    BY <1>2, <2>1, <2>2
<1>6. UNCHANGED <<stranded, cutOff>>
  BY <1>1 DEF marks
<1>7. QED
  BY <1>1, <1>4, <1>5, <1>6, ReleaseKeeps

\* An answer can only be read in part.
LEMMA GarbleKeeps ==
  ASSUME Inv, NEW k \in DOMAIN calls, Garble(k)
  PROVE  Inv'
<1>1. PICK says \in {"id", "nothing"} : calls' = [calls EXCEPT ![k].says = says]
  BY DEF Garble
<1> DEFINE c == [calls[k] EXCEPT !.says = says]
<1>2. /\ calls[k].phase = "served"
      /\ UNCHANGED <<daemonVars, uiVars, streamVars, listVars, marks>>
  BY DEF Garble
<1>3. calls[k] \in Calls /\ CallOK(calls[k], life) /\ calls \in Seq(Calls)
  BY CallsNow
<1>4. /\ c \in Calls /\ c.kind = calls[k].kind /\ c.id = calls[k].id /\ c.panel = calls[k].panel
      /\ c.current = calls[k].current /\ c.leave = calls[k].leave /\ c.phase = calls[k].phase
      /\ c.ended = calls[k].ended
  BY <1>3 DEF Calls
<1>5. calls' = [calls EXCEPT ![k] = c]
  BY <1>1, <1>3
<1> HIDE DEF c
<1>6. /\ \A d : Same(c, d) \/ Same(d, c) => Same(calls[k], d)
      /\ \A x, p : Undoes(c, x) => Undoes(calls[k], x) /\ (Leaves(calls[k], p) => Leaves(c, p))
      /\ \A x, p : ~Holds(calls[k], x, p)
      /\ CallOK(c, life)
  BY <1>2, <1>3, <1>4 DEF Same, Undoes, Leaves, Holds, CallOK
<1>7. /\ calls' \in Seq(Calls) /\ DOMAIN calls' = DOMAIN calls /\ Unique(calls')
      /\ calls'[k] = c /\ \A j \in DOMAIN calls \ {k} : calls'[j] = calls[j]
      /\ \A x, p : Guarded(calls, x, p) => Guarded(calls', x, p)
  BY <1>3, <1>4, <1>5, <1>6, ChangedCalls DEF Inv, UniqueInv
<1>8. UNCHANGED <<life, attached, panel, mounted, sel, shown, error, stream, frames, include,
                  listed, fetch, coming, stranded, cutOff>>
  BY <1>2 DEF daemonVars, uiVars, streamVars, listVars, marks
<1>9. Selected' = Selected /\ \A p : OnScreen(p)' <=> OnScreen(p)
  BY <1>8 DEF Selected, OnScreen
<1>10. Typed'
  BY <1>7, <1>8 DEF Inv, Typed
<1>11. FactsInv'
  BY <1>6, <1>7, <1>8, <1>9 DEF Inv, FactsInv
<1>12. SelInv' /\ UniqueInv'
  BY <1>7, <1>8 DEF Inv, SelInv, UniqueInv
<1>13. CoverInv'
  <2>1. \A t : \A j \in DOMAIN calls : Accounts(calls[j], t) => Accounts(calls'[j], t)
    BY <1>4, <1>7 DEF Accounts
  <2>2. \A d, t : Accounts(d, t)' <=> Accounts(d, t)
    BY <1>8, <1>9 DEF Accounts
  <2>3. ASSUME NEW j \in DOMAIN calls, calls'[j].kind \in {"attach", "create"}, calls'[j].phase = "lost"
        PROVE  calls'[j].id \in stranded
    BY <1>2, <1>4, <1>7, <2>3 DEF Inv, CoverInv
  <2>4. ASSUME NEW t \in attached
        PROVE  t = Selected \/ t \in stranded \/ \E i \in DOMAIN calls : Accounts(calls'[i], t)
    BY <2>1 DEF Inv, CoverInv
  <2>5. QED
    BY <1>7, <1>8, <1>9, <2>2, <2>3, <2>4 DEF CoverInv
<1>14. ClaimInv'
  <2>1. \A x, p : \A j \in DOMAIN calls :
          /\ Holds(calls[j], x, p) => Holds(calls'[j], x, p)
          /\ Leaves(calls[j], p) => Leaves(calls'[j], p)
    BY <1>4, <1>6, <1>7 DEF Leaves
  <2>2. QED
    BY <1>7, <1>8, <1>9, <2>1 DEF Inv, ClaimInv
<1>15. QED
  BY <1>10, <1>11, <1>12, <1>13, <1>14 DEF Inv

\* A step of the panel that leaves the selection alone: each call that is gone was
\* not needed, or what it stood for is marked.
LEMMA PanelKeeps ==
  ASSUME Inv, UNCHANGED <<daemonVars, panel, mounted, sel>>, Typed', FactsInv', Unique(calls'),
         stranded \subseteq stranded', cutOff \subseteq cutOff',
         \A j \in DOMAIN calls : \A t \in attached :
            Accounts(calls[j], t) => \/ t = Selected \/ t \in stranded'
                                     \/ \E i \in DOMAIN calls' : Accounts(calls'[i], t),
         \A i \in DOMAIN calls' :
            calls'[i].kind \in {"attach", "create"} /\ calls'[i].phase = "lost"
              => calls'[i].id \in stranded',
         Selected # No /\ Selected \notin cutOff' =>
            /\ Guarded(calls, Selected, panel) => Guarded(calls', Selected, panel)
            /\ \A j \in DOMAIN calls :
                 Holds(calls[j], Selected, panel) \/ Leaves(calls[j], panel)
                   => \E i \in DOMAIN calls' :
                        Holds(calls'[i], Selected, panel) \/ Leaves(calls'[i], panel)
  PROVE  Inv'
<1> USE DEF daemonVars
<1>1. Selected' = Selected /\ \A p : OnScreen(p)' <=> OnScreen(p)
  BY DEF Selected, OnScreen
<1>2. SelInv' /\ UniqueInv'
  BY DEF Inv, SelInv, UniqueInv
<1>3. CoverInv'
  <2>1. \A d, t : Accounts(d, t)' <=> Accounts(d, t)
    BY <1>1 DEF Accounts
  <2>2. ASSUME NEW t \in attached
        PROVE  t = Selected \/ t \in stranded' \/ \E i \in DOMAIN calls' : Accounts(calls'[i], t)
    BY DEF Inv, CoverInv
  <2>3. QED
    BY <1>1, <2>1, <2>2 DEF CoverInv
<1>4. ClaimInv'
  <2> SUFFICES ASSUME Selected # No, Selected \notin cutOff'
               PROVE  /\ Guarded(calls', Selected, panel)
                      /\ life[Selected] = "live" =>
                           \/ Selected \in attached
                           \/ \E i \in DOMAIN calls' :
                                Holds(calls'[i], Selected, panel) \/ Leaves(calls'[i], panel)
    BY <1>1 DEF ClaimInv
  <2>1. Guarded(calls', Selected, panel)
    BY DEF Inv, ClaimInv
  <2>2. ASSUME life[Selected] = "live", Selected \notin attached
        PROVE  \E i \in DOMAIN calls' : Holds(calls'[i], Selected, panel) \/ Leaves(calls'[i], panel)
    <3>1. PICK j \in DOMAIN calls : Holds(calls[j], Selected, panel) \/ Leaves(calls[j], panel)
      BY <2>2 DEF Inv, ClaimInv
    <3>2. QED
      BY <3>1
  <2>3. QED
    BY <2>1, <2>2
<1>5. QED
  BY <1>2, <1>3, <1>4 DEF Inv

\* A call of a button.
LEMMA ButtonKeeps ==
  ASSUME Inv, NEW c \in Calls, calls' = Append(calls, c), CallOK(c, life), c.phase = "sent",
         \A j \in DOMAIN calls : ~Same(calls[j], c) /\ ~Same(c, calls[j]),
         \A x : Undoes(c, x) => Leaves(c, panel),
         UNCHANGED <<daemonVars, uiVars, streamVars, listVars, marks>>
  PROVE  Inv'
<1>1. UNCHANGED <<life, attached, panel, mounted, sel, shown, error, stream, frames, include,
                  listed, fetch, coming, stranded, cutOff>>
  BY DEF daemonVars, uiVars, streamVars, listVars, marks
<1>2. calls \in Seq(Calls) /\ Unique(calls)
  BY DEF Inv, Typed, UniqueInv
<1>3. /\ calls' \in Seq(Calls) /\ Unique(calls')
      /\ \A i \in DOMAIN calls' : calls'[i] = c \/ \E j \in DOMAIN calls : calls'[i] = calls[j]
      /\ \A j \in DOMAIN calls : j \in DOMAIN calls' /\ calls'[j] = calls[j]
      /\ Guarded(calls, Selected, panel) => Guarded(calls', Selected, panel)
  BY <1>2, AddedCalls
<1>4. Typed'
  BY <1>1, <1>3 DEF Inv, Typed
<1>5. FactsInv'
  <2>1. \A i \in DOMAIN calls' : CallOK(calls'[i], life)
    BY <1>3, CallsNow
  <2>2. Selected' = Selected
    BY <1>1 DEF Selected
  <2>3. QED
    BY <1>1, <2>1, <2>2 DEF Inv, FactsInv
<1>6. \A i \in DOMAIN calls' : calls'[i].kind \in {"attach", "create"} /\ calls'[i].phase = "lost"
                               => calls'[i].id \in stranded
  BY <1>3 DEF Inv, CoverInv
<1>7. QED
  BY <1>1, <1>3, <1>4, <1>5, <1>6, PanelKeeps DEF daemonVars

\* The Leave button.
LEMMA LeaveKeeps == ASSUME Inv, Leave PROVE Inv'
<1> DEFINE c == [Call("detach", shown.id, panel) EXCEPT !.leave = TRUE]
<1>1. /\ Detail /\ calls' = Append(calls, c)
      /\ UNCHANGED <<daemonVars, uiVars, streamVars, listVars, marks>>
  BY DEF Leave
<1>2. shown \in Records /\ RecordOK(shown, life) /\ panel \in Panels /\ shown.id \in Sessions
  BY <1>1 DEF Detail, Inv, Typed, FactsInv, Records
<1>3. /\ c \in Calls /\ c.kind = "detach" /\ c.leave /\ c.phase = "sent" /\ ~c.current
      /\ ~c.ended /\ c.panel = panel /\ c.id = shown.id
  BY <1>2, CallTyped DEF Call
<1> HIDE DEF c
<1>4. CallOK(c, life)
  BY <1>2, <1>3 DEF CallOK, RecordOK
<1>5. \A d : ~Same(c, d) /\ ~Same(d, c)
  BY <1>3 DEF Same
<1>6. Leaves(c, panel)
  BY <1>3 DEF Leaves
<1>7. QED
  BY <1>1, <1>3, <1>4, <1>5, <1>6, ButtonKeeps

\* The End button.
LEMMA EndKeeps == ASSUME Inv, End PROVE Inv'
<1> DEFINE c == Call("kill", shown.id, panel)
<1>1. /\ Detail /\ ~Pending("kill") /\ calls' = Append(calls, c)
      /\ UNCHANGED <<daemonVars, uiVars, streamVars, listVars, marks>>
  BY DEF End
<1>2. shown \in Records /\ RecordOK(shown, life) /\ panel \in Panels /\ shown.id \in Sessions
  BY <1>1 DEF Detail, Inv, Typed, FactsInv, Records
<1>3. /\ c \in Calls /\ c.kind = "kill" /\ ~c.leave /\ c.phase = "sent" /\ ~c.current
      /\ ~c.ended /\ c.panel = panel /\ c.id = shown.id
  BY <1>2, CallTyped DEF Call
<1> HIDE DEF c
<1>4. CallOK(c, life)
  BY <1>2, <1>3 DEF CallOK, RecordOK
<1>5. \A j \in DOMAIN calls : ~Same(calls[j], c) /\ ~Same(c, calls[j])
  BY <1>1, <1>3 DEF Same, Pending
<1>6. \A x : ~Undoes(c, x)
  BY <1>3 DEF Undoes
<1>7. QED
  BY <1>1, <1>3, <1>4, <1>5, <1>6, ButtonKeeps

\* The Create button.
LEMMA CreateKeeps == ASSUME Inv, NEW s \in Sessions, Create(s) PROVE Inv'
<1> DEFINE c == Call("create", s, panel)
<1>1. /\ life[s] = "unmade" /\ \A k \in DOMAIN calls : calls[k].kind # "create"
      /\ calls' = Append(calls, c)
      /\ UNCHANGED <<daemonVars, uiVars, streamVars, listVars, marks>>
  BY DEF Create
<1>2. panel \in Panels
  BY DEF Inv, Typed
<1>3. /\ c \in Calls /\ c.kind = "create" /\ ~c.leave /\ c.phase = "sent" /\ ~c.current
      /\ ~c.ended /\ c.panel = panel /\ c.id = s
  BY <1>2, CallTyped DEF Call
<1> HIDE DEF c
<1>4. CallOK(c, life)
  BY <1>1, <1>3 DEF CallOK
<1>5. \A j \in DOMAIN calls : ~Same(calls[j], c) /\ ~Same(c, calls[j])
  BY <1>1, <1>3 DEF Same
<1>6. \A x : ~Undoes(c, x)
  BY <1>3 DEF Undoes
<1>7. QED
  BY <1>1, <1>3, <1>4, <1>5, <1>6, ButtonKeeps

\* selectSession, after the calls in rest, which are all but a served create of s.
LEMMA SelectFromKeeps ==
  ASSUME Inv, NEW p \in Panels, NEW s \in Sessions, NEW rest \in Seq(Calls),
         life[s] # "unmade", s # sel[p], SelectFrom(p, s, rest), Unique(rest),
         \A i \in DOMAIN rest : \E j \in DOMAIN calls : rest[i] = calls[j],
         \A j \in DOMAIN calls :
            \/ \E i \in DOMAIN rest : rest[i] = calls[j]
            \/ calls[j].id = s /\ calls[j].kind = "create" /\ calls[j].phase = "served",
         \A x, q : Guarded(calls, x, q) => Guarded(rest, x, q),
         UNCHANGED <<daemonVars, panel, mounted, streamVars, include, listed, coming, stranded>>,
         fetch' \in {"none", "asked", "coming"}
  PROVE  Inv'
<1> DEFINE previous == sel[p]
           attach == Call("attach", s, p)
           detach == Call("detach", previous, p)
<1>1. UNCHANGED <<life, attached, panel, mounted, stream, frames, include, listed, coming, stranded>>
  BY DEF daemonVars, streamVars
<1>2. /\ previous \in Sessions \cup {No} /\ (previous # No => life[previous] # "unmade")
      /\ sel \in [Panels -> Sessions \cup {No}] /\ panel \in Panels
  BY DEF Inv, Typed, SelInv
<1>3. \A i \in DOMAIN rest : rest[i] \in Calls /\ CallOK(rest[i], life)
  BY CallsNow
<1>4. \A i \in DOMAIN rest : rest[i].current => rest[i].kind = "attach"
  BY <1>3 DEF CallOK
<1>5. calls' = Reselected(rest, previous, s, p)
  BY DEF SelectFrom, Reselected
<1>6. /\ calls' \in Seq(Calls) /\ Unique(calls')
      /\ \A i \in DOMAIN calls' : \/ calls'[i] = attach
                                  \/ previous # No /\ calls'[i] = detach
                                  \/ \E k \in DOMAIN rest : calls'[i] = Superseded(rest[k], p)
      /\ \A k \in DOMAIN rest : \E i \in DOMAIN calls' : calls'[i] = Superseded(rest[k], p)
      /\ \E i \in DOMAIN calls' : calls'[i] = attach
      /\ previous # No => \E i \in DOMAIN calls' : calls'[i] = detach
      /\ Guarded(calls', s, p)
      /\ \A x, q : q # p /\ x # previous /\ Guarded(rest, x, q) => Guarded(calls', x, q)
  BY <1>2, <1>4, <1>5, SelectCalls
<1>7. \A k \in DOMAIN rest :
        LET d == Superseded(rest[k], p) IN
        /\ d.id = rest[k].id /\ d.kind = rest[k].kind /\ d.panel = rest[k].panel
        /\ d.phase = rest[k].phase /\ d.leave = rest[k].leave /\ d.ended = rest[k].ended
        /\ d.current <=> rest[k].current /\ rest[k].panel # p
  BY <1>3 DEF Superseded, Calls
<1>8. /\ attach.kind = "attach" /\ attach.id = s /\ attach.panel = p /\ attach.current
      /\ attach.phase = "sent" /\ ~attach.leave /\ ~attach.ended
      /\ detach.kind = "detach" /\ detach.id = previous /\ detach.panel = p /\ ~detach.current
      /\ detach.phase = "sent" /\ ~detach.leave /\ ~detach.ended
  BY DEF Call
<1> HIDE DEF attach, detach
<1>9. \A i \in DOMAIN calls' : CallOK(calls'[i], life)
  <2>1. CallOK(attach, life) /\ (previous # No => CallOK(detach, life))
    BY <1>2, <1>8 DEF CallOK
  <2>2. \A k \in DOMAIN rest : CallOK(Superseded(rest[k], p), life)
    BY <1>3, <1>7 DEF CallOK
  <2>3. QED
    BY <1>6, <2>1, <2>2
<1>10. \A i \in DOMAIN calls' : calls'[i].kind \in {"attach", "create"} /\ calls'[i].phase = "lost"
                                => calls'[i].id \in stranded
  <2>1. \A k \in DOMAIN rest :
          LET d == Superseded(rest[k], p) IN
          d.kind \in {"attach", "create"} /\ d.phase = "lost" => d.id \in stranded
    BY <1>7 DEF Inv, CoverInv
  <2>2. attach.phase # "lost" /\ detach.phase # "lost"
    BY <1>8
  <2>3. QED
    BY <1>6, <2>1, <2>2
<1>11. CASE OnScreen(p)
  <2>1. /\ mounted /\ p = panel /\ shown' = Nothing /\ error' = FALSE /\ cutOff' = cutOff
        /\ sel' = [sel EXCEPT ![p] = s]
    BY <1>11 DEF OnScreen, SelectFrom
  <2>2. Selected' = s /\ Selected = previous /\ \A q : OnScreen(q)' <=> OnScreen(q)
    BY <1>1, <1>2, <2>1 DEF Selected, OnScreen
  <2>3. Typed'
    BY <1>1, <1>2, <1>6, <2>1 DEF Inv, Typed
  <2>4. FactsInv'
    BY <1>1, <1>9, <2>1 DEF Inv, FactsInv
  <2>5. SelInv' /\ UniqueInv'
    <3>1. \A q \in Panels : sel'[q] = IF q = p THEN s ELSE sel[q]
      BY <1>2, <2>1
    <3>2. ~(p > panel) /\ s # No
      BY <2>1, HostedAssumption DEF Panels
    <3>3. QED
      BY <1>1, <1>6, <3>1, <3>2 DEF Inv, SelInv, UniqueInv
  <2> DEFINE Later(d, t) ==
        /\ d.id = t
        /\ \/ d.kind = "attach" \/ (d.kind = "detach" /\ ~d.leave)
           \/ d.kind = "create" /\ (OnScreen(d.panel) \/ t # sel'[d.panel])
  <2> HIDE DEF Later
  <2>6. ASSUME NEW t \in attached
        PROVE  t = s \/ t \in stranded \/ \E i \in DOMAIN calls' : Later(calls'[i], t)
    <3>1. CASE t = Selected
      <4>1. t \in Sessions
        BY DEF Inv, Typed
      <4>2. Later(detach, t) /\ previous # No
        BY <1>8, <2>2, <3>1, <4>1, HostedAssumption DEF Later
      <4>3. QED
        BY <1>6, <4>2
    <3>2. CASE \E j \in DOMAIN calls : Accounts(calls[j], t) /\ t # s
      <4>1. PICK j \in DOMAIN calls : Accounts(calls[j], t) /\ t # s
        BY <3>2
      <4>2. PICK k \in DOMAIN rest : rest[k] = calls[j]
        BY <4>1 DEF Accounts
      <4>3. Later(Superseded(rest[k], p), t)
        <5>1. rest[k].panel \in Panels /\ rest[k].panel # p => sel'[rest[k].panel] = sel[rest[k].panel]
          BY <1>2, <1>3, <2>1 DEF Calls
        <5>2. rest[k].panel \in Panels
          BY <1>3 DEF Calls
        <5>3. OnScreen(rest[k].panel)' \/ t # sel'[rest[k].panel]
              \/ rest[k].kind # "create"
          BY <2>1, <2>2, <4>1, <4>2, <5>1, <5>2 DEF Accounts, OnScreen
        <5>4. QED
          BY <1>7, <2>2, <4>1, <4>2, <5>3 DEF Accounts, Later
      <4>4. QED
        BY <1>6, <4>3
    <3>3. QED
      BY <3>1, <3>2 DEF Inv, CoverInv
  <2>7. CoverInv'
    <3>1. \A d, t : Accounts(d, t)' <=> Later(d, t)
      BY <2>2 DEF Accounts, Later
    <3>2. QED
      BY <1>1, <1>10, <2>2, <2>6, <3>1 DEF CoverInv
  <2>8. ClaimInv'
    <3>1. Holds(attach, s, p)
      BY <1>8 DEF Holds
    <3>2. QED
      BY <1>1, <1>6, <2>1, <2>2, <3>1 DEF ClaimInv
  <2>9. QED
    BY <2>3, <2>4, <2>5, <2>7, <2>8 DEF Inv
<1>12. CASE ~OnScreen(p)
  <2>1. UNCHANGED <<sel, shown, error>> /\ cutOff' = cutOff \cup ({previous} \ {No})
    BY <1>12 DEF SelectFrom
  <2>2. Typed'
    BY <1>1, <1>2, <1>6, <2>1 DEF Inv, Typed
  <2>3. FactsInv'
    BY <1>1, <1>9, <2>1 DEF Inv, FactsInv, Selected
  <2>4. ASSUME NEW j \in DOMAIN calls, NEW t \in attached, Accounts(calls[j], t)
        PROVE  \E i \in DOMAIN calls' : Accounts(calls'[i], t)
    <3>1. CASE t = s
      BY <1>6, <1>8, <3>1 DEF Accounts
    <3>2. CASE t # s
      <4>1. PICK k \in DOMAIN rest : rest[k] = calls[j]
        BY <2>4, <3>2 DEF Accounts
      <4>2. Accounts(Superseded(rest[k], p), t)
        BY <1>7, <2>4, <4>1 DEF Accounts
      <4>3. QED
        BY <1>6, <4>2
    <3>3. QED
      BY <3>1, <3>2
  <2>5. ASSUME Selected # No, Selected \notin cutOff'
        PROVE  /\ Guarded(calls, Selected, panel) => Guarded(calls', Selected, panel)
               /\ \A j \in DOMAIN calls :
                    Holds(calls[j], Selected, panel) \/ Leaves(calls[j], panel)
                      => \E i \in DOMAIN calls' :
                           Holds(calls'[i], Selected, panel) \/ Leaves(calls'[i], panel)
    <3>1. panel # p /\ Selected # previous
      BY <1>12, <2>1, <2>5 DEF Selected, OnScreen
    <3>2. ASSUME NEW j \in DOMAIN calls, Holds(calls[j], Selected, panel) \/ Leaves(calls[j], panel)
          PROVE  \E i \in DOMAIN calls' : Holds(calls'[i], Selected, panel) \/ Leaves(calls'[i], panel)
      <4>1. PICK k \in DOMAIN rest : rest[k] = calls[j]
        BY <3>2, CallsNow DEF Holds, Leaves, CallOK
      <4>2. \/ Holds(Superseded(rest[k], p), Selected, panel)
            \/ Leaves(Superseded(rest[k], p), panel)
        BY <1>7, <3>1, <3>2, <4>1 DEF Holds, Leaves
      <4>3. QED
        BY <1>6, <4>2
    <3>3. QED
      BY <1>6, <3>1, <3>2
  <2>6. UNCHANGED <<daemonVars, panel, mounted, sel>> /\ cutOff \subseteq cutOff'
    BY <2>1
  <2>7. QED
    BY <1>1, <1>6, <1>10, <2>2, <2>3, <2>4, <2>5, <2>6, PanelKeeps
<1>13. QED
  BY <1>11, <1>12

\* Another session is selected.
LEMMA SelectKeeps == ASSUME Inv, NEW s \in Sessions, Select(s) PROVE Inv'
<1>1. panel \in Panels /\ calls \in Seq(Calls) /\ Unique(calls)
  BY DEF Inv, Typed, UniqueInv
<1>2. fetch' \in {"none", "asked", "coming"}
  BY DEF Select, listVars, Inv, Typed
<1>3. QED
  BY <1>1, <1>2, SelectFromKeeps DEF Select, listVars

\* The calls without one of them.
LEMMA RestFacts ==
  ASSUME Inv, NEW k \in DOMAIN calls
  PROVE  LET rest == RemoveAt(calls, k) IN
         /\ rest \in Seq(Calls) /\ Unique(rest)
         /\ \A i \in DOMAIN rest : \E j \in DOMAIN calls \ {k} : rest[i] = calls[j]
         /\ \A j \in DOMAIN calls \ {k} : \E i \in DOMAIN rest : rest[i] = calls[j]
         /\ \A i \in DOMAIN rest : CallOK(rest[i], life)
         /\ \A i \in DOMAIN rest : rest[i].kind \in {"attach", "create"} /\ rest[i].phase = "lost"
                                   => rest[i].id \in stranded
         /\ \A x, p : Guarded(calls, x, p) /\ ~Holds(calls[k], x, p) => Guarded(rest, x, p)
<1> DEFINE rest == RemoveAt(calls, k)
<1>1. calls \in Seq(Calls) /\ Unique(calls)
  BY DEF Inv, Typed, UniqueInv
<1>2. /\ rest \in Seq(Calls) /\ Unique(rest)
      /\ \A i \in DOMAIN rest : \E j \in DOMAIN calls \ {k} : rest[i] = calls[j]
      /\ \A j \in DOMAIN calls \ {k} : \E i \in DOMAIN rest : rest[i] = calls[j]
      /\ \A x, p : Guarded(calls, x, p) /\ ~Holds(calls[k], x, p) => Guarded(rest, x, p)
  BY <1>1, RemovedCalls
<1> HIDE DEF rest
<1>3. \A i \in DOMAIN rest : CallOK(rest[i], life)
  BY <1>2, CallsNow
<1>4. \A i \in DOMAIN rest : rest[i].kind \in {"attach", "create"} /\ rest[i].phase = "lost"
                             => rest[i].id \in stranded
  BY <1>2 DEF Inv, CoverInv
<1>5. QED
  BY <1>2, <1>3, <1>4 DEF rest

\* Closing the tab releases what is selected.
LEMMA UnmountKeeps == ASSUME Inv, Unmount PROVE Inv'
<1> DEFINE c == Call("detach", sel[panel], panel)
<1>1. /\ mounted /\ mounted' = FALSE /\ shown' = Nothing /\ error' = FALSE
      /\ calls' = IF sel[panel] = No THEN calls ELSE Append(calls, c)
      /\ stream' = FALSE /\ frames' = <<>> /\ include' = FALSE
      /\ UNCHANGED <<life, attached, panel, sel, listed, fetch, coming, stranded, cutOff>>
  BY DEF Unmount, daemonVars, marks
<1>2. /\ panel \in Panels /\ sel[panel] \in Sessions \cup {No} /\ calls \in Seq(Calls) /\ Unique(calls)
      /\ sel[panel] # No => life[sel[panel]] # "unmade"
  BY DEF Inv, Typed, SelInv, UniqueInv
<1>3. /\ sel[panel] # No => c \in Calls
      /\ c.kind = "detach" /\ ~c.leave /\ c.phase = "sent" /\ ~c.current
      /\ ~c.ended /\ c.panel = panel /\ c.id = sel[panel]
  BY <1>2, CallTyped DEF Call
<1> HIDE DEF c
<1>4. \A d : ~Same(c, d) /\ ~Same(d, c)
  BY <1>3 DEF Same
<1>5. /\ calls' \in Seq(Calls) /\ Unique(calls')
      /\ \A i \in DOMAIN calls' : \/ calls'[i] = c /\ sel[panel] # No
                                  \/ \E j \in DOMAIN calls : calls'[i] = calls[j]
      /\ \A j \in DOMAIN calls : \E i \in DOMAIN calls' : calls'[i] = calls[j]
      /\ sel[panel] # No => \E i \in DOMAIN calls' : calls'[i] = c
  <2>1. CASE sel[panel] = No
    BY <1>1, <1>2, <2>1
  <2>2. CASE sel[panel] # No
    <3>1. calls' = Append(calls, c)
      BY <1>1, <2>2
    <3>2. QED
      BY <1>2, <1>3, <1>4, <2>2, <3>1, AddedCalls
  <2>3. QED
    BY <2>1, <2>2
<1>6. Selected = sel[panel] /\ Selected' = No /\ \A p : ~OnScreen(p)'
  BY <1>1 DEF Selected, OnScreen
<1>7. Typed'
  <2>1. frames' \in Seq(Records)
    BY <1>1
  <2>2. QED
    BY <1>1, <1>5, <2>1 DEF Inv, Typed
<1>8. FactsInv'
  <2>1. \A i \in DOMAIN calls' : CallOK(calls'[i], life)
    <3>1. sel[panel] # No => CallOK(c, life)
      BY <1>2, <1>3 DEF CallOK
    <3>2. QED
      BY <1>5, <3>1, CallsNow
  <2>2. DOMAIN frames' = {}
    BY <1>1
  <2>3. QED
    BY <1>1, <2>1, <2>2 DEF Inv, FactsInv
<1>9. SelInv' /\ UniqueInv' /\ ClaimInv'
  BY <1>1, <1>5, <1>6 DEF Inv, SelInv, UniqueInv, ClaimInv
<1>10. CoverInv'
  <2> DEFINE Later(d, t) == /\ d.id = t
                            /\ \/ d.kind = "attach" \/ (d.kind = "detach" /\ ~d.leave)
                               \/ d.kind = "create" /\ t # sel[d.panel]
  <2> HIDE DEF Later
  <2>1. \A d, t : Accounts(d, t)' <=> Later(d, t)
    BY <1>1, <1>6 DEF Accounts, Later
  <2>2. ASSUME NEW t \in attached
        PROVE  t \in stranded \/ \E i \in DOMAIN calls' : Later(calls'[i], t)
    <3>1. CASE t = Selected
      <4>1. t \in Sessions
        BY DEF Inv, Typed
      <4>2. Later(c, t) /\ sel[panel] # No
        BY <1>3, <1>6, <3>1, <4>1, HostedAssumption DEF Later
      <4>3. QED
        BY <1>5, <4>2
    <3>2. CASE \E j \in DOMAIN calls : Accounts(calls[j], t) /\ t # Selected
      <4>1. PICK j \in DOMAIN calls : Accounts(calls[j], t) /\ t # Selected
        BY <3>2
      <4>2. Later(calls[j], t)
        BY <1>6, <4>1 DEF Accounts, Later, OnScreen
      <4>3. QED
        BY <1>5, <4>2
    <3>3. QED
      BY <3>1, <3>2 DEF Inv, CoverInv
  <2>3. \A i \in DOMAIN calls' : calls'[i].kind \in {"attach", "create"} /\ calls'[i].phase = "lost"
                                 => calls'[i].id \in stranded
    BY <1>3, <1>5 DEF Inv, CoverInv
  <2>4. QED
    BY <1>1, <2>1, <2>2, <2>3 DEF CoverInv
<1>11. QED
  BY <1>7, <1>8, <1>9, <1>10 DEF Inv

\* The tab is opened again, with nothing selected.
LEMMA MountKeeps == ASSUME Inv, Mount PROVE Inv'
<1>1. /\ ~mounted /\ panel < MaxPanels /\ panel' = panel + 1 /\ mounted' = TRUE
      /\ UNCHANGED <<life, attached, calls, sel, shown, error, stream, frames, include, listed,
                     fetch, coming, stranded, cutOff>>
  BY DEF Mount, daemonVars, streamVars, listVars, marks
<1>2. panel \in Nat /\ panel' \in Panels /\ panel' > panel
  BY <1>1, HostedAssumption DEF Inv, Typed, Panels
<1>3. Selected = No /\ Selected' = No /\ \A p : ~OnScreen(p)
  BY <1>1, <1>2 DEF Inv, SelInv, Selected, OnScreen
<1>4. Typed' /\ FactsInv' /\ UniqueInv' /\ ClaimInv'
  BY <1>1, <1>2, <1>3 DEF Inv, Typed, FactsInv, UniqueInv, ClaimInv
<1>5. SelInv'
  BY <1>1, <1>2 DEF Inv, SelInv, Panels
<1>6. CoverInv'
  BY <1>1, <1>3 DEF Inv, CoverInv, Accounts
<1>7. QED
  BY <1>4, <1>5, <1>6 DEF Inv

\* The answer of End is shown.
LEMMA AnswerKillKeeps ==
  ASSUME Inv, NEW k \in DOMAIN calls, AnswerKill(k)
  PROVE  Inv'
<1> DEFINE c == calls[k]
<1>1. /\ c.phase = "served" /\ c.kind = "kill" /\ calls' = RemoveAt(calls, k)
      /\ IF OnScreen(c.panel) /\ c.says = "all" THEN Show([id |-> c.id, ended |-> TRUE])
         ELSE UNCHANGED shown
      /\ fetch' = IF mounted /\ include THEN "asked" ELSE fetch
      /\ UNCHANGED <<life, attached, panel, mounted, sel, error, stream, frames, include, listed,
                     coming, stranded, cutOff>>
  BY DEF AnswerKill, Refetch, daemonVars, streamVars, marks
<1>2. c \in Calls /\ c.id \in Sessions /\ CallOK(c, life) /\ life[c.id] = "ended" /\ ~c.leave
  BY <1>1, CallsNow DEF Calls, CallOK
<1>3. /\ calls' \in Seq(Calls) /\ Unique(calls')
      /\ \A j \in DOMAIN calls \ {k} : \E i \in DOMAIN calls' : calls'[i] = calls[j]
      /\ \A i \in DOMAIN calls' : CallOK(calls'[i], life)
      /\ \A i \in DOMAIN calls' : calls'[i].kind \in {"attach", "create"} /\ calls'[i].phase = "lost"
                                  => calls'[i].id \in stranded
      /\ \A x, p : Guarded(calls, x, p) /\ ~Holds(calls[k], x, p) => Guarded(calls', x, p)
  BY <1>1, RestFacts
<1>4. \A x, p : ~Holds(c, x, p) /\ ~Leaves(c, p) /\ ~Accounts(c, x)
  BY <1>1, <1>2 DEF Holds, Leaves, Accounts
<1>5. /\ shown' = Nothing \/ shown' \in Records
      /\ shown' # Nothing => mounted /\ RecordOK(shown', life) /\ (shown'.id = Selected \/ shown'.ended)
  <2>1. CASE OnScreen(c.panel) /\ c.says = "all"
    <3> DEFINE r == [id |-> c.id, ended |-> TRUE]
    <3>1. Show(r) /\ mounted
      BY <1>1, <2>1 DEF OnScreen
    <3>2. r \in Records /\ RecordOK(r, life) /\ r.ended
      BY <1>2 DEF Records, RecordOK
    <3> HIDE DEF r
    <3>3. QED
      BY <3>1, <3>2, ShowFacts
  <2>2. CASE ~(OnScreen(c.panel) /\ c.says = "all")
    BY <1>1, <2>2 DEF Inv, Typed, FactsInv
  <2>3. QED
    BY <2>1, <2>2
<1>6. Typed'
  BY <1>1, <1>3, <1>5 DEF Inv, Typed
<1>7. FactsInv'
  <2>1. Selected' = Selected
    BY <1>1 DEF Selected
  <2>2. QED
    BY <1>1, <1>3, <1>5, <2>1 DEF Inv, FactsInv
<1>8. \A x, p : \A j \in DOMAIN calls :
        /\ Accounts(calls[j], x) => \E i \in DOMAIN calls' : Accounts(calls'[i], x)
        /\ Holds(calls[j], x, p) \/ Leaves(calls[j], p)
             => \E i \in DOMAIN calls' : Holds(calls'[i], x, p) \/ Leaves(calls'[i], p)
  BY <1>3, <1>4
<1>9. QED
  BY <1>1, <1>3, <1>4, <1>6, <1>7, <1>8, PanelKeeps DEF daemonVars

\* A panel releases what a call attached: the call is replaced by a detach behind
\* all others, of a session that is not selected or is cut off.
LEMMA DropKeeps ==
  ASSUME Inv, NEW k \in DOMAIN calls, calls[k].phase = "served", ~calls[k].leave,
         life[calls[k].id] # "unmade",
         calls' = Append(RemoveAt(calls, k), Call("detach", calls[k].id, calls[k].panel)),
         cutOff' \in {cutOff, cutOff \cup {calls[k].id}},
         OnScreen(calls[k].panel) /\ calls[k].id = sel[calls[k].panel] => calls[k].id \in cutOff',
         ~OnScreen(calls[k].panel) => calls[k].id \in cutOff',
         fetch' \in {"none", "asked", "coming"},
         UNCHANGED <<daemonVars, uiVars, streamVars, include, listed, coming, stranded>>
  PROVE  Inv'
<1> DEFINE c == calls[k]
           rest == RemoveAt(calls, k)
           detach == Call("detach", c.id, c.panel)
<1>1. UNCHANGED <<life, attached, panel, mounted, sel, shown, error, stream, frames, include, listed,
                  coming, stranded>>
  BY DEF daemonVars, uiVars, streamVars
<1>2. c \in Calls /\ c.id \in Sessions /\ c.panel \in Panels
  BY CallsNow DEF Calls
<1>3. /\ rest \in Seq(Calls) /\ Unique(rest)
      /\ \A j \in DOMAIN calls \ {k} : \E i \in DOMAIN rest : rest[i] = calls[j]
      /\ \A i \in DOMAIN rest : CallOK(rest[i], life)
      /\ \A i \in DOMAIN rest : rest[i].kind \in {"attach", "create"} /\ rest[i].phase = "lost"
                                => rest[i].id \in stranded
      /\ \A x, p : Guarded(calls, x, p) /\ ~Holds(c, x, p) => Guarded(rest, x, p)
  BY RestFacts
<1>4. \A x, p : ~Holds(c, x, p) /\ ~Leaves(c, p) /\ (Accounts(c, x) => x = c.id)
  BY DEF Holds, Leaves, Accounts
<1>5. /\ detach \in Calls /\ detach.kind = "detach" /\ ~detach.leave /\ detach.phase = "sent"
      /\ ~detach.current /\ ~detach.ended /\ detach.id = c.id
  BY <1>2, CallTyped DEF Call
<1> HIDE DEF rest, detach
<1>6. /\ \A d : ~Same(detach, d) /\ ~Same(d, detach)
      /\ \A x : Undoes(detach, x) => x = c.id
      /\ CallOK(detach, life)
  BY <1>5 DEF Same, Undoes, CallOK
<1>7. calls' = Append(rest, detach)
  BY DEF rest, detach
<1>8. /\ calls' \in Seq(Calls) /\ Unique(calls')
      /\ \A i \in DOMAIN calls' : calls'[i] = detach \/ \E j \in DOMAIN rest : calls'[i] = rest[j]
      /\ \A j \in DOMAIN rest : j \in DOMAIN calls' /\ calls'[j] = rest[j]
      /\ \E i \in DOMAIN calls' : calls'[i] = detach
      /\ \A x, p : Guarded(rest, x, p) /\ x # c.id => Guarded(calls', x, p)
  <2>1. /\ Append(rest, detach) \in Seq(Calls)
        /\ Unique(rest) /\ (\A j \in DOMAIN rest : ~Same(rest[j], detach) /\ ~Same(detach, rest[j]))
             => Unique(Append(rest, detach))
        /\ \A i \in DOMAIN Append(rest, detach) :
              Append(rest, detach)[i] = detach \/ \E j \in DOMAIN rest : Append(rest, detach)[i] = rest[j]
        /\ \A j \in DOMAIN rest : j \in DOMAIN Append(rest, detach) /\ Append(rest, detach)[j] = rest[j]
        /\ \E i \in DOMAIN Append(rest, detach) : Append(rest, detach)[i] = detach
        /\ \A x, p : Guarded(rest, x, p) /\ (Undoes(detach, x) => Leaves(detach, p))
                     => Guarded(Append(rest, detach), x, p)
    BY <1>3, <1>5, AddedCalls
  <2>2. Unique(Append(rest, detach))
    BY <1>3, <1>6, <2>1
  <2>3. \A x, p : Guarded(rest, x, p) /\ x # c.id => Guarded(Append(rest, detach), x, p)
    BY <1>6, <2>1
  <2>4. QED
    BY <1>7, <2>1, <2>2, <2>3
<1>9. Typed'
  BY <1>1, <1>2, <1>8 DEF Inv, Typed
<1>10. FactsInv'
  <2>1. \A i \in DOMAIN calls' : CallOK(calls'[i], life)
    BY <1>3, <1>6, <1>8
  <2>2. Selected' = Selected
    BY <1>1 DEF Selected
  <2>3. QED
    BY <1>1, <2>1, <2>2 DEF Inv, FactsInv
<1>11. \A j \in DOMAIN calls : \A t \in attached :
         Accounts(calls[j], t) => \E i \in DOMAIN calls' : Accounts(calls'[i], t)
  <2>1. Accounts(detach, c.id)
    BY <1>5 DEF Accounts
  <2>2. ASSUME NEW j \in DOMAIN calls, NEW t \in attached, Accounts(calls[j], t)
        PROVE  \E i \in DOMAIN calls' : Accounts(calls'[i], t)
    <3>1. CASE j = k
      <4>1. t = c.id
        BY <1>4, <2>2, <3>1
      <4>2. QED
        BY <1>8, <2>1, <4>1
    <3>2. CASE j # k
      <4>1. PICK i \in DOMAIN rest : rest[i] = calls[j]
        BY <1>3, <3>2
      <4>2. QED
        BY <1>8, <2>2, <4>1
    <3>3. QED
      BY <3>1, <3>2
  <2>3. QED
    BY <2>2
<1>12. \A i \in DOMAIN calls' : calls'[i].kind \in {"attach", "create"} /\ calls'[i].phase = "lost"
                                => calls'[i].id \in stranded
  BY <1>3, <1>5, <1>8
<1>13. ASSUME Selected # No, Selected \notin cutOff'
       PROVE  /\ Guarded(calls, Selected, panel) => Guarded(calls', Selected, panel)
              /\ \A j \in DOMAIN calls :
                   Holds(calls[j], Selected, panel) \/ Leaves(calls[j], panel)
                     => \E i \in DOMAIN calls' :
                          Holds(calls'[i], Selected, panel) \/ Leaves(calls'[i], panel)
  <2>1. Selected # c.id
    BY <1>13 DEF Selected, OnScreen
  <2>2. Guarded(calls, Selected, panel) => Guarded(calls', Selected, panel)
    BY <1>3, <1>4, <1>8, <2>1
  <2>3. ASSUME NEW j \in DOMAIN calls, Holds(calls[j], Selected, panel) \/ Leaves(calls[j], panel)
        PROVE  \E i \in DOMAIN calls' : Holds(calls'[i], Selected, panel) \/ Leaves(calls'[i], panel)
    <3>1. PICK i \in DOMAIN rest : rest[i] = calls[j]
      BY <1>3, <1>4, <2>3
    <3>2. QED
      BY <1>8, <2>3, <3>1
  <2>4. QED
    BY <2>2, <2>3
<1>14. cutOff \subseteq cutOff'
  OBVIOUS
<1>15. QED
  BY <1>1, <1>8, <1>9, <1>10, <1>11, <1>12, <1>13, <1>14, PanelKeeps DEF daemonVars

\* An answer to an attach is shown, or what it attached is released.
LEMMA AnswerAttachKeeps ==
  ASSUME Inv, NEW k \in DOMAIN calls, AnswerAttach(k)
  PROVE  Inv'
<1> DEFINE c == calls[k]
           rest == RemoveAt(calls, k)
           detach == Call("detach", c.id, c.panel)
<1>1. /\ c.phase = "served" /\ c.kind = "attach"
      /\ IF c.id = sel[c.panel] THEN AdoptAnswer(k) ELSE DropAnswer(k)
      /\ UNCHANGED <<life, attached, panel, mounted, sel, stream, frames, include, listed, fetch, coming>>
  BY DEF AnswerAttach, AttachAnswered, daemonVars, streamVars, listVars
<1>2. /\ c \in Calls /\ c.id \in Sessions /\ c.panel \in Panels /\ CallOK(c, life)
      /\ life[c.id] # "unmade" /\ ~c.leave /\ (c.ended => life[c.id] = "ended")
  BY <1>1, CallsNow DEF Calls, CallOK
<1>3. /\ rest \in Seq(Calls) /\ Unique(rest)
      /\ \A j \in DOMAIN calls \ {k} : \E i \in DOMAIN rest : rest[i] = calls[j]
      /\ \A i \in DOMAIN rest : CallOK(rest[i], life)
      /\ \A i \in DOMAIN rest : rest[i].kind \in {"attach", "create"} /\ rest[i].phase = "lost"
                                => rest[i].id \in stranded
      /\ \A x, p : Guarded(calls, x, p) /\ ~Holds(c, x, p) => Guarded(rest, x, p)
  BY RestFacts
<1>4. \A x, p : ~Holds(c, x, p) /\ ~Leaves(c, p) /\ (Accounts(c, x) => x = c.id)
  BY <1>1, <1>2 DEF Holds, Leaves, Accounts
<1> HIDE DEF rest
<1>5. Selected' = Selected
  BY <1>1 DEF Selected
<1>6. CASE c.id = sel[c.panel]
  <2>1. /\ calls' = rest /\ cutOff' = cutOff
        /\ IF ~OnScreen(c.panel) THEN stranded' = stranded \cup {c.id} /\ UNCHANGED <<shown, error>>
           ELSE IF c.says = "all"
           THEN Show([id |-> c.id, ended |-> c.ended]) /\ error' = FALSE /\ UNCHANGED stranded
           ELSE error' = TRUE /\ UNCHANGED <<shown, stranded>>
    BY <1>1, <1>6 DEF AdoptAnswer, rest
  <2>2. OnScreen(c.panel) => c.id = Selected /\ mounted
    BY <1>6 DEF OnScreen, Selected
  <2>3. /\ shown' = Nothing \/ shown' \in Records
        /\ shown' # Nothing => mounted /\ RecordOK(shown', life) /\ (shown'.id = Selected \/ shown'.ended)
    <3>1. CASE OnScreen(c.panel) /\ c.says = "all"
      <4> DEFINE r == [id |-> c.id, ended |-> c.ended]
      <4>1. Show(r) /\ mounted
        BY <2>1, <2>2, <3>1
      <4>2. r \in Records /\ RecordOK(r, life) /\ r.id = Selected
        BY <1>2, <2>2, <3>1 DEF Records, RecordOK, Calls
      <4> HIDE DEF r
      <4>3. QED
        BY <4>1, <4>2, ShowFacts
    <3>2. CASE ~(OnScreen(c.panel) /\ c.says = "all")
      BY <2>1, <3>2 DEF Inv, Typed, FactsInv
    <3>3. QED
      BY <3>1, <3>2
  <2>4. /\ error' \in BOOLEAN /\ stranded' \subseteq Sessions /\ stranded \subseteq stranded'
        /\ ~OnScreen(c.panel) => c.id \in stranded'
    BY <1>2, <2>1 DEF Inv, Typed
  <2>5. Typed'
    BY <1>1, <1>3, <2>1, <2>3, <2>4 DEF Inv, Typed
  <2>6. FactsInv'
    BY <1>1, <1>3, <1>5, <2>1, <2>3 DEF Inv, FactsInv
  <2>7. \A x, p : \A j \in DOMAIN calls :
          /\ Accounts(calls[j], x) => \/ x = Selected \/ x \in stranded'
                                      \/ \E i \in DOMAIN rest : Accounts(rest[i], x)
          /\ Holds(calls[j], x, p) \/ Leaves(calls[j], p)
               => \E i \in DOMAIN rest : Holds(rest[i], x, p) \/ Leaves(rest[i], p)
    BY <1>3, <1>4, <2>2, <2>4
  <2>8. \A i \in DOMAIN rest : rest[i].kind \in {"attach", "create"} /\ rest[i].phase = "lost"
                               => rest[i].id \in stranded'
    BY <1>3, <2>4
  <2>9. QED
    BY <1>1, <1>3, <1>4, <2>1, <2>4, <2>5, <2>6, <2>7, <2>8, PanelKeeps DEF daemonVars
<1>7. CASE c.id # sel[c.panel]
  <2>1. /\ calls' = Append(rest, detach) /\ UNCHANGED <<shown, error, stranded>>
        /\ cutOff' = IF OnScreen(c.panel) THEN cutOff ELSE cutOff \cup {c.id}
    BY <1>1, <1>7 DEF DropAnswer, rest
  <2>2. QED
    BY <1>1, <1>2, <1>7, <2>1, DropKeeps DEF rest, daemonVars, uiVars, streamVars, Inv, Typed
<1>8. QED
  BY <1>6, <1>7

\* A call that is answered or fails is gone, or is lost and may yet be served.
LEMMA GoneCalls ==
  ASSUME Inv, NEW k \in DOMAIN calls,
         \/ calls' = RemoveAt(calls, k)
         \/ calls[k].phase = "sent" /\ calls' = [calls EXCEPT ![k].phase = "lost"]
  PROVE  /\ calls' \in Seq(Calls) /\ Unique(calls')
         /\ \A i \in DOMAIN calls' : CallOK(calls'[i], life)
         /\ \A j \in DOMAIN calls \ {k} : \E i \in DOMAIN calls' : calls'[i] = calls[j]
         /\ \A i \in DOMAIN calls' :
              calls'[i].kind \in {"attach", "create"} /\ calls'[i].phase = "lost"
                => \/ calls'[i].id \in stranded
                   \/ calls[k].kind \in {"attach", "create"} /\ calls'[i].id = calls[k].id
         /\ \A x, p : Guarded(calls, x, p) /\ ~Holds(calls[k], x, p) /\ ~Leaves(calls[k], p)
                      => Guarded(calls', x, p)
<1>1. CASE calls' = RemoveAt(calls, k)
  BY <1>1, RestFacts
<1>2. CASE calls[k].phase = "sent" /\ calls' = [calls EXCEPT ![k].phase = "lost"]
  <2> DEFINE c == [calls[k] EXCEPT !.phase = "lost"]
  <2>1. calls \in Seq(Calls) /\ calls[k] \in Calls /\ CallOK(calls[k], life) /\ Unique(calls)
    BY CallsNow DEF Inv, UniqueInv
  <2>2. /\ c \in Calls /\ c.phase = "lost" /\ c.kind = calls[k].kind /\ c.id = calls[k].id
        /\ c.leave = calls[k].leave /\ c.ended = calls[k].ended /\ c.current = calls[k].current
        /\ c.panel = calls[k].panel
    BY <2>1 DEF Calls
  <2>3. calls' = [calls EXCEPT ![k] = c]
    BY <1>2, <2>1
  <2> HIDE DEF c
  <2>4. /\ CallOK(c, life)
        /\ \A d : Same(c, d) \/ Same(d, c) => Same(calls[k], d)
        /\ \A x : Undoes(c, x) => Undoes(calls[k], x)
    BY <1>2, <2>1, <2>2 DEF CallOK, Same, Undoes
  <2>5. /\ calls' \in Seq(Calls) /\ DOMAIN calls' = DOMAIN calls /\ Unique(calls')
        /\ calls'[k] = c /\ \A j \in DOMAIN calls \ {k} : calls'[j] = calls[j]
        /\ \A x, p : Guarded(calls, x, p) /\ ~Holds(calls[k], x, p) /\ ~Leaves(calls[k], p)
                     => Guarded(calls', x, p)
    BY <2>1, <2>2, <2>3, <2>4, ChangedCalls
  <2>6. \A i \in DOMAIN calls' : CallOK(calls'[i], life)
    BY <2>4, <2>5, CallsNow
  <2>7. ASSUME NEW i \in DOMAIN calls', calls'[i].kind \in {"attach", "create"}, calls'[i].phase = "lost"
        PROVE  \/ calls'[i].id \in stranded
               \/ calls[k].kind \in {"attach", "create"} /\ calls'[i].id = calls[k].id
    BY <2>2, <2>5, <2>7 DEF Inv, CoverInv
  <2>8. QED
    BY <2>5, <2>6, <2>7
<1>3. QED
  BY <1>1, <1>2

\* It is gone, and the selection stays.
LEMMA GoneKeeps ==
  ASSUME Inv, NEW k \in DOMAIN calls,
         \/ calls' = RemoveAt(calls, k)
         \/ calls[k].phase = "sent" /\ calls' = [calls EXCEPT ![k].phase = "lost"],
         calls[k].kind \in {"attach", "create"} => calls[k].id \in stranded' \/ calls' = RemoveAt(calls, k),
         \A t \in attached : Accounts(calls[k], t) => t = Selected \/ t \in stranded',
         Selected # No /\ Selected \notin cutOff'
           => ~Holds(calls[k], Selected, panel) /\ ~Leaves(calls[k], panel),
         stranded \subseteq stranded', stranded' \subseteq Sessions,
         cutOff \subseteq cutOff', cutOff' \subseteq Sessions,
         fetch' \in {"none", "asked", "coming"}, error' \in BOOLEAN,
         UNCHANGED <<life, attached, panel, mounted, sel, shown, stream, frames, include, listed, coming>>
  PROVE  Inv'
<1>1. /\ calls' \in Seq(Calls) /\ Unique(calls')
      /\ \A i \in DOMAIN calls' : CallOK(calls'[i], life)
      /\ \A j \in DOMAIN calls \ {k} : \E i \in DOMAIN calls' : calls'[i] = calls[j]
      /\ \A i \in DOMAIN calls' :
           calls'[i].kind \in {"attach", "create"} /\ calls'[i].phase = "lost"
             => \/ calls'[i].id \in stranded
                \/ calls[k].kind \in {"attach", "create"} /\ calls'[i].id = calls[k].id
      /\ \A x, p : Guarded(calls, x, p) /\ ~Holds(calls[k], x, p) /\ ~Leaves(calls[k], p)
                   => Guarded(calls', x, p)
  BY GoneCalls
<1>2. Typed'
  BY <1>1 DEF Inv, Typed
<1>3. FactsInv'
  BY <1>1 DEF Inv, FactsInv, Selected
<1>4. \A i \in DOMAIN calls' :
         calls'[i].kind \in {"attach", "create"} /\ calls'[i].phase = "lost" => calls'[i].id \in stranded'
  <2>1. CASE calls' = RemoveAt(calls, k)
    BY <2>1, RestFacts
  <2>2. CASE calls' # RemoveAt(calls, k)
    BY <1>1, <2>2
  <2>3. QED
    BY <2>1, <2>2
<1>5. \A j \in DOMAIN calls : \A t \in attached :
         Accounts(calls[j], t) => \/ t = Selected \/ t \in stranded'
                                  \/ \E i \in DOMAIN calls' : Accounts(calls'[i], t)
  BY <1>1
<1>6. ASSUME Selected # No, Selected \notin cutOff'
      PROVE  /\ Guarded(calls, Selected, panel) => Guarded(calls', Selected, panel)
             /\ \A j \in DOMAIN calls :
                  Holds(calls[j], Selected, panel) \/ Leaves(calls[j], panel)
                    => \E i \in DOMAIN calls' :
                         Holds(calls'[i], Selected, panel) \/ Leaves(calls'[i], panel)
  BY <1>1, <1>6
<1>7. QED
  BY <1>1, <1>2, <1>3, <1>4, <1>5, <1>6, PanelKeeps DEF daemonVars

\* It is gone, and the selection is cleared.
LEMMA LetGoKeeps ==
  ASSUME Inv, NEW k \in DOMAIN calls, calls[k].leave,
         \/ calls' = RemoveAt(calls, k)
         \/ calls[k].phase = "sent" /\ calls' = [calls EXCEPT ![k].phase = "lost"],
         LetGo(calls[k].panel), fetch' \in {"none", "asked", "coming"},
         UNCHANGED <<life, attached, panel, mounted, stream, frames, include, listed, coming, cutOff>>
  PROVE  Inv'
<1> DEFINE p == calls[k].panel
<1>1. /\ calls[k].kind = "detach" /\ p \in Panels /\ panel \in Panels
      /\ sel \in [Panels -> Sessions \cup {No}]
      /\ \A x, q : ~Holds(calls[k], x, q) /\ ~Accounts(calls[k], x)
  BY CallsNow DEF CallOK, Calls, Holds, Accounts, Inv, Typed
<1>2. CASE ~OnScreen(p)
  <2>1. UNCHANGED <<sel, shown, error, stranded>>
    BY <1>2 DEF LetGo
  <2>2. Selected # No => ~Leaves(calls[k], panel)
    BY <1>2 DEF Selected, OnScreen, Leaves
  <2>3. error' \in BOOLEAN /\ stranded' \subseteq Sessions /\ cutOff' \subseteq Sessions
    BY <2>1 DEF Inv, Typed
  <2>4. QED
    BY <1>1, <2>1, <2>2, <2>3, GoneKeeps
<1>3. CASE OnScreen(p)
  <2>1. /\ p = panel /\ mounted /\ sel' = [sel EXCEPT ![p] = No] /\ shown' = Nothing /\ error' = FALSE
        /\ stranded' = stranded \cup ({Selected} \cap attached)
    BY <1>3 DEF LetGo, OnScreen, Selected
  <2>2. Selected' = No /\ \A q : OnScreen(q)' <=> OnScreen(q)
    BY <1>1, <2>1 DEF Selected, OnScreen
  <2>3. /\ calls' \in Seq(Calls) /\ Unique(calls')
        /\ \A i \in DOMAIN calls' : CallOK(calls'[i], life)
        /\ \A j \in DOMAIN calls \ {k} : \E i \in DOMAIN calls' : calls'[i] = calls[j]
        /\ \A i \in DOMAIN calls' :
             calls'[i].kind \in {"attach", "create"} /\ calls'[i].phase = "lost"
               => calls'[i].id \in stranded
    BY <1>1, GoneCalls
  <2>4. Typed'
    <3>1. stranded' \subseteq Sessions /\ sel' \in [Panels -> Sessions \cup {No}]
      BY <1>1, <2>1 DEF Inv, Typed
    <3>2. UNION {listed, coming, stranded', cutOff} \subseteq Sessions
      BY <3>1 DEF Inv, Typed
    <3>3. /\ life \in [Sessions -> {"unmade", "live", "ended"}]
          /\ attached \subseteq {s \in Sessions : life[s] = "live"}
          /\ {mounted, error', stream, include} \subseteq BOOLEAN
          /\ frames \in Seq(Records) /\ fetch' \in {"none", "asked", "coming"}
      BY <2>1 DEF Inv, Typed
    <3>4. QED
      BY <1>1, <2>1, <2>3, <3>1, <3>2, <3>3 DEF Typed
  <2>5. FactsInv'
    BY <2>1, <2>3 DEF Inv, FactsInv
  <2>6. SelInv' /\ UniqueInv' /\ ClaimInv'
    BY <1>1, <2>1, <2>2, <2>3 DEF Inv, SelInv, UniqueInv, ClaimInv
  <2>7. CoverInv'
    <3> DEFINE Later(d, t) ==
          /\ d.id = t
          /\ \/ d.kind = "attach" \/ (d.kind = "detach" /\ ~d.leave)
             \/ d.kind = "create" /\ (OnScreen(d.panel) \/ t # sel'[d.panel])
    <3>1. \A d, t : Accounts(d, t)' <=> Later(d, t)
      BY <2>2 DEF Accounts
    <3>2. ASSUME NEW j \in DOMAIN calls, NEW t, Accounts(calls[j], t) PROVE Later(calls[j], t)
      <4>1. calls[j].panel \in Panels
        BY CallsNow DEF Calls
      <4>2. OnScreen(calls[j].panel) \/ sel'[calls[j].panel] = sel[calls[j].panel]
        BY <1>1, <2>1, <4>1 DEF OnScreen
      <4>3. QED
        BY <3>2, <4>2 DEF Accounts
    <3> HIDE DEF Later
    <3>3. ASSUME NEW t \in attached
          PROVE  t \in stranded' \/ \E i \in DOMAIN calls' : Later(calls'[i], t)
      <4>1. CASE \E j \in DOMAIN calls : Accounts(calls[j], t)
        BY <1>1, <2>3, <3>2, <4>1
      <4>2. QED
        BY <2>1, <4>1 DEF Inv, CoverInv
    <3>4. QED
      BY <2>1, <2>2, <2>3, <3>1, <3>3 DEF CoverInv
  <2>8. QED
    BY <2>4, <2>5, <2>6, <2>7 DEF Inv
<1>4. QED
  BY <1>2, <1>3

\* The answer of Leave clears the selection.
LEMMA AnswerLeaveKeeps ==
  ASSUME Inv, NEW k \in DOMAIN calls, AnswerLeave(k)
  PROVE  Inv'
<1>1. fetch' \in {"none", "asked", "coming"}
  BY DEF AnswerLeave, Refetch, Inv, Typed
<1>2. QED
  BY <1>1, LetGoKeeps DEF AnswerLeave, daemonVars, streamVars

\* The answer of Create selects what was made, or gives it up.
LEMMA AnswerCreateKeeps ==
  ASSUME Inv, NEW k \in DOMAIN calls, AnswerCreate(k)
  PROVE  Inv'
<1> DEFINE c == calls[k]
           rest == RemoveAt(calls, k)
<1>1. /\ c.phase = "served" /\ c.kind = "create"
      /\ fetch' \in {"none", "asked", "coming"}
      /\ UNCHANGED <<life, attached, panel, mounted, stream, frames, include, listed, coming>>
  BY DEF AnswerCreate, Refetch, daemonVars, streamVars, Inv, Typed
<1>2. /\ c \in Calls /\ c.id \in Sessions /\ c.panel \in Panels /\ CallOK(c, life)
      /\ life[c.id] # "unmade" /\ ~c.leave
  BY <1>1, CallsNow DEF Calls, CallOK
<1>3. \A x, p : ~Holds(c, x, p) /\ ~Leaves(c, p) /\ (Accounts(c, x) => x = c.id)
  BY <1>1, <1>2 DEF Holds, Leaves, Accounts
<1>4. stranded \subseteq Sessions /\ cutOff \subseteq Sessions /\ error \in BOOLEAN
  BY DEF Inv, Typed
<1>5. CASE c.says = "all" /\ c.id = sel[c.panel]
  <2>1. calls' = rest /\ UNCHANGED <<sel, shown, error, cutOff, stranded>>
    BY <1>5 DEF AnswerCreate
  <2>2. \A t \in attached : Accounts(c, t) => t = Selected
    BY <1>1, <1>5 DEF Accounts, OnScreen, Selected
  <2>3. QED
    BY <1>1, <1>3, <1>4, <2>1, <2>2, GoneKeeps
<1>6. CASE c.says = "all" /\ c.id # sel[c.panel]
  <2>1. SelectFrom(c.panel, c.id, rest) /\ UNCHANGED stranded
    BY <1>6 DEF AnswerCreate
  <2>2. /\ rest \in Seq(Calls) /\ Unique(rest)
        /\ \A i \in DOMAIN rest : \E j \in DOMAIN calls : rest[i] = calls[j]
        /\ \A j \in DOMAIN calls \ {k} : \E i \in DOMAIN rest : rest[i] = calls[j]
        /\ \A x, p : Guarded(calls, x, p) => Guarded(rest, x, p)
    BY <1>3, RestFacts
  <2> HIDE DEF rest
  <2>3. \A j \in DOMAIN calls :
          \/ \E i \in DOMAIN rest : rest[i] = calls[j]
          \/ calls[j].id = c.id /\ calls[j].kind = "create" /\ calls[j].phase = "served"
    BY <1>1, <2>2
  <2>4. QED
    BY <1>1, <1>2, <1>6, <2>1, <2>2, <2>3, SelectFromKeeps DEF daemonVars, streamVars
<1>7. CASE c.says = "id"
  <2>1. /\ calls' = Append(rest, Call("detach", c.id, c.panel))
        /\ cutOff' = cutOff \cup {c.id} /\ UNCHANGED <<stranded, sel, shown, error>>
    BY <1>7 DEF AnswerCreate
  <2>2. QED
    BY <1>1, <1>2, <2>1, DropKeeps DEF daemonVars, uiVars, streamVars
<1>8. CASE c.says = "nothing"
  <2>1. /\ calls' = rest /\ stranded' = stranded \cup {c.id} /\ UNCHANGED <<sel, shown, error, cutOff>>
    BY <1>8 DEF AnswerCreate
  <2>2. stranded' \subseteq Sessions /\ c.id \in stranded'
    BY <1>2, <1>4, <2>1
  <2>3. QED
    BY <1>1, <1>3, <1>4, <2>1, <2>2, GoneKeeps
<1>9. QED
  BY <1>2, <1>5, <1>6, <1>7, <1>8 DEF Calls

\* A call fails.
LEMMA FailsKeeps ==
  ASSUME Inv, NEW k \in DOMAIN calls, Fails(k)
  PROVE  Inv'
<1> DEFINE c == calls[k]
<1>1. /\ \/ calls' = RemoveAt(calls, k)
         \/ c.phase = "sent" /\ calls' = [calls EXCEPT ![k].phase = "lost"]
      /\ UNCHANGED <<life, attached, panel, mounted, stream, frames, include, listed, coming>>
  BY DEF Fails, daemonVars, streamVars
<1>2. c \in Calls /\ c.id \in Sessions /\ CallOK(c, life)
  BY CallsNow DEF Calls
<1>3. CASE c.leave
  <2>1. LetGo(c.panel) /\ UNCHANGED cutOff /\ fetch' \in {"none", "asked", "coming"}
    BY <1>3 DEF Fails, Refetch, Inv, Typed
  <2>2. QED
    BY <1>1, <1>3, <2>1, LetGoKeeps
<1>4. CASE ~c.leave
  <2>1. /\ stranded' = IF c.kind = "kill" THEN stranded ELSE stranded \cup {c.id}
        /\ cutOff' = IF c.kind = "kill" THEN cutOff ELSE cutOff \cup {c.id}
        /\ error' \in BOOLEAN /\ UNCHANGED <<sel, shown, fetch>>
    BY <1>4 DEF Fails, Inv, Typed
  <2>2. /\ stranded \subseteq stranded' /\ stranded' \subseteq Sessions
        /\ cutOff \subseteq cutOff' /\ cutOff' \subseteq Sessions
        /\ fetch' \in {"none", "asked", "coming"}
    BY <1>2, <2>1 DEF Inv, Typed
  <2>3. \A t : Accounts(c, t) => t \in stranded'
    BY <2>1 DEF Accounts
  <2>4. c.kind \in {"attach", "create"} => c.id \in stranded'
    BY <2>1
  <2>5. Selected \notin cutOff' => ~Holds(c, Selected, panel) /\ ~Leaves(c, panel)
    BY <1>4, <2>1 DEF Holds, Leaves
  <2>6. QED
    BY <1>1, <2>1, <2>2, <2>3, <2>4, <2>5, GoneKeeps
<1>5. QED
  BY <1>3, <1>4

\* Every step keeps the invariant.
LEMMA InvStep == Inv /\ [Next]_vars => Inv'
<1> SUFFICES ASSUME Inv, [Next]_vars PROVE Inv'
  OBVIOUS
<1>1. ASSUME NEW s \in Sessions, Select(s) \/ Create(s) \/ EndsElsewhere(s) PROVE Inv'
  BY <1>1, SelectKeeps, CreateKeeps, EndsElsewhereKeeps
<1>2. CASE Leave \/ End \/ Toggle \/ Unmount \/ Mount
  BY <1>2, LeaveKeeps, EndKeeps, ListKeeps, UnmountKeeps, MountKeeps
<1>3. ASSUME NEW k \in DOMAIN calls, Daemon(k) \/ Garble(k) PROVE Inv'
  BY <1>3, ServeAttachKeeps, ServeDetachKeeps, ServeKillKeeps, GarbleKeeps DEF Daemon
<1>4. ASSUME NEW k \in DOMAIN calls, Answer(k) \/ Fails(k) PROVE Inv'
  BY <1>4, AnswerAttachKeeps, AnswerCreateKeeps, AnswerKillKeeps, AnswerLeaveKeeps, FailsKeeps DEF Answer
<1>5. CASE StreamReady \/ StreamBreaks \/ FrameArrives \/ Poll \/ FetchServed \/ FetchArrives
  BY <1>5, StreamKeeps, FrameKeeps, ListKeeps
<1>6. CASE UNCHANGED vars
  <2>1. Typed' /\ FactsInv'
    BY <1>6 DEF vars, daemonVars, streamVars, listVars, uiVars, marks, bounds, Inv, Typed, FactsInv, Selected
  <2>2. QED
    BY <1>6, <2>1, QuietKeeps DEF vars, uiVars
<1>7. QED
  BY <1>1, <1>2, <1>3, <1>4, <1>5, <1>6 DEF Next

\* Hence it always holds.
LEMMA InvAlways == Spec => []Inv
  BY InvInit, InvStep, PTL DEF Spec

\* Every reachable state of the tab is well typed, and a panel waits for one call of a kind.
THEOREM HostedTyped == Spec => []TypeOK
  BY InvSuffices, InvAlways, PTL

\* A live record on screen is the selected session's (attachResponseAction, onEvent).
THEOREM ShownSelected == Spec => []ShownIsSelected
  BY InvSuffices, InvAlways, PTL

\* When no call is under way, the daemon has the app attached to the selected session
\* at most, and to the one on screen as live.
THEOREM AttachedToSelected == Spec => []AttachedToWhatIsShown
  BY InvSuffices, InvAlways, PTL

\* A detach in passing never ends the session on screen.
THEOREM PassingHarmless == Spec => PassingByEndsNothing
<1> DEFINE A == \A k \in DOMAIN calls :
                  ServeDetach(k) /\ ~calls[k].leave /\ calls[k].panel = panel
                    /\ Detail /\ shown.id = Selected /\ calls[k].id = shown.id
                  => life' = life \/ shown.id \in cutOff
<1>1. Inv /\ [Next]_vars => [A]_vars
  <2> SUFFICES ASSUME Inv, NEW k \in DOMAIN calls, ServeDetach(k), ~calls[k].leave, Detail,
                      shown.id = Selected, calls[k].id = shown.id, shown.id \notin cutOff
               PROVE  FALSE
    OBVIOUS
  <2>1. Undoes(calls[k], Selected) /\ Selected # No
    BY DEF ServeDetach, Due, Undoes, Detail
  <2>2. PICK j \in DOMAIN calls : Holds(calls[j], Selected, panel)
    BY <2>1 DEF Inv, ClaimInv, Guarded, Leaves
  <2>3. Pending("attach")
    BY <2>2 DEF Pending, Holds
  <2>4. QED
    BY <2>3 DEF Detail
<1>2. QED
  BY <1>1, InvAlways, PTL DEF Spec, PassingByEndsNothing
=============================================================================
