------------------------ MODULE DocumentDraftsProofs ------------------------
(***************************************************************************)
(* Theorems about a document, its list and its draft, for any comments and *)
(* texts and any number of mutations, failures and remounts.               *)
(*                                                                         *)
(* What makes them inductive: every mutation has a known shape (Typed);    *)
(* whoever changed the item has yet to have the list fetched again, so     *)
(* that the list and the fetch on its way hold the item as stored unless   *)
(* somebody still owes that (ListInv); no other request is running while   *)
(* one is alone, so the item it puts back differs from the stored one by   *)
(* its own edit (AloneInv); and the debounce says where the unsaved text   *)
(* is (DraftInv).                                                          *)
(***************************************************************************)
EXTENDS DocumentDrafts, SeqFacts

\* The shape of a mutation and of a version.
Kinds == {"none", "save", "comments", "accept"}
PhaseNames == {"done", "posting", "putting", "served", "refreshing"}
Version == [v : Nat, text : AllTexts]
CommentStates == [Comments -> {"none", "open", "resolved", "accepted"}]

MutationStates == [kind : Kinds, phase : PhaseNames, mine : BOOLEAN, alone : BOOLEAN,
                   text : AllTexts, item : Documents]

\* The editor that is mounted has one save and one comment update running.
OneOfAKind ==
  \A m, n \in Mutations :
    m # n /\ mut[m].kind = mut[n].kind /\ mut[m].kind # "accept"
      /\ mut[m].mine /\ mut[n].mine => ~(Running(m) /\ Running(n))

\* The types of the state.
EditorTyped ==
  /\ text \in AllTexts /\ draft \in AllTexts /\ unsaved \in AllTexts
  /\ timer \in {"none", "armed", "fired", "cleared"}
  /\ open \in BOOLEAN /\ hadDraft \in BOOLEAN /\ synced \in BOOLEAN

ItemsTyped ==
  /\ store \in Documents /\ coming \in Documents
  /\ list = <<>> \/ \E item \in Documents : list = <<item>>
  /\ fetch \in {"none", "asked", "coming"} /\ behind \in BOOLEAN
  /\ failures \in 0..MaxFailures /\ leaves \in 0..MaxLeaves

MutTyped == mut \in [Mutations -> MutationStates]

Typed == EditorTyped /\ ItemsTyped /\ MutTyped /\ OneOfAKind

\* Somebody changed the item who has not had the list fetched again.
Stale ==
  \/ behind
  \/ \E m \in Mutations : \/ mut[m].phase = "served"
                          \/ mut[m].kind = "accept" /\ mut[m].phase = "putting"

\* Somebody is having it fetched again.
Refreshing == \E m \in Mutations : mut[m].phase = "refreshing"

\* Unless somebody owes the list a fetch, it shows the item as stored.
ListInv ==
  /\ list # <<>> => Doc = store \/ Stale \/ Refreshing
  /\ fetch = "coming" => coming = store \/ Stale
  /\ Refreshing => fetch # "none"

\* Who is alone puts back the stored item with its own edit.
AloneInv ==
  \A m \in Mutations : mut[m].alone /\ Running(m) =>
    /\ \A n \in Mutations \ {m} : ~Running(n)
    /\ mut[m].kind = "comments" /\ mut[m].phase = "putting" =>
         /\ mut[m].item.comments \in Edits(store.comments)
         /\ mut[m].item.versions = store.versions

\* The unsaved text is where the debounce says.
DraftInv ==
  /\ ~open => timer = "none" /\ \A m \in Mutations : ~mut[m].mine
  /\ timer = "cleared" => unsaved = Empty
  /\ unsaved # Empty => /\ timer \in {"armed", "fired"} => text = unsaved
                        /\ timer \in {"none", "fired"} => draft = unsaved

\* What every step keeps.
DocumentInv == Typed /\ ListInv /\ AloneInv /\ DraftInv

USE DraftsAssumption
----------------------------------------------------------------------------
\* The newest number is one a version has, or 0.
LEMMA LatestTyped ==
  ASSUME NEW versions \in Seq(Version)
  PROVE  Latest(versions) \in Nat
<1> DEFINE numbers == [k \in DOMAIN versions |-> versions[k].v]
           S == {0} \cup {numbers[k] : k \in DOMAIN numbers}
<1>1. numbers \in Seq(Nat)
  <2>1. ASSUME NEW k \in 1..Len(versions) PROVE versions[k].v \in Nat
    <3>1. versions[k] \in Version
      OBVIOUS
    <3>2. QED
      BY <3>1 DEF Version
  <2>2. QED
    BY <2>1
<1>2. S = {0} \cup {versions[k].v : k \in DOMAIN versions}
  OBVIOUS
<1> HIDE DEF numbers
<1>3. Max(S) \in Nat
  BY <1>1, MaxFacts
<1>4. QED
  BY <1>2, <1>3 DEF Latest

\* The head version says some text, or none.
LEMMA HeadTextTyped ==
  ASSUME NEW item \in Documents
  PROVE  /\ HeadText(item) \in AllTexts
         /\ item.versions # <<>> => Last(item.versions).text \in AllTexts
<1>1. item.versions \in Seq(Version)
  BY DEF Documents, Version
<1>2. ASSUME item.versions # <<>> PROVE Last(item.versions).text \in AllTexts
  <2>1. Len(item.versions) \in 1..Len(item.versions)
    BY <1>1, <1>2
  <2>2. item.versions[Len(item.versions)] \in Version
    BY <1>1, <2>1
  <2>3. QED
    BY <2>2 DEF Last, Version
<1>3. QED
  BY <1>2 DEF HeadText, AllTexts

\* A new document is one, and no mutation is running at first.
LEMMA CreatedTyped == Created \in Documents /\ Idle \in MutationStates
<1>1. <<>> \in Seq(Version)
  OBVIOUS
<1>2. Created \in Documents
  BY <1>1 DEF Created, Documents, Version
<1>3. Idle \in MutationStates
  BY <1>2 DEF Idle, MutationStates, Kinds, PhaseNames, AllTexts
<1>4. QED
  BY <1>2, <1>3

\* Nothing is running at first.
LEMMA DocumentInit == Init => DocumentInv
<1> SUFFICES ASSUME Init PROVE DocumentInv
  OBVIOUS
<1>1. Typed
  <2>1. EditorTyped
    BY DEF Init, EditorTyped, AllTexts
  <2>2. ItemsTyped
    <3>1. store \in Documents /\ coming \in Documents /\ list = <<>>
      BY CreatedTyped DEF Init
    <3>2. failures \in 0..MaxFailures /\ leaves \in 0..MaxLeaves
      BY DEF Init
    <3>3. fetch \in {"none", "asked", "coming"} /\ behind \in BOOLEAN
      BY DEF Init
    <3>4. QED
      BY <3>1, <3>2, <3>3 DEF ItemsTyped
  <2>3. MutTyped
    BY CreatedTyped DEF Init, MutTyped
  <2>4. OneOfAKind
    BY DEF Init, OneOfAKind, Running, Idle
  <2>5. QED
    BY <2>1, <2>2, <2>3, <2>4 DEF Typed
<1>2. ListInv /\ AloneInv /\ DraftInv
  BY DEF Init, ListInv, AloneInv, DraftInv, Stale, Refreshing, Idle, Running
<1>3. QED
  BY <1>1, <1>2 DEF DocumentInv

----------------------------------------------------------------------------
\* The editor: none of its actions touches the item or a request.

\* What leaves the item, its list and the mutations alone.
LEMMA KeepsMutations ==
  ASSUME DocumentInv, UNCHANGED <<store, list, fetch, coming, mut, behind>>,
         EditorTyped', failures' \in 0..MaxFailures, leaves' \in 0..MaxLeaves, DraftInv'
  PROVE  DocumentInv'
<1>1. ItemsTyped'
  BY DEF DocumentInv, Typed, ItemsTyped
<1>2. MutTyped' /\ OneOfAKind'
  BY DEF DocumentInv, Typed, MutTyped, OneOfAKind, Running
<1>3. ListInv'
  BY DEF DocumentInv, ListInv, Stale, Refreshing, Doc
<1>4. AloneInv'
  BY DEF DocumentInv, AloneInv, Running, Edits
<1>5. QED
  BY <1>1, <1>2, <1>3, <1>4 DEF DocumentInv, Typed

\* A key is typed.
LEMMA TypeKeeps ==
  ASSUME DocumentInv, NEW t \in Texts, Type(t)
  PROVE  DocumentInv'
<1>1. EditorTyped'
  BY DEF DocumentInv, Typed, EditorTyped, Type, SetDraft, mountVars, AllTexts
<1>2. DraftInv'
  BY DEF DocumentInv, DraftInv, Type, SetDraft, mountVars, Loaded
<1>3. QED
  BY <1>1, <1>2, KeepsMutations DEF Type, DocumentInv, Typed, ItemsTyped

\* The debounce stores the draft.
LEMMA DebounceFiresKeeps ==
  ASSUME DocumentInv, DebounceFires
  PROVE  DocumentInv'
<1>1. EditorTyped'
  BY DEF DocumentInv, Typed, EditorTyped, DebounceFires, mountVars
<1>2. DraftInv'
  BY DEF DocumentInv, DraftInv, DebounceFires, mountVars
<1>3. QED
  BY <1>1, <1>2, KeepsMutations DEF DebounceFires, DocumentInv, Typed, ItemsTyped

\* The mutations go on without the editor that started them.
LEMMA LeaveKeeps ==
  ASSUME DocumentInv, Leave
  PROVE  DocumentInv'
<1>1. /\ MutTyped'
      /\ \A m \in Mutations : /\ mut'[m].kind = mut[m].kind /\ mut'[m].phase = mut[m].phase
                              /\ mut'[m].alone = mut[m].alone /\ mut'[m].item = mut[m].item
                              /\ ~mut'[m].mine
  BY DEF DocumentInv, Typed, MutTyped, MutationStates, Leave
<1>2. EditorTyped' /\ ItemsTyped'
  <2>1. EditorTyped'
    BY DEF DocumentInv, Typed, EditorTyped, Leave, AllTexts
  <2>2. UNCHANGED <<store, list, fetch, coming, behind, failures>>
        /\ leaves < MaxLeaves /\ leaves' = leaves + 1
    BY DEF Leave
  <2>3. ItemsTyped'
    BY <2>2 DEF DocumentInv, Typed, ItemsTyped
  <2>4. QED
    BY <2>1, <2>3
<1>3. OneOfAKind'
  BY <1>1 DEF OneOfAKind
<1>4. ListInv'
  BY <1>1 DEF DocumentInv, ListInv, Stale, Refreshing, Doc, Leave
<1>5. AloneInv'
  <2>1. UNCHANGED store
    BY DEF Leave
  <2>2. QED
    BY <1>1, <2>1 DEF DocumentInv, AloneInv, Running, Edits
<1>6. DraftInv'
  <2>1. timer' = "none" /\ unsaved' = unsaved
    BY DEF Leave
  <2>2. unsaved # Empty => draft' = unsaved
    BY DEF DocumentInv, Typed, EditorTyped, DraftInv, Leave
  <2>3. QED
    BY <1>1, <2>1, <2>2 DEF DraftInv
<1>7. QED
  BY <1>1, <1>2, <1>3, <1>4, <1>5, <1>6 DEF DocumentInv, Typed

\* The editor is mounted.
LEMMA EnterKeeps ==
  ASSUME DocumentInv, Enter
  PROVE  DocumentInv'
<1> DEFINE head == IF list = <<>> THEN <<>> ELSE Doc.versions
<1>1. head # <<>> => Last(head).text \in AllTexts
  BY HeadTextTyped DEF DocumentInv, Typed, ItemsTyped, Doc
<1>2. \/ text' = draft /\ timer' = timer
      \/ text' = Last(head).text /\ timer' = "armed" /\ draft = Empty /\ head # <<>>
  BY DEF Enter, SetDraft
<1> HIDE DEF head
<1>3. EditorTyped'
  BY <1>1, <1>2 DEF DocumentInv, Typed, EditorTyped, Enter
<1>4. /\ UNCHANGED <<store, list, coming, mut, behind, draft, unsaved, failures, leaves>>
      /\ fetch' = (IF fetch = "none" THEN "asked" ELSE fetch)
      /\ ~open /\ open'
  BY DEF Enter
<1>5. ItemsTyped' /\ MutTyped' /\ OneOfAKind'
  BY <1>4 DEF DocumentInv, Typed, ItemsTyped, MutTyped, OneOfAKind, Running
<1>6. ListInv'
  BY <1>4 DEF DocumentInv, ListInv, Stale, Refreshing, Doc
<1>7. AloneInv'
  BY <1>4 DEF DocumentInv, AloneInv, Running, Edits
<1>8. DraftInv'
  BY <1>2, <1>4 DEF DocumentInv, DraftInv
<1>9. QED
  BY <1>3, <1>5, <1>6, <1>7, <1>8 DEF DocumentInv, Typed

\* A mutation that is over.
LEMMA DoneTyped ==
  ASSUME MutTyped, NEW m \in Mutations
  PROVE  /\ Done(m) \in MutationStates /\ Done(m).phase = "done"
         /\ Done(m).kind = mut[m].kind /\ ~Done(m).mine /\ ~Done(m).alone
<1>1. /\ Done(m).phase = "done" /\ Done(m).kind = mut[m].kind
      /\ ~Done(m).mine /\ ~Done(m).alone
  BY DEF Done, Idle
<1>2. Idle \in MutationStates /\ mut[m] \in MutationStates
  BY CreatedTyped DEF MutTyped
<1>3. Done(m) \in MutationStates
  <2>1. mut[m].kind \in Kinds
    BY <1>2 DEF MutationStates
  <2>2. QED
    BY <1>2, <2>1 DEF Done, MutationStates
<1>4. QED
  BY <1>1, <1>3

\* The editor is unmounted.
LEMMA QuitKeeps ==
  ASSUME DocumentInv, Quit
  PROVE  DocumentInv'
<1>1. MutTyped
  BY DEF DocumentInv, Typed
<1>2. /\ mut' \in [Mutations -> MutationStates]
      /\ \A m \in Mutations : mut'[m].phase = "done" /\ ~mut'[m].mine /\ ~mut'[m].alone
  BY <1>1, DoneTyped DEF Quit
<1>3. EditorTyped'
  BY DEF DocumentInv, Typed, EditorTyped, Quit, AllTexts
<1>4. ItemsTyped'
  <2>1. /\ UNCHANGED <<store, failures>> /\ list' = <<>> /\ fetch' = "none"
        /\ coming' = Created /\ behind' = FALSE
        /\ leaves < MaxLeaves /\ leaves' = leaves + 1
    BY DEF Quit
  <2>2. failures' \in 0..MaxFailures /\ leaves' \in 0..MaxLeaves /\ store' \in Documents
    BY <2>1 DEF DocumentInv, Typed, ItemsTyped
  <2>3. coming' \in Documents /\ list' = <<>>
    BY <2>1, CreatedTyped
  <2>4. fetch' \in {"none", "asked", "coming"} /\ behind' \in BOOLEAN
    BY <2>1
  <2>5. QED
    BY <2>2, <2>3, <2>4 DEF ItemsTyped
<1>5. MutTyped' /\ OneOfAKind'
  BY <1>2 DEF MutTyped, OneOfAKind
<1>6. ListInv' /\ AloneInv'
  BY <1>2 DEF ListInv, AloneInv, Refreshing, Quit
<1>7. DraftInv'
  BY <1>2 DEF DocumentInv, Typed, EditorTyped, DraftInv, Quit
<1>8. QED
  BY <1>3, <1>4, <1>5, <1>6, <1>7 DEF DocumentInv, Typed

----------------------------------------------------------------------------
\* The list.

\* The list is fetched.
LEMMA PollKeeps ==
  ASSUME DocumentInv, Poll \/ FetchServed
  PROVE  DocumentInv'
<1>1. UNCHANGED <<store, list, mut, behind, failures, leaves, text, draft, timer, synced,
                  unsaved, open, hadDraft>>
  BY DEF Poll, FetchServed, editorVars, mountVars
<1>2. EditorTyped' /\ ItemsTyped' /\ MutTyped' /\ OneOfAKind'
  BY <1>1 DEF DocumentInv, Typed, EditorTyped, ItemsTyped, MutTyped, OneOfAKind, Running,
              Poll, FetchServed
<1>3. ListInv'
  BY <1>1 DEF DocumentInv, ListInv, Stale, Refreshing, Doc, Poll, FetchServed
<1>4. AloneInv'
  BY <1>1 DEF DocumentInv, AloneInv, Running, Edits
<1>5. DraftInv'
  BY <1>1 DEF DocumentInv, DraftInv
<1>6. QED
  BY <1>2, <1>3, <1>4, <1>5 DEF DocumentInv, Typed

\* Putting the first version into the editor.
LEMMA SyncFromLoadKeeps ==
  ASSUME EditorTyped, NEW item \in Documents, SyncFromLoad(item), UNCHANGED mountVars, open
  PROVE  /\ EditorTyped'
         /\ \/ UNCHANGED <<text, draft, timer, unsaved>>
            \/ timer' = "armed" /\ unsaved' = Empty
<1>1. HeadText(item) \in AllTexts
  BY HeadTextTyped
<1>2. QED
  BY <1>1 DEF SyncFromLoad, SetDraft, editorVars, mountVars, EditorTyped, AllTexts

\* And arrives.
LEMMA FetchArrivesKeeps ==
  ASSUME DocumentInv, FetchArrives
  PROVE  DocumentInv'
<1>1. MutTyped
  BY DEF DocumentInv, Typed
<1>2. \A m \in Mutations : mut'[m] = IF mut[m].phase = "refreshing" THEN Done(m) ELSE mut[m]
  BY DEF FetchArrives
<1>3. MutTyped'
  BY <1>1, <1>2, DoneTyped DEF MutTyped, FetchArrives
<1>4. \A m \in Mutations :
        \/ mut[m].phase = "refreshing" /\ mut'[m].phase = "done" /\ ~mut'[m].mine
        \/ mut[m].phase # "refreshing" /\ mut'[m] = mut[m]
  BY <1>1, <1>2, DoneTyped
<1>5. OneOfAKind'
  BY <1>4 DEF DocumentInv, Typed, OneOfAKind, Running
<1>6. ItemsTyped' /\ list' = <<coming>>
  BY CreatedTyped DEF DocumentInv, Typed, ItemsTyped, FetchArrives
<1>7. /\ EditorTyped'
      /\ \/ UNCHANGED <<text, draft, timer, unsaved>>
         \/ open /\ timer' = "armed" /\ unsaved' = Empty
  <2>1. CASE open
    BY <2>1, SyncFromLoadKeeps DEF FetchArrives, DocumentInv, Typed, ItemsTyped
  <2>2. CASE ~open
    BY <2>2 DEF FetchArrives, DocumentInv, Typed, EditorTyped, editorVars, mountVars
  <2>3. QED
    BY <2>1, <2>2
<1>8. fetch = "coming" /\ fetch' = "none" /\ UNCHANGED <<store, open>>
      /\ behind' = (behind /\ coming # store)
  BY DEF FetchArrives, mountVars
<1>9. ListInv'
  <2>1. Doc' = coming
    BY <1>6 DEF Doc
  <2>2. coming = store \/ Stale'
    BY <1>4, <1>8 DEF DocumentInv, ListInv, Stale
  <2>3. ~Refreshing'
    BY <1>4 DEF Refreshing
  <2>4. QED
    BY <1>8, <2>1, <2>2, <2>3 DEF ListInv
<1>10. AloneInv'
  BY <1>4, <1>8 DEF DocumentInv, AloneInv, Running, Edits
<1>11. DraftInv'
  BY <1>4, <1>7, <1>8 DEF DocumentInv, DraftInv
<1>12. QED
  BY <1>3, <1>5, <1>6, <1>7, <1>9, <1>10, <1>11 DEF DocumentInv, Typed

----------------------------------------------------------------------------
\* The mutations.

\* A request is sent: nothing is owed before it is served.
LEMMA StartKeeps ==
  ASSUME DocumentInv, NEW m \in Mutations, NEW mutation \in MutationStates, Start(m, mutation),
         Loaded, mutation.phase \in {"posting", "putting"},
         mutation.kind = "accept" => mutation.phase = "posting",
         mutation.kind \in {"save", "comments"} =>
           \A n \in Mutations : ~(mut[n].kind = mutation.kind /\ mut[n].mine /\ Running(n)),
         mutation.kind = "comments" /\ mutation.phase = "putting" =>
           /\ mutation.item.comments \in Edits(Doc.comments)
           /\ mutation.item.versions = Doc.versions,
         mutation.kind # "none"
  PROVE  DocumentInv'
<1> DEFINE alone == ~behind /\ \A k \in Mutations \ {m} : ~Running(k)
<1>1. UNCHANGED <<store, list, fetch, coming, text, draft, timer, synced, unsaved, open, hadDraft,
                  behind, failures, leaves>>
  BY DEF Start, editorVars, mountVars
<1>2. mut' = [n \in Mutations |-> IF n = m THEN [mutation EXCEPT !.alone = alone]
                                  ELSE [mut[n] EXCEPT !.alone = FALSE]]
  BY DEF Start
<1>3. ~Running(m) /\ mut[m].kind = "none"
  BY DEF Start
<1>4. /\ [mutation EXCEPT !.alone = alone] \in MutationStates
      /\ \A n \in Mutations : [mut[n] EXCEPT !.alone = FALSE] \in MutationStates
  BY DEF DocumentInv, Typed, MutTyped, MutationStates
<1>5. MutTyped'
  BY <1>2, <1>4 DEF MutTyped
<1>6. /\ mut'[m].kind = mutation.kind /\ mut'[m].phase = mutation.phase
      /\ mut'[m].alone = alone /\ mut'[m].item = mutation.item
  BY <1>2 DEF MutationStates
<1>7. ASSUME NEW n \in Mutations \ {m}
      PROVE  /\ mut'[n].kind = mut[n].kind /\ mut'[n].phase = mut[n].phase
             /\ mut'[n].mine = mut[n].mine /\ ~mut'[n].alone
  BY <1>2 DEF DocumentInv, Typed, MutTyped, MutationStates
<1> HIDE DEF alone
<1>8. EditorTyped' /\ ItemsTyped'
  <2>1. EditorTyped'
    BY <1>1 DEF DocumentInv, Typed, EditorTyped
  <2>2. ItemsTyped'
    BY <1>1 DEF DocumentInv, Typed, ItemsTyped
  <2>3. QED
    BY <2>1, <2>2
<1>9. OneOfAKind'
  <2> SUFFICES ASSUME NEW k \in Mutations, NEW n \in Mutations, k # n,
                      mut'[k].kind = mut'[n].kind, mut'[k].kind # "accept",
                      mut'[k].mine, mut'[n].mine, Running(k)', Running(n)'
               PROVE  FALSE
    BY DEF OneOfAKind
  <2>1. CASE k # m /\ n # m
    BY <1>7, <2>1 DEF DocumentInv, Typed, OneOfAKind, Running
  <2>2. mutation.kind \in Kinds
    BY DEF MutationStates
  <2>3. CASE k = m \/ n = m
    BY <1>6, <1>7, <2>2, <2>3 DEF Kinds, Running
  <2>4. QED
    BY <2>1, <2>3
<1>10. Stale' = Stale /\ Refreshing' = Refreshing
  <2>1. ~(mut'[m].phase = "served" \/ mut'[m].phase = "refreshing")
        /\ ~(mut'[m].kind = "accept" /\ mut'[m].phase = "putting")
    BY <1>6
  <2>2. ~(mut[m].phase = "served" \/ mut[m].phase = "refreshing")
        /\ ~(mut[m].kind = "accept" /\ mut[m].phase = "putting")
    BY <1>3 DEF Running
  <2>3. Stale' <=> Stale
    BY <1>1, <1>7, <2>1, <2>2 DEF Stale
  <2>4. Refreshing' <=> Refreshing
    BY <1>1, <1>7, <2>1, <2>2 DEF Refreshing
  <2>5. QED
    BY <2>3, <2>4 DEF Stale, Refreshing
<1>11. ListInv'
  BY <1>1, <1>10 DEF DocumentInv, ListInv, Doc
<1>12. AloneInv'
  <2> SUFFICES ASSUME NEW k \in Mutations, mut'[k].alone, Running(k)'
               PROVE  /\ \A n \in Mutations \ {k} : ~Running(n)'
                      /\ mut'[k].kind = "comments" /\ mut'[k].phase = "putting" =>
                           /\ mut'[k].item.comments \in Edits(store'.comments)
                           /\ mut'[k].item.versions = store'.versions
    BY DEF AloneInv, Edits
  <2>1. k = m /\ alone
    BY <1>6, <1>7
  <2>2. \A n \in Mutations \ {m} : ~Running(n)
    BY <2>1 DEF alone
  <2>3. \A n \in Mutations \ {m} : ~Running(n)'
    BY <1>7, <2>2 DEF Running
  <2>4. ASSUME mutation.kind = "comments", mutation.phase = "putting"
        PROVE  mutation.item.comments \in Edits(store.comments)
               /\ mutation.item.versions = store.versions
    <3>1. ~Stale /\ ~Refreshing
      BY <1>3, <2>1, <2>2 DEF alone, Stale, Refreshing, Running
    <3>2. Doc = store
      BY <3>1 DEF DocumentInv, ListInv, Loaded
    <3>3. QED
      BY <2>4, <3>2
  <2>5. QED
    BY <1>1, <1>6, <2>1, <2>3, <2>4
<1>13. DraftInv'
  BY <1>1 DEF DocumentInv, DraftInv, Loaded
<1>14. QED
  BY <1>5, <1>8, <1>9, <1>11, <1>12, <1>13 DEF DocumentInv, Typed

\* Save posts the text.
LEMMA SaveKeeps ==
  ASSUME DocumentInv, NEW m \in Mutations, Save(m)
  PROVE  DocumentInv'
<1> DEFINE mutation == [Idle EXCEPT !.kind = "save", !.phase = "posting", !.mine = TRUE,
                                    !.text = text]
<1>1. mutation \in MutationStates /\ mutation.kind = "save" /\ mutation.phase = "posting"
  BY CreatedTyped DEF DocumentInv, Typed, EditorTyped, MutationStates, Idle, Kinds, PhaseNames
<1>2. Start(m, mutation) /\ Loaded /\ ~Pending("save")
  BY DEF Save
<1> HIDE DEF mutation
<1>3. QED
  BY <1>1, <1>2, StartKeeps DEF Pending

\* A comment is edited.
LEMMA EditCommentKeeps ==
  ASSUME DocumentInv, NEW m \in Mutations, EditComment(m)
  PROVE  DocumentInv'
<1>1. PICK comments \in Edits(Doc.comments) :
        Start(m, [Idle EXCEPT !.kind = "comments", !.phase = "putting", !.mine = TRUE,
                              !.item = WithComments(Doc, comments)])
  BY DEF EditComment
<1> DEFINE item == WithComments(Doc, comments)
           mutation == [Idle EXCEPT !.kind = "comments", !.phase = "putting", !.mine = TRUE,
                                    !.item = item]
<1>2. Loaded /\ ~Pending("comments")
  BY DEF EditComment
<1>3. Doc \in Documents
  BY <1>2 DEF DocumentInv, Typed, ItemsTyped, Loaded, Doc
<1>4. comments \in CommentStates
  BY <1>3 DEF Edits, Documents, CommentStates
<1>5. item \in Documents /\ item.comments = comments /\ item.versions = Doc.versions
  BY <1>3, <1>4 DEF WithComments, Documents, CommentStates
<1> HIDE DEF item
<1>6. /\ mutation \in MutationStates /\ mutation.kind = "comments"
      /\ mutation.phase = "putting" /\ mutation.item = item
  BY <1>5, CreatedTyped DEF MutationStates, Idle, Kinds, PhaseNames
<1>7. Start(m, mutation)
  BY <1>1 DEF item
<1> HIDE DEF mutation
<1>8. QED
  BY <1>2, <1>5, <1>6, <1>7, StartKeeps DEF Pending

\* A suggestion is accepted: first a version, then the comments.
LEMMA AcceptKeeps ==
  ASSUME DocumentInv, NEW m \in Mutations, Accept(m)
  PROVE  DocumentInv'
<1> DEFINE comments == [Doc.comments EXCEPT ![First] = "accepted"]
           item == WithComments(Doc, comments)
           mutation == [Idle EXCEPT !.kind = "accept", !.phase = "posting", !.mine = TRUE,
                                    !.text = Suggestion, !.item = item]
<1>1. Start(m, mutation) /\ Loaded
  BY DEF Accept
<1>2. Doc \in Documents
  BY <1>1 DEF DocumentInv, Typed, ItemsTyped, Loaded, Doc
<1>3. comments \in CommentStates
  BY <1>2 DEF Documents, CommentStates
<1> HIDE DEF comments
<1>4. item \in Documents
  BY <1>2, <1>3 DEF WithComments, Documents, CommentStates
<1> HIDE DEF item
<1>5. mutation \in MutationStates /\ mutation.kind = "accept" /\ mutation.phase = "posting"
  BY <1>4, CreatedTyped DEF MutationStates, Idle, Kinds, PhaseNames, AllTexts
<1> HIDE DEF mutation
<1>6. QED
  BY <1>1, <1>5, StartKeeps

\* What the registry or the editor makes of one running mutation.
LEMMA OneMutationKeeps ==
  ASSUME DocumentInv, NEW m \in Mutations, Running(m), NEW state \in MutationStates,
         mut' = [mut EXCEPT ![m] = state], state.kind = mut[m].kind,
         state.mine => mut[m].mine, state.alone => mut[m].alone
  PROVE  /\ MutTyped' /\ OneOfAKind'
         /\ mut'[m] = state /\ \A n \in Mutations \ {m} : mut'[n] = mut[n]
         /\ \A k \in Mutations : mut'[k].alone /\ Running(k)' =>
              k = m /\ mut[m].alone /\ \A n \in Mutations \ {m} : ~Running(n)'
<1>1. /\ MutTyped'
      /\ mut'[m] = state /\ \A n \in Mutations \ {m} : mut'[n] = mut[n]
  BY DEF DocumentInv, Typed, MutTyped
<1>2. OneOfAKind'
  <2> SUFFICES ASSUME NEW k \in Mutations, NEW n \in Mutations, k # n,
                      mut'[k].kind = mut'[n].kind, mut'[k].kind # "accept",
                      mut'[k].mine, mut'[n].mine, Running(k)', Running(n)'
               PROVE  FALSE
    BY DEF OneOfAKind
  <2>1. \A j \in Mutations : /\ mut'[j].kind = mut[j].kind /\ (mut'[j].mine => mut[j].mine)
                             /\ (Running(j)' => Running(j))
    BY <1>1 DEF Running
  <2>2. QED
    BY <2>1 DEF DocumentInv, Typed, OneOfAKind
<1>3. ASSUME NEW k \in Mutations, mut'[k].alone, Running(k)'
      PROVE  k = m /\ mut[m].alone /\ \A n \in Mutations \ {m} : ~Running(n)'
  <2>1. mut[k].alone /\ Running(k)
    BY <1>1, <1>3 DEF Running
  <2>2. k = m
    BY <2>1 DEF DocumentInv, AloneInv
  <2>3. \A n \in Mutations \ {m} : ~Running(n)
    BY <2>1, <2>2 DEF DocumentInv, AloneInv
  <2>4. QED
    BY <1>1, <2>1, <2>2, <2>3 DEF Running
<1>4. QED
  BY <1>1, <1>2, <1>3

\* The registry serves a request: from then on the list has to be fetched.
LEMMA ServedKeeps ==
  ASSUME DocumentInv, NEW m \in Mutations, mut[m].phase \in {"posting", "putting"},
         NEW p \in {"putting", "served"}, mut' = [mut EXCEPT ![m].phase = p],
         p = "putting" => mut[m].kind = "accept",
         store' \in Documents,
         UNCHANGED <<list, fetch, coming, editorVars, mountVars, behind, failures, leaves>>
  PROVE  DocumentInv'
<1> DEFINE state == [mut[m] EXCEPT !.phase = p]
<1>1. mut[m] \in MutationStates
  BY DEF DocumentInv, Typed, MutTyped
<1>2. /\ state \in MutationStates /\ state.kind = mut[m].kind /\ state.mine = mut[m].mine
      /\ state.alone = mut[m].alone /\ state.phase = p
  BY <1>1 DEF MutationStates, PhaseNames
<1>3. mut' = [mut EXCEPT ![m] = state] /\ Running(m)
  BY DEF Running
<1> HIDE DEF state
<1>4. /\ MutTyped' /\ OneOfAKind'
      /\ mut'[m] = state /\ \A n \in Mutations \ {m} : mut'[n] = mut[n]
      /\ \A k \in Mutations : mut'[k].alone /\ Running(k)' =>
           k = m /\ mut[m].alone /\ \A n \in Mutations \ {m} : ~Running(n)'
  BY <1>2, <1>3, OneMutationKeeps
<1>5. EditorTyped'
  BY DEF DocumentInv, Typed, EditorTyped, editorVars, mountVars
<1>6. ItemsTyped'
  BY DEF DocumentInv, Typed, ItemsTyped
<1>7. Stale'
  BY <1>2, <1>4 DEF Stale
<1>8. Refreshing' => Refreshing
  BY <1>2, <1>4 DEF Refreshing
<1>9. ListInv'
  BY <1>7, <1>8 DEF DocumentInv, ListInv
<1>10. AloneInv'
  <2> SUFFICES ASSUME NEW k \in Mutations, mut'[k].alone, Running(k)'
               PROVE  /\ \A n \in Mutations \ {k} : ~Running(n)'
                      /\ ~(mut'[k].kind = "comments" /\ mut'[k].phase = "putting")
    BY DEF AloneInv
  <2>1. k = m /\ \A n \in Mutations \ {m} : ~Running(n)'
    BY <1>4
  <2>2. QED
    BY <1>2, <1>4, <2>1
<1>11. DraftInv'
  <2>1. \A n \in Mutations : mut'[n].mine = mut[n].mine
    BY <1>2, <1>4
  <2>2. QED
    BY <2>1 DEF DocumentInv, DraftInv, editorVars, mountVars
<1>12. QED
  BY <1>4, <1>5, <1>6, <1>9, <1>10, <1>11 DEF DocumentInv, Typed

\* The registry appends the version.
LEMMA ServePostKeeps ==
  ASSUME DocumentInv, NEW m \in Mutations, ServePost(m)
  PROVE  DocumentInv'
<1> DEFINE v == Latest(store.versions) + 1
           version == [v |-> v, text |-> mut[m].text]
           p == IF mut[m].kind = "accept" THEN "putting" ELSE "served"
<1>1. store \in Documents /\ store.versions \in Seq(Version) /\ mut[m].text \in AllTexts
  BY DEF DocumentInv, Typed, ItemsTyped, MutTyped, MutationStates, Documents, Version
<1>2. v \in Nat
  BY <1>1, LatestTyped
<1>3. store' = [store EXCEPT !.versions = Append(store.versions, version), !.head = v]
  BY DEF ServePost
<1>4. mut[m].phase = "posting" /\ mut' = [mut EXCEPT ![m].phase = p]
      /\ UNCHANGED <<list, fetch, coming, editorVars, mountVars, behind, failures, leaves>>
  BY DEF ServePost
<1> HIDE DEF v
<1>5. Append(store.versions, version) \in Seq(Version)
  <2>1. version \in Version
    BY <1>1, <1>2 DEF Version
  <2>2. QED
    BY <1>1, <2>1, AppendFacts
<1> HIDE DEF version
<1>6. store' \in Documents
  BY <1>1, <1>2, <1>3, <1>5 DEF Documents, Version
<1>7. QED
  BY <1>4, <1>6, ServedKeeps

\* The registry stores what is put.
LEMMA ServePutKeeps ==
  ASSUME DocumentInv, NEW m \in Mutations, ServePut(m)
  PROVE  DocumentInv'
<1>1. mut[m].item \in Documents
  BY DEF DocumentInv, Typed, MutTyped, MutationStates
<1>2. QED
  BY <1>1, ServedKeeps DEF ServePut

\* A request fails.
LEMMA RefuseKeeps ==
  ASSUME DocumentInv, NEW m \in Mutations, Refuse(m)
  PROVE  DocumentInv'
<1>1. /\ mut[m].phase \in {"posting", "putting"} /\ mut' = [mut EXCEPT ![m] = Done(m)]
      /\ behind' = (behind \/ (mut[m].kind = "accept" /\ mut[m].phase = "putting"))
      /\ UNCHANGED <<store, list, fetch, coming, text, draft, timer, synced, unsaved, open,
                     hadDraft, leaves>>
  BY DEF Refuse, editorVars, mountVars
<1>2. /\ Done(m) \in MutationStates /\ Done(m).phase = "done" /\ Done(m).kind = mut[m].kind
      /\ ~Done(m).mine /\ ~Done(m).alone
  BY DoneTyped DEF DocumentInv, Typed
<1>3. Running(m)
  BY <1>1 DEF Running
<1>4. /\ MutTyped' /\ OneOfAKind'
      /\ mut'[m] = Done(m) /\ \A n \in Mutations \ {m} : mut'[n] = mut[n]
      /\ \A k \in Mutations : mut'[k].alone /\ Running(k)' =>
           k = m /\ mut[m].alone /\ \A n \in Mutations \ {m} : ~Running(n)'
  BY <1>1, <1>2, <1>3, OneMutationKeeps
<1>5. EditorTyped' /\ ItemsTyped'
  <2>1. EditorTyped'
    BY <1>1 DEF DocumentInv, Typed, EditorTyped
  <2>2. failures' \in 0..MaxFailures /\ behind' \in BOOLEAN
    BY DEF Refuse, DocumentInv, Typed, ItemsTyped
  <2>3. ItemsTyped'
    BY <1>1, <2>2 DEF DocumentInv, Typed, ItemsTyped
  <2>4. QED
    BY <2>1, <2>3
<1>6. Stale => Stale'
  BY <1>1, <1>4 DEF Stale
<1>7. Refreshing' <=> Refreshing
  BY <1>1, <1>2, <1>4 DEF Refreshing
<1>8. ListInv'
  BY <1>1, <1>6, <1>7 DEF DocumentInv, ListInv, Doc
<1>9. AloneInv'
  BY <1>2, <1>4 DEF AloneInv
<1>10. DraftInv'
  <2>1. \A n \in Mutations : mut'[n].mine => mut[n].mine
    BY <1>2, <1>4
  <2>2. QED
    BY <1>1, <2>1 DEF DocumentInv, DraftInv
<1>11. QED
  BY <1>4, <1>5, <1>8, <1>9, <1>10 DEF DocumentInv, Typed

\* An answer is awaited, and the list fetched again.
LEMMA SucceedsKeeps ==
  ASSUME DocumentInv, NEW m \in Mutations, Succeeds(m)
  PROVE  DocumentInv'
<1> DEFINE state == IF open THEN [mut[m] EXCEPT !.phase = "refreshing"] ELSE Done(m)
<1>1. /\ mut[m].phase = "served" /\ mut' = [mut EXCEPT ![m] = state]
      /\ fetch' = (IF open THEN "asked" ELSE fetch) /\ behind' = (behind \/ ~open)
      /\ UNCHANGED <<store, list, coming, synced, open, hadDraft, failures, leaves>>
  BY DEF Succeeds, FetchAgain, mountVars
<1>2. mut[m] \in MutationStates /\ Running(m)
  BY <1>1 DEF DocumentInv, Typed, MutTyped, Running
<1>3. /\ Done(m) \in MutationStates /\ Done(m).phase = "done" /\ Done(m).kind = mut[m].kind
      /\ ~Done(m).mine /\ ~Done(m).alone
  BY DoneTyped DEF DocumentInv, Typed
<1>4. /\ state \in MutationStates /\ state.kind = mut[m].kind
      /\ (state.mine => mut[m].mine) /\ (state.alone => mut[m].alone)
      /\ state.phase = IF open THEN "refreshing" ELSE "done"
  BY <1>2, <1>3 DEF MutationStates, PhaseNames
<1> HIDE DEF state
<1>5. /\ MutTyped' /\ OneOfAKind'
      /\ mut'[m] = state /\ \A n \in Mutations \ {m} : mut'[n] = mut[n]
      /\ \A k \in Mutations : mut'[k].alone /\ Running(k)' =>
           k = m /\ mut[m].alone /\ \A n \in Mutations \ {m} : ~Running(n)'
  BY <1>1, <1>2, <1>4, OneMutationKeeps
<1>6. \/ UNCHANGED <<text, draft, timer, unsaved>>
      \/ /\ draft' = Empty /\ unsaved' = Empty
         /\ text' \in {text, Suggestion} /\ timer' \in {timer, "cleared"}
         /\ timer' = timer \/ mut[m].mine
  BY DEF Succeeds, ClearDraft
<1>7. EditorTyped'
  BY <1>1, <1>6 DEF DocumentInv, Typed, EditorTyped, AllTexts
<1>8. ItemsTyped'
  BY <1>1 DEF DocumentInv, Typed, ItemsTyped
<1>9. ListInv'
  <2>1. CASE open
    <3>1. Refreshing' /\ fetch' = "asked"
      BY <1>1, <1>4, <1>5, <2>1 DEF Refreshing
    <3>2. QED
      BY <3>1 DEF ListInv
  <2>2. CASE ~open
    <3>1. Stale' /\ fetch' = fetch /\ (Refreshing' => Refreshing)
      BY <1>1, <1>4, <1>5, <2>2 DEF Stale, Refreshing
    <3>2. QED
      BY <1>1, <3>1 DEF DocumentInv, ListInv
  <2>3. QED
    BY <2>1, <2>2
<1>10. AloneInv'
  <2> SUFFICES ASSUME NEW k \in Mutations, mut'[k].alone, Running(k)'
               PROVE  /\ \A n \in Mutations \ {k} : ~Running(n)'
                      /\ mut'[k].phase # "putting"
    BY DEF AloneInv
  <2>1. k = m /\ \A n \in Mutations \ {m} : ~Running(n)'
    BY <1>5
  <2>2. QED
    BY <1>4, <1>5, <2>1
<1>11. DraftInv'
  <2>1. \A n \in Mutations : mut'[n].mine => mut[n].mine
    BY <1>4, <1>5
  <2>2. QED
    BY <1>1, <1>6, <2>1 DEF DocumentInv, DraftInv
<1>12. QED
  BY <1>5, <1>7, <1>8, <1>9, <1>10, <1>11 DEF DocumentInv, Typed

----------------------------------------------------------------------------
\* Every step keeps the invariant.
LEMMA DocumentStep == DocumentInv /\ [Next]_vars => DocumentInv'
<1> SUFFICES ASSUME DocumentInv, [Next]_vars PROVE DocumentInv'
  OBVIOUS
<1>1. ASSUME NEW t \in Texts, Type(t) PROVE DocumentInv'
  BY <1>1, TypeKeeps
<1>2. CASE DebounceFires \/ Leave \/ Enter \/ Quit
  BY <1>2, DebounceFiresKeeps, LeaveKeeps, EnterKeeps, QuitKeeps
<1>3. CASE Poll \/ FetchServed \/ FetchArrives
  BY <1>3, PollKeeps, FetchArrivesKeeps
<1>4. ASSUME NEW m \in Mutations, Save(m) \/ EditComment(m) \/ Accept(m) PROVE DocumentInv'
  BY <1>4, SaveKeeps, EditCommentKeeps, AcceptKeeps
<1>5. ASSUME NEW m \in Mutations, ServePost(m) \/ ServePut(m) \/ Refuse(m) \/ Succeeds(m)
      PROVE  DocumentInv'
  BY <1>5, ServePostKeeps, ServePutKeeps, RefuseKeeps, SucceedsKeeps
<1>6. CASE UNCHANGED vars
  <2>1. UNCHANGED <<editorVars, store, list, fetch, coming, mut, behind, failures, leaves, open,
                    hadDraft>>
    BY <1>6 DEF vars, mountVars
  <2>2. EditorTyped' /\ DraftInv'
    BY <2>1 DEF DocumentInv, Typed, EditorTyped, DraftInv, editorVars
  <2>3. QED
    BY <2>1, <2>2, KeepsMutations DEF DocumentInv, Typed, ItemsTyped
<1>7. QED
  BY <1>1, <1>2, <1>3, <1>4, <1>5, <1>6 DEF Next

\* Hence it always holds.
LEMMA DocumentInvariance == Spec => []DocumentInv
  BY DocumentInit, DocumentStep, PTL DEF Spec

\* Every reachable state of a document is well typed, and its editor has at
\* most one save and one comment update running.
THEOREM DocumentTyped == Spec => []TypeOK
<1>1. ASSUME DocumentInv PROVE TypeOK
  <2>1. list = <<>> \/ list[1] \in Documents
    BY <1>1 DEF DocumentInv, Typed, ItemsTyped
  <2>2. \A m \in Mutations : mut[m].phase \in PhaseNames
    BY <1>1 DEF DocumentInv, Typed, MutTyped, MutationStates
  <2>3. QED
    BY <1>1, <2>1, <2>2
       DEF DocumentInv, Typed, EditorTyped, ItemsTyped, OneOfAKind, PhaseNames, TypeOK
<1>2. QED
  BY <1>1, DocumentInvariance, PTL

\* What was typed and not saved is on the screen or in localStorage, however
\* the debounce, the flush, the clear and the remounts of the editor interleave
\* (drafts.ts:71-147).
THEOREM DraftKept == Spec => []DraftSurvives
<1>1. ASSUME DocumentInv PROVE DraftSurvives
  <2>1. timer \in {"none", "armed", "fired", "cleared"} /\ open \in BOOLEAN
    BY <1>1 DEF DocumentInv, Typed, EditorTyped
  <2>2. QED
    BY <1>1, <2>1 DEF DocumentInv, DraftInv, DraftSurvives
<1>2. QED
  BY <1>1, DocumentInvariance, PTL

\* When nothing is under way the list shows the item as it is stored, however
\* many mutations overlapped the fetches (DocumentsView.tsx:370-378, 440-441).
THEOREM ListCatchesUp == Spec => []ListShowsStore
<1>1. ASSUME DocumentInv PROVE ListShowsStore
  <2> SUFFICES ASSUME Loaded, fetch = "none", ~behind, \A m \in Mutations : ~Running(m)
               PROVE  Doc = store
    BY DEF ListShowsStore
  <2>1. ~Stale /\ ~Refreshing
    BY DEF Stale, Refreshing, Running
  <2>2. QED
    BY <1>1, <2>1 DEF DocumentInv, ListInv, Loaded
<1>2. QED
  BY <1>1, DocumentInvariance, PTL

\* A comment update that no other request overlaps changes one comment of the
\* stored item and nothing else, though it puts back the whole item as the list
\* held it (DocumentsView.tsx:653-657).
THEOREM EditsApply == Spec => CommentEditsApply
<1> DEFINE Applies ==
      \A m \in Mutations :
        ServePut(m) /\ mut[m].kind = "comments" /\ mut[m].alone
          => /\ store'.comments \in Edits(store.comments)
             /\ store'.versions = store.versions
<1>1. DocumentInv => Applies
  <2> SUFFICES ASSUME DocumentInv, NEW m \in Mutations, ServePut(m),
                      mut[m].kind = "comments", mut[m].alone
               PROVE  store'.comments \in Edits(store.comments) /\ store'.versions = store.versions
    OBVIOUS
  <2>1. mut[m].phase = "putting" /\ store' = mut[m].item /\ Running(m)
    BY DEF ServePut, Running
  <2>2. QED
    BY <2>1 DEF DocumentInv, AloneInv
<1>2. DocumentInv /\ [Next]_vars => [Applies]_vars
  BY <1>1
<1>3. QED
  BY <1>2, DocumentInit, DocumentStep, PTL DEF Spec, CommentEditsApply
=============================================================================
