--------------------------- MODULE DocumentDrafts ---------------------------
(***************************************************************************)
(* One document of the Documents view: the editor and its comments         *)
(* (src/ui/views/documents/DocumentsView.tsx, documents-data.ts), the      *)
(* draft it keeps in localStorage (src/ui/lib/drafts.ts) and the item in   *)
(* the registry with its versions (src/bun/registries/documents.ts).       *)
(*                                                                         *)
(* A mutation is a click that sends one request, or two one after the      *)
(* other, and then has the list fetched again.  The registry serves each   *)
(* request at one instant (RegistryStore!CollectionsAreSerial).  The list  *)
(* of documents and the versions of this one are two queries that are      *)
(* invalidated together; they are modelled as one.                         *)
(***************************************************************************)
EXTENDS Naturals, Sequences, FiniteSets, SequencesExt

CONSTANTS Texts,        \* what the user may type
          Suggestion,   \* the text a comment suggests
          Comments,     \* comments the document may have
          First,        \* the one there from the start, with the suggestion
          MaxMutations, \* bound: clicks on Save, Apply and on comments
          MaxFailures,  \* bound: requests that are refused
          MaxLeaves     \* bound: times the view is left, or the app quits

Empty == ""
AllTexts == Texts \cup {Suggestion, Empty}
Mutations == 1..MaxMutations

ASSUME DraftsAssumption ==
  /\ Empty \notin Texts /\ First \in Comments
  /\ MaxMutations \in Nat /\ MaxFailures \in Nat /\ MaxLeaves \in Nat

\* The item in the registry; a comment that is not there is "none".
Documents == [versions : Seq([v : Nat, text : AllTexts]), head : Nat,
              comments : [Comments -> {"none", "open", "resolved", "accepted"}]]

Created == [versions |-> <<>>, head |-> 0,
            comments |-> [c \in Comments |-> IF c = First THEN "open" ELSE "none"]]

Idle == [kind |-> "none", phase |-> "done", mine |-> FALSE, alone |-> FALSE,
         text |-> Empty, item |-> Created]

VARIABLES
  store,     \* the item as stored
  list,      \* the item as last fetched: <<>> or <<item>>
  fetch,     \* the fetch in flight: "none", "asked", or "coming" with
  coming,    \* the item as it was when the registry served the fetch
  open,      \* the editor is mounted
  text,      \* what is in the editor
  draft,     \* what localStorage keeps for it
  timer,     \* the editor's debounce: never set, "armed", "fired" or "cleared"
  hadDraft,  \* there was a draft when the editor was mounted
  synced,    \* syncedFromLoad
  mut,       \* mutation -> its state
  unsaved,   \* typed, and neither saved nor replaced since; or Empty
  behind,    \* something changed the item and nothing fetches it again
  failures,  \* requests refused
  leaves     \* times the view was left

editorVars == <<text, draft, timer, synced, unsaved>>
mountVars == <<open, hadDraft>>
vars == <<store, list, fetch, coming, editorVars, mountVars, mut, behind, failures, leaves>>

Init ==
  /\ store = Created /\ list = <<>> /\ fetch = "asked" /\ coming = Created
  /\ open = TRUE /\ text = Empty /\ draft = Empty /\ timer = "none"
  /\ hadDraft = FALSE /\ synced = FALSE
  /\ mut = [m \in Mutations |-> Idle]
  /\ unsaved = Empty /\ behind = FALSE /\ failures = 0 /\ leaves = 0

Loaded == open /\ list # <<>>
Doc == list[1]
HeadText(item) == IF item.versions = <<>> THEN Empty ELSE Last(item.versions).text

Running(m) == mut[m].phase # "done"
\* isPending of the editor that is mounted.
Pending(kind) == \E m \in Mutations : mut[m].kind = kind /\ mut[m].mine /\ Running(m)

\* A mutation that is over leaves nothing but its number taken.
Done(m) == [Idle EXCEPT !.kind = mut[m].kind]

----------------------------------------------------------------------------
\* The editor and its draft.

\* setDraft.
SetDraft(t) == text' = t /\ timer' = "armed"

Type(t) ==
  /\ Loaded /\ t # text /\ SetDraft(t) /\ unsaved' = t
  /\ UNCHANGED <<store, list, fetch, coming, draft, synced, mountVars, mut, behind, failures, leaves>>

DebounceFires ==
  /\ timer = "armed" /\ timer' = "fired" /\ draft' = text
  /\ UNCHANGED <<store, list, fetch, coming, text, synced, unsaved, mountVars, mut, behind, failures, leaves>>

\* The effect that puts the head version into an editor without a draft, once:
\* whatever was typed before the first version was there is replaced.
SyncFromLoad(item) ==
  IF synced \/ item.versions = <<>> THEN UNCHANGED editorVars
  ELSE /\ synced' = TRUE /\ UNCHANGED draft
       /\ IF hadDraft THEN UNCHANGED <<text, timer, unsaved>>
          ELSE SetDraft(HeadText(item)) /\ unsaved' = Empty

\* Seeded bug: the debounce is dropped with the editor.
LeaveWithoutFlush ==
  /\ open /\ leaves < MaxLeaves /\ leaves' = leaves + 1
  /\ open' = FALSE /\ text' = Empty /\ timer' = "none"
  /\ mut' = [m \in Mutations |-> [mut[m] EXCEPT !.mine = FALSE]]
  /\ UNCHANGED <<store, list, fetch, coming, draft, synced, unsaved, hadDraft, behind, failures>>

\* Another view is opened: the draft is written once more if the debounce was
\* ever set, requests go on.
Leave ==
  /\ open /\ leaves < MaxLeaves /\ leaves' = leaves + 1
  /\ open' = FALSE /\ text' = Empty
  /\ timer' = "none"
  /\ draft' = CASE timer = "none" -> draft [] timer = "cleared" -> Empty [] OTHER -> text
  /\ mut' = [m \in Mutations |-> [mut[m] EXCEPT !.mine = FALSE]]
  /\ UNCHANGED <<store, list, fetch, coming, synced, unsaved, hadDraft, behind, failures>>

\* The view is opened again, with the list as cached until it is fetched again.
Enter ==
  /\ ~open /\ open' = TRUE /\ hadDraft' = (draft # Empty)
  /\ fetch' = IF fetch = "none" THEN "asked" ELSE fetch
  /\ LET head == IF list = <<>> THEN <<>> ELSE Doc.versions IN
     /\ synced' = (head # <<>>)
     /\ IF head = <<>> \/ draft # Empty
        THEN text' = draft /\ UNCHANGED timer
        ELSE SetDraft(Last(head).text)
  /\ UNCHANGED <<store, list, coming, draft, unsaved, mut, behind, failures, leaves>>

\* The app quits and is started again: a draft not yet written is lost, and
\* what was in flight.
Quit ==
  /\ open /\ leaves < MaxLeaves /\ leaves' = leaves + 1
  /\ open' = FALSE /\ text' = Empty /\ timer' = "none"
  /\ unsaved' = IF timer = "armed" THEN Empty ELSE unsaved
  /\ list' = <<>> /\ fetch' = "none" /\ coming' = Created /\ behind' = FALSE
  /\ mut' = [m \in Mutations |-> Done(m)]
  /\ UNCHANGED <<store, draft, synced, hadDraft, failures>>

----------------------------------------------------------------------------
\* The list.  Fetching again drops the answer of a fetch in flight, and who
\* waits for that one waits for the new one.

Poll ==
  /\ Loaded /\ fetch = "none" /\ fetch' = "asked"
  /\ UNCHANGED <<store, list, coming, editorVars, mountVars, mut, behind, failures, leaves>>

FetchServed ==
  /\ fetch = "asked" /\ fetch' = "coming" /\ coming' = store
  /\ UNCHANGED <<store, list, editorVars, mountVars, mut, behind, failures, leaves>>

FetchArrives ==
  /\ fetch = "coming" /\ fetch' = "none" /\ list' = <<coming>> /\ coming' = Created
  /\ mut' = [m \in Mutations |->
       IF mut[m].phase = "refreshing" THEN Done(m) ELSE mut[m]]
  /\ behind' = (behind /\ coming # store)
  /\ IF open THEN SyncFromLoad(coming) ELSE UNCHANGED editorVars
  /\ UNCHANGED <<store, mountVars, failures, leaves>>

----------------------------------------------------------------------------
\* The mutations.

\* Takes the next number.  alone: no other request about the item overlaps it.
Start(m, mutation) ==
  /\ ~Running(m) /\ mut[m].kind = "none" /\ (m > 1 => mut[m - 1].kind # "none")
  /\ mut' = [n \in Mutations |->
       IF n = m THEN [mutation EXCEPT !.alone =
                        ~behind /\ \A k \in Mutations \ {m} : ~Running(k)]
       ELSE [mut[n] EXCEPT !.alone = FALSE]]
  /\ UNCHANGED <<store, list, fetch, coming, editorVars, mountVars, behind, failures, leaves>>

\* Seeded bug: a second click on Save is not held back.
SaveTwice(m) ==
  /\ Loaded /\ text # HeadText(Doc)
  /\ Start(m, [Idle EXCEPT !.kind = "save", !.phase = "posting", !.mine = TRUE, !.text = text])

Save(m) ==
  /\ Loaded /\ text # HeadText(Doc) /\ ~Pending("save")
  /\ Start(m, [Idle EXCEPT !.kind = "save", !.phase = "posting", !.mine = TRUE, !.text = text])

\* rawWithComments: the item as fetched, with other comments.
WithComments(item, comments) == [item EXCEPT !.comments = comments]

\* Add, resolve, reopen, reject or delete one comment.
Edits(comments) ==
  {[comments EXCEPT ![c] = s] : c \in Comments, s \in {"none", "open", "resolved"}} \ {comments}

EditComment(m) ==
  /\ Loaded /\ ~Pending("comments")
  /\ \E comments \in Edits(Doc.comments) :
       Start(m, [Idle EXCEPT !.kind = "comments", !.phase = "putting", !.mine = TRUE,
                             !.item = WithComments(Doc, comments)])

\* Apply suggestion: a version is posted, then the item put as it is in the
\* list now, with the comment accepted.
Accept(m) ==
  /\ Loaded /\ Doc.comments[First] = "open"
  /\ Start(m, [Idle EXCEPT !.kind = "accept", !.phase = "posting", !.mine = TRUE,
                           !.text = Suggestion,
                           !.item = WithComments(Doc, [Doc.comments EXCEPT ![First] = "accepted"])])

Latest(versions) == Max({0} \cup {versions[k].v : k \in DOMAIN versions})

\* appendDocumentVersion.
ServePost(m) ==
  LET v == Latest(store.versions) + 1 IN
  /\ mut[m].phase = "posting"
  /\ store' = [store EXCEPT !.versions = Append(@, [v |-> v, text |-> mut[m].text]), !.head = v]
  /\ mut' = [mut EXCEPT ![m].phase = IF mut[m].kind = "accept" THEN "putting" ELSE "served"]
  /\ UNCHANGED <<list, fetch, coming, editorVars, mountVars, behind, failures, leaves>>

\* The put replaces the whole item.
ServePut(m) ==
  /\ mut[m].phase = "putting" /\ store' = mut[m].item
  /\ mut' = [mut EXCEPT ![m].phase = "served"]
  /\ UNCHANGED <<list, fetch, coming, editorVars, mountVars, behind, failures, leaves>>

\* A toast is all that follows; half of Apply may have been done.
Refuse(m) ==
  /\ mut[m].phase \in {"posting", "putting"}
  /\ failures < MaxFailures /\ failures' = failures + 1
  /\ mut' = [mut EXCEPT ![m] = Done(m)]
  /\ behind' = (behind \/ (mut[m].kind = "accept" /\ mut[m].phase = "putting"))
  /\ UNCHANGED <<store, list, fetch, coming, editorVars, mountVars, leaves>>

\* Seeded bug: a fetch already in flight will do.
FetchIfIdle ==
  /\ fetch' = IF open /\ fetch = "none" THEN "asked" ELSE fetch
  /\ behind' = (behind \/ ~open)

\* invalidateQueries: a mounted query is fetched, another when it is mounted.
FetchAgain ==
  /\ fetch' = IF open THEN "asked" ELSE fetch
  /\ behind' = (behind \/ ~open)

\* draftControl.clear, of the editor that sent the request.
ClearDraft(m) ==
  /\ draft' = Empty
  /\ timer' = IF ~mut[m].mine \/ (timer = "none" /\ mut[m].kind = "save") THEN timer
              ELSE "cleared"

\* Seeded bug: the mutation is over before the list is fetched.
SucceedsAtOnce(m) ==
  /\ mut[m].phase = "served" /\ FetchAgain
  /\ mut' = [mut EXCEPT ![m] = Done(m)]
  /\ IF mut[m].kind = "comments" THEN UNCHANGED <<text, draft, timer, unsaved>>
     ELSE /\ ClearDraft(m) /\ unsaved' = Empty
          /\ text' = IF mut[m].kind = "accept" /\ mut[m].mine THEN Suggestion ELSE text
  /\ UNCHANGED <<store, list, coming, synced, mountVars, failures, leaves>>

\* onSuccess: the draft is cleared, the suggestion shown, and the mutation is
\* over when the list was fetched again.
Succeeds(m) ==
  /\ mut[m].phase = "served" /\ FetchAgain
  /\ mut' = [mut EXCEPT ![m] = IF open THEN [@ EXCEPT !.phase = "refreshing"] ELSE Done(m)]
  /\ IF mut[m].kind = "comments" THEN UNCHANGED <<text, draft, timer, unsaved>>
     ELSE /\ ClearDraft(m) /\ unsaved' = Empty
          /\ text' = IF mut[m].kind = "accept" /\ mut[m].mine THEN Suggestion ELSE text
  /\ UNCHANGED <<store, list, coming, synced, mountVars, failures, leaves>>

Next ==
  \/ \E t \in Texts : Type(t)
  \/ DebounceFires \/ Leave \/ Enter \/ Quit
  \/ Poll \/ FetchServed \/ FetchArrives
  \/ \E m \in Mutations :
       \/ Save(m) \/ EditComment(m) \/ Accept(m)
       \/ ServePost(m) \/ ServePut(m) \/ Refuse(m) \/ Succeeds(m)

\* Requests are served and answered; timers fire.
Fairness ==
  /\ WF_vars(FetchServed) /\ WF_vars(FetchArrives) /\ WF_vars(DebounceFires)
  /\ \A m \in Mutations :
       WF_vars(ServePost(m) \/ ServePut(m) \/ Refuse(m)) /\ WF_vars(Succeeds(m))

Spec == Init /\ [][Next]_vars /\ Fairness

----------------------------------------------------------------------------
\* Properties.

\* The state stays well typed, and the editor has at most one save and one
\* comment update running (DocumentsView.tsx:460, 663, 710-730).
TypeOK ==
  /\ store \in Documents
  /\ list = <<>> \/ list[1] \in Documents
  /\ fetch \in {"none", "asked", "coming"} /\ coming \in Documents
  /\ text \in AllTexts /\ draft \in AllTexts /\ unsaved \in AllTexts
  /\ timer \in {"none", "armed", "fired", "cleared"}
  /\ {open, hadDraft, synced, behind} \subseteq BOOLEAN
  /\ \A m, n \in Mutations :
       /\ mut[m].phase \in {"done", "posting", "putting", "served", "refreshing"}
       /\ m # n /\ mut[m].kind = mut[n].kind /\ mut[m].kind # "accept"
            /\ mut[m].mine /\ mut[n].mine => ~(Running(m) /\ Running(n))
  /\ failures \in 0..MaxFailures /\ leaves \in 0..MaxLeaves

\* A comment update puts the whole item from the list; because the next one has
\* to wait until the list was fetched again, it changes one comment and nothing
\* else, as long as no other request overlaps it (DocumentsView.tsx:653-657).
CommentEditsApply ==
  [][\A m \in Mutations :
       ServePut(m) /\ mut[m].kind = "comments" /\ mut[m].alone
         => /\ store'.comments \in Edits(store.comments)
            /\ store'.versions = store.versions]_vars

\* "a draft survives view switches, window close, and app restart"
\* (drafts.ts:1-2): what was typed since the last save was answered is on the
\* screen or in localStorage, but for the debounce's last keystrokes when the app
\* quits (and for what SyncFromLoad replaces, see the README).
DraftSurvives ==
  unsaved # Empty => \/ open /\ text = unsaved
                     \/ draft = unsaved

\* When nothing is running, the view shows the item as it is stored, unless half
\* of Apply failed, which fetches nothing (DocumentsView.tsx:370-378, 440-441).
ListShowsStore ==
  Loaded /\ fetch = "none" /\ ~behind /\ (\A m \in Mutations : ~Running(m))
    => Doc = store

\* "applies the suggested text to the draft as a brand-new version"
\* (DocumentsView.tsx:416-417): when Apply succeeds and nothing overlapped it,
\* the suggestion is the newest version.
AcceptedIsSaved ==
  \A m \in Mutations :
    mut[m].kind = "accept" /\ mut[m].phase = "served" /\ mut[m].alone
      => HeadText(store) = Suggestion
=============================================================================
