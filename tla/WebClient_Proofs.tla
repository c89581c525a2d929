--------------------------- MODULE WebClient_Proofs ---------------------------
(***************************************************************************)
(* Screens of the web client, for any number of rows, files, tabs,         *)
(* conversations, browsers and requests under way: the secrets of the      *)
(* settings lists (SettingsLists), the profile photo (ProfilePhoto), the   *)
(* second factor (AccountSecurity), the opening message of a conversation  *)
(* (ChatClient), the walk over its files (ConversationFiles) and the panels *)
(* of its transcript (Transcript).  They share no state; each has an       *)
(* invariant of its own.                                                   *)
(***************************************************************************)
EXTENDS SettingsLists, ProfilePhoto, AccountSecurity, ChatClient, ConversationFiles,
        Transcript, FiniteSetTheorems, WellFoundedInduction, TLAPS

(***************************************************************************)
(* The settings lists: a secret is stored with no other row than the one   *)
(* it was typed for.  The draft is one for all rows, so the argument goes  *)
(* from the draft to the request that carries it and on to the answer.     *)
(***************************************************************************)

AnyRow == Row \cup ApiKey
SecretOrNone == Row \cup {NoRow}

Draftable ==
  [row : AnyRow \cup {NoRow}, name : {"same", "new", "invalid"}, secret : SecretOrNone,
   saving : AnyRow \cup {NoRow}]

Request ==
  [verb : {"create", "enable", "disable", "delete", "save"}, row : AnyRow,
   secret : SecretOrNone, mine : BOOLEAN]

Overlaid ==
  [creating : BOOLEAN, createPending : BOOLEAN, shown : ApiKey \cup {NoRow},
   removing : AnyRow \cup {NoRow}, removePending : BOOLEAN]

(* What the lists may hold.                                                *)
ListsTyped ==
  /\ editor \in Draftable
  /\ overlays \in Overlaid
  /\ DOMAIN status = AnyRow
  /\ vault \in [Row -> Row]
  /\ requests \subseteq Request

(* The draft of an open editor holds no secret of another row.             *)
DraftOfItsRow == editor.row # NoRow => editor.secret \in {NoRow, editor.row}

(* Nor does a request.                                                     *)
RequestsOfTheirRow == \A q \in requests : q.secret \in {NoRow, q.row}

ListsInv == ListsTyped /\ DraftOfItsRow /\ RequestsOfTheirRow /\ SecretGoesToItsRow

-----------------------------------------------------------------------------
(* A request is sent for a row with no secret or with its own.             *)
LEMMA SendKeeps ==
  ASSUME ListsInv, NEW r \in AnyRow, NEW secret \in SecretOrNone, secret \in {NoRow, r},
         NEW verb \in {"create", "enable", "disable", "delete", "save"}, Send(verb, r, secret)
  PROVE  requests' \subseteq Request /\ RequestsOfTheirRow'
<1> DEFINE q == [verb |-> verb, row |-> r, secret |-> secret, mine |-> TRUE]
<1>1. q \in Request /\ q.secret \in {NoRow, q.row}
  BY DEF Request
<1>2. requests' = requests \cup {q}
  BY DEF Send
<1> QED BY <1>1, <1>2 DEF ListsInv, ListsTyped, RequestsOfTheirRow

LEMMA ListsInitInv == ListsInit => ListsInv
<1> SUFFICES ASSUME ListsInit PROVE ListsInv
  OBVIOUS
<1>1. ListsTyped
  BY DEF ListsInit, ListsTyped, NoEditor, NoDialogs, Draftable, Overlaid, AnyRow, SecretOrNone
<1>2. DraftOfItsRow /\ RequestsOfTheirRow /\ SecretGoesToItsRow
  BY DEF ListsInit, NoEditor, DraftOfItsRow, RequestsOfTheirRow, SecretGoesToItsRow
<1> QED BY <1>1, <1>2 DEF ListsInv

(* The editor: opening it on another row empties the secret of the draft.  *)
LEMMA EditorStep ==
  ASSUME ListsInv,
         \/ SwitchTab \/ TypeName \/ TypeSecret \/ CancelEditing
         \/ \E r \in AnyRow : StartEditing(r)
  PROVE  ListsInv'
<1> USE ListsAssumption DEF ListsInv
<1>1. CASE SwitchTab
  <2>1. editor' = NoEditor /\ overlays' = NoDialogs /\ vault' = vault /\ status' = status
    BY <1>1 DEF SwitchTab
  <2>2. ASSUME NEW q \in requests' PROVE q \in Request /\ q.secret \in {NoRow, q.row}
    <3>1. PICK p \in requests : q = [p EXCEPT !.mine = FALSE]
      BY <1>1, <2>2 DEF SwitchTab
    <3>2. p \in Request /\ p.secret \in {NoRow, p.row}
      BY DEF ListsTyped, RequestsOfTheirRow
    <3> QED BY <3>1, <3>2 DEF Request
  <2>3. ListsTyped'
    BY <2>1, <2>2 DEF ListsTyped, NoEditor, NoDialogs, Draftable, Overlaid, SecretOrNone
  <2>4. DraftOfItsRow' /\ SecretGoesToItsRow'
    BY <2>1 DEF DraftOfItsRow, NoEditor, SecretGoesToItsRow
  <2>5. RequestsOfTheirRow'
    BY <2>2 DEF RequestsOfTheirRow
  <2> QED BY <2>3, <2>4, <2>5
<1>2. CASE TypeName
  <2>1. PICK name \in {"same", "new", "invalid"} : editor' = [editor EXCEPT !.name = name]
    BY <1>2 DEF TypeName
  <2>2. editor' \in Draftable /\ editor'.row = editor.row /\ editor'.secret = editor.secret
    BY <2>1 DEF ListsTyped, Draftable
  <2> QED BY <1>2, <2>2 DEF TypeName, Edits, ListsTyped, DraftOfItsRow, RequestsOfTheirRow,
        SecretGoesToItsRow
<1>3. CASE TypeSecret
  <2>1. editor' = [editor EXCEPT !.secret = editor.row] /\ editor.row \in Row
    BY <1>3 DEF TypeSecret
  <2>2. editor' \in Draftable /\ editor'.secret = editor'.row
    BY <2>1 DEF ListsTyped, Draftable, SecretOrNone
  <2> QED BY <1>3, <2>2 DEF TypeSecret, Edits, ListsTyped, DraftOfItsRow, RequestsOfTheirRow,
        SecretGoesToItsRow
<1>4. CASE CancelEditing
  <2>1. editor' \in Draftable /\ editor'.row = NoRow
    BY <1>4 DEF CancelEditing, ListsTyped, Draftable
  <2> QED BY <1>4, <2>1 DEF CancelEditing, Edits, ListsTyped, DraftOfItsRow,
        RequestsOfTheirRow, SecretGoesToItsRow
<1>5. CASE \E r \in AnyRow : StartEditing(r)
  <2> PICK r \in AnyRow : StartEditing(r) BY <1>5
  <2>1. editor' = [editor EXCEPT !.row = r, !.name = "same", !.secret = NoRow]
    BY DEF StartEditing, Draft
  <2>2. editor' \in Draftable /\ editor'.secret = NoRow
    BY <2>1 DEF ListsTyped, Draftable, SecretOrNone
  <2> QED BY <2>2 DEF StartEditing, Edits, ListsTyped, DraftOfItsRow, RequestsOfTheirRow,
        SecretGoesToItsRow
<1> QED BY <1>1, <1>2, <1>3, <1>4, <1>5

(* Saving sends the draft of the row whose editor is open.                 *)
LEMMA SaveStep ==
  ASSUME ListsInv,
         \/ SaveConnection \/ SaveKey
         \/ \E k \in ApiKey : ToggleKey(k)
  PROVE  ListsInv'
<1> USE ListsAssumption DEF ListsInv
<1>1. CASE SaveConnection \/ SaveKey
  <2>1. SendDraft /\ editor.row \in AnyRow
    BY <1>1 DEF SaveConnection, SaveKey, AnyRow
  <2>2. overlays' = overlays /\ status' = status /\ vault' = vault
    BY <1>1 DEF SaveConnection, SaveKey, Edits
  <2>3. editor' \in Draftable /\ DraftOfItsRow'
    <3>1. CASE editor.name = "same" /\ editor.secret = NoRow
      <4>1. editor' = [editor EXCEPT !.row = NoRow]
        BY <2>1, <3>1 DEF SendDraft
      <4> QED BY <4>1 DEF ListsTyped, Draftable, DraftOfItsRow
    <3>2. CASE ~(editor.name = "same" /\ editor.secret = NoRow)
      <4>1. editor' = [editor EXCEPT !.saving = editor.row]
        BY <2>1, <3>2 DEF SendDraft
      <4> QED BY <4>1 DEF ListsTyped, Draftable, DraftOfItsRow
    <3> QED BY <3>1, <3>2
  <2>4. requests' \subseteq Request /\ RequestsOfTheirRow'
    <3>1. CASE editor.name = "same" /\ editor.secret = NoRow
      BY <2>1, <3>1 DEF SendDraft, ListsTyped, RequestsOfTheirRow
    <3>2. CASE ~(editor.name = "same" /\ editor.secret = NoRow)
      <4>1. Send("save", editor.row, editor.secret)
        BY <2>1, <3>2 DEF SendDraft
      <4>2. editor.row # NoRow
        BY <2>1 DEF AnyRow
      <4>3. editor.secret \in SecretOrNone /\ editor.secret \in {NoRow, editor.row}
        BY <4>2 DEF ListsTyped, Draftable, DraftOfItsRow
      <4> QED BY <2>1, <4>1, <4>3, SendKeeps
    <3> QED BY <3>1, <3>2
  <2> QED BY <2>2, <2>3, <2>4 DEF ListsTyped, SecretGoesToItsRow
<1>2. CASE \E k \in ApiKey : ToggleKey(k)
  <2> PICK k \in ApiKey : ToggleKey(k) BY <1>2
  <2>1. PICK verb \in {"enable", "disable"} : Send(verb, k, NoRow)
    BY DEF ToggleKey
  <2>2. requests' \subseteq Request /\ RequestsOfTheirRow'
    BY <2>1, SendKeeps DEF AnyRow, SecretOrNone
  <2> QED BY <2>2 DEF ToggleKey, Edits, ListsTyped, DraftOfItsRow, SecretGoesToItsRow
<1> QED BY <1>1, <1>2

(* The dialogs change neither draft nor vault; what they send has no       *)
(* secret or the one typed into the form of its row.                       *)
LEMMA DialogStep ==
  ASSUME ListsInv,
         \/ OpenForm \/ CloseForm \/ AcknowledgeKey \/ CancelRemoval \/ ConfirmRemoval
         \/ \E r \in AnyRow : AskRemoval(r)
         \/ \E r \in Row : CreateConnection(r)
         \/ \E k \in ApiKey : CreateKey(k)
  PROVE  ListsInv'
<1> USE ListsAssumption DEF ListsInv
<1>1. PICK changed : Dialogs(changed)
  BY DEF OpenForm, CloseForm, AcknowledgeKey, CancelRemoval, ConfirmRemoval, AskRemoval,
     CreateConnection, CreateKey, Submit
<1>2. overlays' \in Overlaid
  <2>1. CASE OpenForm \/ CloseForm \/ AcknowledgeKey \/ CancelRemoval \/ ConfirmRemoval
    BY <2>1 DEF OpenForm, CloseForm, AcknowledgeKey, CancelRemoval, ConfirmRemoval, Dialogs,
       ListsTyped, Overlaid
  <2>2. CASE \E r \in AnyRow : AskRemoval(r)
    <3> PICK r \in AnyRow : overlays' = [overlays EXCEPT !.removing = r]
      BY <2>2 DEF AskRemoval, Dialogs
    <3> QED BY DEF ListsTyped, Overlaid
  <2>3. CASE (\E r \in Row : CreateConnection(r)) \/ (\E k \in ApiKey : CreateKey(k))
    <3>1. overlays' = [overlays EXCEPT !.createPending = TRUE]
      BY <2>3 DEF CreateConnection, CreateKey, Submit, Dialogs
    <3> QED BY <3>1 DEF ListsTyped, Overlaid
  <2> QED BY <2>1, <2>2, <2>3
<1>3. requests' \subseteq Request /\ RequestsOfTheirRow'
  <2>1. CASE ConfirmRemoval
    <3>1. Send("delete", overlays.removing, NoRow) /\ overlays.removing \in AnyRow
      BY <2>1 DEF ConfirmRemoval, ListsTyped, Overlaid
    <3> QED BY <3>1, SendKeeps DEF SecretOrNone
  <2>2. CASE \E r \in Row : CreateConnection(r)
    <3> PICK r \in Row : CreateConnection(r) BY <2>2
    <3>1. Send("create", r, r)
      BY DEF CreateConnection, Submit
    <3> QED BY <3>1, SendKeeps DEF AnyRow, SecretOrNone
  <2>3. CASE \E k \in ApiKey : CreateKey(k)
    <3> PICK k \in ApiKey : CreateKey(k) BY <2>3
    <3>1. Send("create", k, NoRow)
      BY DEF CreateKey, Submit
    <3> QED BY <3>1, SendKeeps DEF AnyRow, SecretOrNone
  <2>4. CASE \/ OpenForm \/ CloseForm \/ AcknowledgeKey \/ CancelRemoval
             \/ \E r \in AnyRow : AskRemoval(r)
    BY <2>4 DEF OpenForm, CloseForm, AcknowledgeKey, CancelRemoval, AskRemoval, ListsTyped,
       RequestsOfTheirRow
  <2> QED BY <2>1, <2>2, <2>3, <2>4
<1> QED BY <1>1, <1>2, <1>3 DEF Dialogs, ListsTyped, DraftOfItsRow, SecretGoesToItsRow

(* An answer stores the secret of its request with the row of its request, *)
(* and closes an editor without opening another.                           *)
LEMMA AnswerStep ==
  ASSUME ListsInv, NEW q \in requests, Answered(q)
  PROVE  ListsInv'
<1> USE ListsAssumption DEF ListsInv
<1>1. q \in Request /\ q.secret \in {NoRow, q.row}
  BY DEF ListsTyped, RequestsOfTheirRow
<1>2. PICK done \in BOOLEAN, told \in BOOLEAN :
         /\ status' = IF done THEN [status EXCEPT ![q.row] = Becomes(q)] ELSE status
         /\ vault' = IF done /\ q.secret # NoRow THEN [vault EXCEPT ![q.row] = q.secret] ELSE vault
         /\ Settled(q, told)
  BY DEF Answered
<1>3. requests' \subseteq Request /\ RequestsOfTheirRow'
  BY DEF Answered, ListsTyped, RequestsOfTheirRow
<1>4. vault' \in [Row -> Row] /\ SecretGoesToItsRow'
  <2>1. CASE done /\ q.secret # NoRow
    <3>1. q.row \in Row /\ q.secret = q.row
      BY <1>1, <2>1 DEF Request, SecretOrNone
    <3>2. vault' = [vault EXCEPT ![q.row] = q.row]
      BY <1>2, <2>1, <3>1
    <3> QED BY <3>1, <3>2 DEF ListsTyped, SecretGoesToItsRow
  <2>2. CASE ~(done /\ q.secret # NoRow)
    BY <1>2, <2>2 DEF ListsTyped, SecretGoesToItsRow
  <2> QED BY <2>1, <2>2
<1>5. editor' \in Draftable /\ DraftOfItsRow'
  <2>1. editor' \in {editor, AfterSave(told)}
    BY <1>2 DEF Settled
  <2>2. AfterSave(told) \in Draftable
    BY DEF AfterSave, ListsTyped, Draftable
  <2>3. AfterSave(told).row \in {NoRow, editor.row} /\ AfterSave(told).secret = editor.secret
    BY DEF AfterSave, ListsTyped, Draftable
  <2> QED BY <2>1, <2>2, <2>3 DEF ListsTyped, DraftOfItsRow
<1>6. overlays' \in Overlaid
  <2>1. overlays' \in {overlays, AfterCreate(q, told), AfterRemoval}
    BY <1>2 DEF Settled
  <2>2. AfterCreate(q, told) \in Overlaid /\ AfterRemoval \in Overlaid
    BY DEF AfterCreate, AfterRemoval, ListsTyped, Overlaid
  <2> QED BY <2>1, <2>2 DEF ListsTyped
<1>7. DOMAIN status' = AnyRow
  BY <1>2 DEF ListsTyped
<1> QED BY <1>3, <1>4, <1>5, <1>6, <1>7 DEF ListsTyped

LEMMA ListsStep == ListsInv /\ [ListsNext]_listVars => ListsInv'
<1> SUFFICES ASSUME ListsInv, [ListsNext]_listVars PROVE ListsInv'
  OBVIOUS
<1>1. CASE UNCHANGED listVars
  BY <1>1 DEF ListsInv, listVars, ListsTyped, DraftOfItsRow, RequestsOfTheirRow,
     SecretGoesToItsRow
<1>2. CASE ListsNext
  BY <1>2, EditorStep, SaveStep, DialogStep, AnswerStep DEF ListsNext, AnyRow
<1> QED BY <1>1, <1>2

(* A secret is stored only with the row it was typed for, whatever is      *)
(* edited, cancelled and answered meanwhile.                               *)
THEOREM SecretsKeepTheirRow == ListsSpec => []SecretGoesToItsRow
<1>1. ListsInv => SecretGoesToItsRow BY DEF ListsInv
<1> QED BY <1>1, ListsInitInv, ListsStep, PTL DEF ListsSpec

-----------------------------------------------------------------------------
(***************************************************************************)
(* The profile photo: a file between its upload and the update that points *)
(* the column at it belongs to one tab, is stored, and is seen by nobody   *)
(* else; the file about to be deleted is no longer in the column.          *)
(***************************************************************************)

Image == Photo \cup {NoFile}

Change == [stage : {"idle", "upload", "resolve", "update"},
           new : Image, previous : Image, editing : BOOLEAN]

PhotoTyped ==
  /\ account \in {"live", "emptied", "deleted"} /\ behind \in BOOLEAN
  /\ image \in Image /\ photos \subseteq Photo
  /\ rendered \in [ProfileTab -> Image]
  /\ form \in [ProfileTab -> [stage : {"closed", "open"}, image : Image]]
  /\ change \in [ProfileTab -> Change] /\ cleaning \subseteq Photo

Pending(t) == change[t].stage \in {"resolve", "update"}

(* A file on its way to the column is stored, and nowhere else yet.        *)
NewIsFresh(t) ==
  /\ change[t].new \in Photo /\ change[t].new # image /\ change[t].new \notin cleaning
  /\ account = "live" /\ ~behind => change[t].new \in photos
  /\ \A u \in ProfileTab : change[t].new \notin {rendered[u], form[u].image, change[u].previous}
  /\ \A u \in ProfileTab : Pending(u) /\ change[u].new = change[t].new => u = t

(* A file about to be deleted is not in the column.                        *)
PreviousIsPast == behind \/ image \notin cleaning

PhotoInv ==
  /\ PhotoTyped
  /\ \A t \in ProfileTab : change[t].new # NoFile => Pending(t)
  /\ \A t \in ProfileTab : Pending(t) => NewIsFresh(t)
  /\ PreviousIsPast
  /\ ImageStored

LEMMA PhotoInitInv == PhotoInit => PhotoInv
<1> SUFFICES ASSUME PhotoInit PROVE PhotoInv
  OBVIOUS
<1>1. (CHOOSE p \in Photo : TRUE) \in Photo
  BY PhotoAssumption
<1>2. PhotoTyped
  BY <1>1 DEF PhotoInit, PhotoTyped, Change, Image, Idle, Closed
<1> QED BY <1>2, PhotoAssumption DEF PhotoInit, PhotoInv, Pending, PreviousIsPast, ImageStored, Idle

LEMMA RefreshSessionStep == ASSUME PhotoInv, NEW t \in ProfileTab, RefreshSession(t) PROVE PhotoInv'
<1> USE DEF PhotoInv, RefreshSession, Step
<1>1. PhotoTyped'
  BY DEF PhotoTyped
<1>2. \A u \in ProfileTab : change'[u].new # NoFile => Pending(u)'
  BY DEF Pending
<1>3. \A u \in ProfileTab : Pending(u)' => NewIsFresh(u)'
  BY DEF Pending, NewIsFresh
<1>4. PreviousIsPast'
  BY DEF PreviousIsPast
<1>5. ImageStored'
  BY DEF ImageStored
<1> QED BY <1>1, <1>2, <1>3, <1>4, <1>5

LEMMA ChangePhotoStep == ASSUME PhotoInv, NEW t \in ProfileTab, ChangePhoto(t) PROVE PhotoInv'
<1> USE DEF PhotoInv, ChangePhoto, Step
<1>1. PhotoTyped'
  BY DEF PhotoTyped, Change, Image
<1>2. \A u \in ProfileTab : change'[u].new # NoFile => Pending(u)'
  BY DEF Pending
<1>3. \A u \in ProfileTab : Pending(u)' => NewIsFresh(u)'
  BY DEF Pending, NewIsFresh
<1>4. PreviousIsPast'
  BY DEF PreviousIsPast
<1>5. ImageStored'
  BY DEF ImageStored
<1> QED BY <1>1, <1>2, <1>3, <1>4, <1>5

LEMMA UploadPhotoStep == ASSUME PhotoInv, NEW t \in ProfileTab, UploadPhoto(t) PROVE PhotoInv'
<1> USE DEF PhotoInv
<1>1. CASE change' = [change EXCEPT ![t] = Idle] /\ UNCHANGED photos
  <2> USE <1>1 DEF UploadPhoto
  <2>1. PhotoTyped'
    BY DEF PhotoTyped, Change, Image, Idle
  <2>2. \A u \in ProfileTab :
          /\ change'[u].new # NoFile => Pending(u)'
          /\ Pending(u)' => NewIsFresh(u)'
    BY PhotoAssumption DEF Pending, NewIsFresh, Idle
  <2> QED BY <2>1, <2>2 DEF ImageStored, PreviousIsPast
<1>2. ASSUME NEW p \in Photo, Fresh(p), photos' = photos \cup {p},
             change' = [change EXCEPT ![t].stage = "resolve", ![t].new = p]
      PROVE  PhotoInv'
  <2> DEFINE new == [change[t] EXCEPT !.stage = "resolve", !.new = p]
  <2>1. /\ change[t] \in Change /\ behind \in BOOLEAN
        /\ UNCHANGED <<account, image, rendered, form, cleaning, behind>>
    BY DEF PhotoTyped, UploadPhoto
  <2>2. /\ new \in Change /\ new.stage = "resolve" /\ new.new = p
        /\ new.previous = change[t].previous
    BY <2>1 DEF Change, Image
  <2>3. change' = [change EXCEPT ![t] = new]
    BY <1>2 DEF PhotoTyped
  <2> HIDE DEF new
  <2>4. PhotoTyped'
    BY <1>2, <2>1, <2>2, <2>3 DEF PhotoTyped
  <2>5. \A u \in ProfileTab : change'[u] = IF u = t THEN new ELSE change[u]
    BY <2>3 DEF PhotoTyped
  <2>6. \A u \in ProfileTab : change'[u].previous = change[u].previous
    BY <2>2, <2>5
  <2>7. p # image /\ p \notin cleaning /\ \A u \in ProfileTab :
          p \notin {change[u].new, change[u].previous, form[u].image, rendered[u]}
    BY <1>2 DEF Fresh
  <2>8. ASSUME NEW u \in ProfileTab, Pending(u)' PROVE NewIsFresh(u)'
    <3>1. CASE u = t
      <4>1. change'[t].new = p
        BY <2>2, <2>5
      <4>2. p \in photos'
        BY <1>2
      <4>3. \A w \in ProfileTab : p \notin {rendered'[w], form'[w].image, change'[w].previous}
        BY <2>1, <2>6, <2>7
      <4>4. \A w \in ProfileTab : change'[w].new = p => w = t
        BY <2>5, <2>7
      <4>5. p # image' /\ p \notin cleaning'
        BY <2>1, <2>7
      <4> QED BY <3>1, <4>1, <4>2, <4>3, <4>4, <4>5 DEF NewIsFresh
    <3>2. CASE u # t
      <4>1. change'[u] = change[u] /\ NewIsFresh(u)
        BY <2>5, <2>8, <3>2 DEF Pending
      <4>2. \A w \in ProfileTab :
              change'[u].new \notin {rendered'[w], form'[w].image, change'[w].previous}
        BY <2>1, <2>6, <4>1 DEF NewIsFresh
      <4>3. \A w \in ProfileTab : Pending(w)' /\ change'[w].new = change'[u].new => w = u
        BY <2>2, <2>5, <2>7, <4>1 DEF NewIsFresh, Pending
      <4>4. /\ change'[u].new \in Photo /\ change'[u].new # image' /\ change'[u].new \notin cleaning'
            /\ account' = "live" /\ ~behind' => change'[u].new \in photos'
        <5>1. /\ change[u].new \in Photo /\ change[u].new # image /\ change[u].new \notin cleaning
              /\ account = "live" /\ ~behind => change[u].new \in photos
          BY <4>1 DEF NewIsFresh
        <5>2. photos \subseteq photos'
          BY <1>2
        <5>3. account' = account /\ image' = image /\ behind' = behind /\ cleaning' = cleaning
          BY <2>1
        <5>4. change'[u].new = change[u].new
          BY <4>1
        <5> QED BY <5>1, <5>2, <5>3, <5>4
      <4> QED BY <4>2, <4>3, <4>4 DEF NewIsFresh
    <3> QED BY <3>1, <3>2
  <2>9. \A u \in ProfileTab : change'[u].new # NoFile => Pending(u)'
    BY <2>1, <2>2, <2>5 DEF Pending
  <2>10. PreviousIsPast'
    BY <2>1 DEF PreviousIsPast
  <2> QED BY <1>2, <2>1, <2>4, <2>8, <2>9, <2>10 DEF ImageStored
<1>3. ASSUME \E q \in Photo : Fresh(q)
      PROVE  (CHOOSE p \in Photo : Fresh(p)) \in Photo /\ Fresh(CHOOSE p \in Photo : Fresh(p))
  BY <1>3, Zenon
<1> QED BY <1>1, <1>2, <1>3 DEF UploadPhoto

LEMMA ResolveFileIdStep == ASSUME PhotoInv, NEW t \in ProfileTab, ResolveFileId(t) PROVE PhotoInv'
<1> USE DEF PhotoInv, ResolveFileId, Step
<1>0. /\ change[t].stage = "resolve" /\ UNCHANGED <<account, image, photos, rendered, form, cleaning, behind>>
      /\ \A u \in ProfileTab : u # t => change'[u] = change[u]
      /\ \/ change'[t] = Idle
         \/ /\ change'[t].stage = "update" /\ change'[t].new = change[t].new
            /\ change'[t].previous = change[t].previous
      /\ PhotoTyped'
  <2>1. PICK new \in {Idle, [change[t] EXCEPT !.stage = "update"]} :
          change' = [change EXCEPT ![t] = new]
    BY DEF PhotoTyped
  <2>2. /\ new \in Change
        /\ \/ new = Idle
           \/ /\ new.stage = "update" /\ new.new = change[t].new
              /\ new.previous = change[t].previous
    <3>1. change[t] \in Change /\ Idle \in Change
      BY DEF PhotoTyped, Change, Image, Idle
    <3> QED BY <3>1 DEF Change
  <2> QED BY <2>1, <2>2 DEF PhotoTyped
<1>2. \A u \in ProfileTab : change'[u].new # NoFile => Pending(u)'
  BY <1>0 DEF Pending, Idle
<1>3. \A u \in ProfileTab : Pending(u)' => NewIsFresh(u)'
  BY PhotoAssumption, <1>0 DEF Pending, NewIsFresh, Idle
<1>4. PreviousIsPast'
  BY <1>0 DEF PreviousIsPast, Idle
<1>5. ImageStored'
  BY DEF ImageStored
<1> QED BY <1>0, <1>2, <1>3, <1>4, <1>5

LEMMA PointImageStep == ASSUME PhotoInv, NEW t \in ProfileTab, PointImage(t) PROVE PhotoInv'
<1> USE DEF PhotoInv, PointImage, Step
<1>1. PhotoTyped'
  <2>1. /\ change' = [change EXCEPT ![t] = Idle]
        /\ image' \in {change[t].new, image}
        /\ cleaning' \in {cleaning, cleaning \cup ({change[t].previous} \ {NoFile})}
        /\ form' \in {form, [form EXCEPT ![t].image = change[t].new]}
    BY DEF PhotoTyped
  <2>2. change[t] \in Change /\ Idle \in Change
    BY DEF PhotoTyped, Change, Image, Idle
  <2>3. change' \in [ProfileTab -> Change] /\ cleaning' \subseteq Photo
    BY <2>1, <2>2 DEF PhotoTyped, Change, Image
  <2> QED BY <2>1, <2>2, <2>3 DEF PhotoTyped, Change
<1>2. \A u \in ProfileTab : change'[u].new # NoFile => Pending(u)'
  BY DEF Pending, Idle
<1>3. \A u \in ProfileTab : Pending(u)' => NewIsFresh(u)'
  BY PhotoAssumption DEF PhotoTyped, Pending, NewIsFresh, Idle
<1>4. PreviousIsPast'
  BY DEF Pending, NewIsFresh, PreviousIsPast, Idle, Cleans
<1>5. ImageStored'
  BY PhotoAssumption DEF NewIsFresh, ImageStored
<1> QED BY <1>1, <1>2, <1>3, <1>4, <1>5

LEMMA CleanPreviousStep == ASSUME PhotoInv, NEW p \in cleaning, CleanPrevious(p) PROVE PhotoInv'
<1> USE DEF PhotoInv, CleanPrevious, Step
<1>1. PhotoTyped'
  BY DEF PhotoTyped, Change, Image, Idle
<1>2. \A u \in ProfileTab : change'[u].new # NoFile => Pending(u)'
  BY DEF Pending, Idle
<1>3. \A u \in ProfileTab : Pending(u)' => NewIsFresh(u)'
  BY PhotoAssumption DEF Pending, NewIsFresh, Idle
<1>4. PreviousIsPast'
  BY DEF PreviousIsPast, Idle
<1>5. ImageStored'
  BY DEF PreviousIsPast, ImageStored
<1> QED BY <1>1, <1>2, <1>3, <1>4, <1>5

LEMMA EditProfileStep == ASSUME PhotoInv, NEW t \in ProfileTab, EditProfile(t) PROVE PhotoInv'
<1> USE DEF PhotoInv, EditProfile, Step
<1>1. PhotoTyped'
  BY DEF PhotoTyped
<1>2. \A u \in ProfileTab : change'[u].new # NoFile => Pending(u)'
  BY DEF Pending
<1>3. \A u \in ProfileTab : Pending(u)' => NewIsFresh(u)'
  BY DEF Pending, NewIsFresh
<1>4. PreviousIsPast'
  BY DEF PreviousIsPast
<1>5. ImageStored'
  BY DEF ImageStored
<1> QED BY <1>1, <1>2, <1>3, <1>4, <1>5

LEMMA TypeImageStep == ASSUME PhotoInv, NEW t \in ProfileTab, TypeImage(t) PROVE PhotoInv'
<1> USE DEF PhotoInv, TypeImage, Step
<1>1. PhotoTyped'
  BY DEF PhotoTyped, Image
<1>2. \A u \in ProfileTab : change'[u].new # NoFile => Pending(u)'
  BY DEF Pending
<1>3. \A u \in ProfileTab : Pending(u)' => NewIsFresh(u)'
  BY PhotoAssumption DEF Pending, NewIsFresh
<1>4. PreviousIsPast'
  BY DEF PreviousIsPast
<1>5. ImageStored'
  BY DEF ImageStored
<1> QED BY <1>1, <1>2, <1>3, <1>4, <1>5

LEMMA CancelProfileStep == ASSUME PhotoInv, NEW t \in ProfileTab, CancelProfile(t) PROVE PhotoInv'
<1> USE DEF PhotoInv, CancelProfile, Step
<1>1. PhotoTyped'
  BY DEF PhotoTyped, Image, Closed
<1>2. \A u \in ProfileTab : change'[u].new # NoFile => Pending(u)'
  BY DEF Pending
<1>3. \A u \in ProfileTab : Pending(u)' => NewIsFresh(u)'
  BY PhotoAssumption DEF Pending, NewIsFresh, Closed
<1>4. PreviousIsPast'
  BY DEF PreviousIsPast
<1>5. ImageStored'
  BY DEF ImageStored
<1> QED BY <1>1, <1>2, <1>3, <1>4, <1>5

LEMMA SaveProfileStep == ASSUME PhotoInv, NEW t \in ProfileTab, SaveProfile(t) PROVE PhotoInv'
<1> USE DEF PhotoInv, SaveProfile, Step
<1>1. PhotoTyped'
  BY DEF PhotoTyped, Image, Closed
<1>2. \A u \in ProfileTab : change'[u].new # NoFile => Pending(u)'
  BY DEF Pending
<1>3. \A u \in ProfileTab : Pending(u)' => NewIsFresh(u)'
  BY PhotoAssumption DEF PhotoTyped, Pending, NewIsFresh, Closed
<1>4. PreviousIsPast'
  BY DEF PhotoTyped, Pending, NewIsFresh, PreviousIsPast, Idle, Closed, Cleans
<1>5. ImageStored'
  BY PhotoAssumption DEF PhotoTyped, Pending, NewIsFresh, PreviousIsPast, ImageStored
<1> QED BY <1>1, <1>2, <1>3, <1>4, <1>5

LEMMA BeforeDeleteStep == ASSUME PhotoInv, BeforeDelete PROVE PhotoInv'
<1> USE DEF PhotoInv, BeforeDelete, Step
<1>1. PhotoTyped'
  BY DEF PhotoTyped
<1>2. \A u \in ProfileTab : change'[u].new # NoFile => Pending(u)'
  BY DEF Pending
<1>3. \A u \in ProfileTab : Pending(u)' => NewIsFresh(u)'
  BY DEF Pending, NewIsFresh
<1>4. PreviousIsPast'
  BY DEF PreviousIsPast
<1>5. ImageStored'
  BY DEF ImageStored
<1> QED BY <1>1, <1>2, <1>3, <1>4, <1>5

LEMMA DeleteUserStep == ASSUME PhotoInv, DeleteUser PROVE PhotoInv'
<1> USE DEF PhotoInv, DeleteUser, Step
<1>1. PhotoTyped'
  BY DEF PhotoTyped, Change, Image, Idle, Closed
<1>2. \A u \in ProfileTab : change'[u].new # NoFile => Pending(u)'
  BY DEF Pending
<1>3. \A u \in ProfileTab : Pending(u)' => NewIsFresh(u)'
  BY DEF Pending, NewIsFresh
<1>4. PreviousIsPast'
  BY DEF PreviousIsPast
<1>5. ImageStored'
  BY DEF ImageStored
<1> QED BY <1>1, <1>2, <1>3, <1>4, <1>5

LEMMA PhotoNextInv == PhotoInv /\ [PhotoNext]_photoVars => PhotoInv'
<1> SUFFICES ASSUME PhotoInv, [PhotoNext]_photoVars PROVE PhotoInv'
  OBVIOUS
<1>1. CASE UNCHANGED photoVars
  BY <1>1 DEF photoVars, PhotoInv, PhotoTyped, Pending, NewIsFresh, PreviousIsPast, ImageStored
<1> QED BY <1>1, RefreshSessionStep, ChangePhotoStep, UploadPhotoStep, ResolveFileIdStep,
           PointImageStep, CleanPreviousStep, EditProfileStep, TypeImageStep, CancelProfileStep,
           SaveProfileStep, BeforeDeleteStep, DeleteUserStep DEF PhotoNext

(* The photo of a live account is stored, for any number of tabs and of    *)
(* photos, except after a stale form or a deletion that failed half way    *)
(* (profileSettings.tsx changePhoto, lib/auth.ts beforeDelete).            *)
THEOREM PhotoIsStored == PhotoSpec => []ImageStored
<1>1. PhotoInv => ImageStored
  BY DEF PhotoInv
<1> QED BY <1>1, PhotoInitInv, PhotoNextInv, PTL DEF PhotoSpec

-----------------------------------------------------------------------------
(***************************************************************************)
(* The second factor: a form that waits has a call under way that will     *)
(* still find it.  A call changes nothing for the other browsers, so every *)
(* step is a matter of the browser it happens in.                          *)
(***************************************************************************)

Dialog == [settingUp : BOOLEAN, disabling : BOOLEAN, pending : BOOLEAN,
           step : {"password", "asking", "shown", "confirming"}, shown : TwoFactorRow]

Call == [from : Browser, kind : {"enable", "verify", "disable"}, secret : TwoFactorRow,
         stage : {"sent", "answered"}, hears : {"dialog", "settings", "nobody"}, ok : BOOLEAN]

SecurityTyped == dialogs \in [Browser -> Dialog] /\ asked \subseteq Call

SecurityInv == SecurityTyped /\ FormsAnswered

LEMMA SecurityInitInv == SecurityInit => SecurityInv
<1> SUFFICES ASSUME SecurityInit PROVE SecurityInv
  OBVIOUS
<1>1. SecurityTyped
  BY DEF SecurityInit, SecurityTyped, TwoFactorRow, Dialog, ClosedPanel
<1> QED BY <1>1 DEF SecurityInit, SecurityInv, ClosedPanel, FormsAnswered

(* The state in which a form of one browser is answered for.               *)
FormAnswered(b) ==
  /\ dialogs[b].step = "asking" => Awaited(b, "enable", "dialog")
  /\ dialogs[b].step = "confirming" => Awaited(b, "verify", "dialog")
  /\ dialogs[b].pending => Awaited(b, "disable", "settings")

(* What one browser does leaves the forms of the others answered for.      *)
LEMMA OneBrowserMoves ==
  ASSUME SecurityInv, NEW b \in Browser,
         NEW new \in Dialog, dialogs' = [dialogs EXCEPT ![b] = new],
         asked' \subseteq Call,
         \A c \in asked : c.from # b => c \in asked',
         FormAnswered(b)'
  PROVE  SecurityInv'
<1>1. SecurityTyped'
  BY DEF SecurityInv, SecurityTyped
<1>2. ASSUME NEW u \in Browser, u # b PROVE FormAnswered(u)'
  <2>1. dialogs'[u] = dialogs[u]
    BY <1>2 DEF SecurityInv, SecurityTyped
  <2>2. \A kind, who : Awaited(u, kind, who) => Awaited(u, kind, who)'
    BY <1>2 DEF Awaited
  <2>3. FormAnswered(u)
    BY DEF SecurityInv, FormsAnswered, FormAnswered
  <2> QED BY <2>1, <2>2, <2>3 DEF FormAnswered
<1> QED BY <1>1, <1>2 DEF SecurityInv, FormsAnswered, FormAnswered

(* A dialog that goes away keeps its calls, which only the settings hear,  *)
(* and the calls of the settings are heard as before.                      *)
LEMMA SetupGoneKeeps ==
  ASSUME NEW calls, calls \subseteq Call, NEW b \in Browser
  PROVE  /\ SetupGone(b, calls) \subseteq Call
         /\ \A c \in calls : c.from # b \/ c.hears # "dialog" => c \in SetupGone(b, calls)
<1> DEFINE Moved(c) == IF c.from = b /\ c.hears = "dialog" THEN [c EXCEPT !.hears = "settings"] ELSE c
<1>1. \A c \in Call : Moved(c) \in Call
  BY DEF Call
<1>2. \A c \in calls : c.from # b \/ c.hears # "dialog" => Moved(c) = c
  OBVIOUS
<1>3. SetupGone(b, calls) = {Moved(c) : c \in calls}
  BY Zenon DEF SetupGone
<1> HIDE DEF Moved
<1> QED BY <1>1, <1>2, <1>3

LEMMA SettingsGoneKeeps ==
  ASSUME NEW calls, calls \subseteq Call, NEW b \in Browser
  PROVE  /\ SettingsGone(b, calls) \subseteq Call
         /\ \A c \in calls : c.from # b => c \in SettingsGone(b, calls)
<1>1. \A c \in Call : [c EXCEPT !.hears = "nobody"] \in Call
  BY DEF Call
<1> QED BY <1>1 DEF SettingsGone

(* A form that waits for nothing.                                          *)
LEMMA ClosedIsAnswered ==
  /\ ClosedPanel \in Dialog
  /\ \A b \in Browser : dialogs'[b] = ClosedPanel => FormAnswered(b)'
BY DEF ClosedPanel, Dialog, TwoFactorRow, FormAnswered

LEMMA LeaveStep == ASSUME SecurityInv, NEW b \in Browser, Leave(b) PROVE SecurityInv'
<1>1. dialogs' = [dialogs EXCEPT ![b] = ClosedPanel] /\ dialogs'[b] = ClosedPanel
  BY DEF Leave, SecurityInv, SecurityTyped
<1>2. asked' \subseteq Call /\ \A c \in asked : c.from # b => c \in asked'
  BY DEF Leave, SecurityInv, SecurityTyped
<1> QED BY <1>1, <1>2, ClosedIsAnswered, OneBrowserMoves

LEMMA CloseSettingsStep == ASSUME SecurityInv, NEW b \in Browser, CloseSettings(b) PROVE SecurityInv'
<1>1. dialogs' = [dialogs EXCEPT ![b] = ClosedPanel] /\ dialogs'[b] = ClosedPanel
  BY DEF CloseSettings, SecurityInv, SecurityTyped
<1>2. asked' \subseteq Call /\ \A c \in asked : c.from # b => c \in asked'
  BY SettingsGoneKeeps DEF CloseSettings, SecurityInv, SecurityTyped
<1> QED BY <1>1, <1>2, ClosedIsAnswered, OneBrowserMoves

(* The setup dialog goes away, by itself or by what the session says.      *)
LEMMA SetupGoneStep ==
  ASSUME SecurityInv, NEW b \in Browser,
         NEW calls, calls \subseteq asked,
         \A c \in asked \ calls : c.from = b /\ c.kind # "disable",
         NEW new \in Dialog, new.step = "password", new.pending = dialogs[b].pending,
         dialogs' = [dialogs EXCEPT ![b] = new], asked' = SetupGone(b, calls)
  PROVE  SecurityInv'
<1>1. calls \subseteq Call /\ dialogs'[b] = new
  BY DEF SecurityInv, SecurityTyped
<1>2. asked' \subseteq Call /\ \A c \in calls : c.from # b \/ c.hears # "dialog" => c \in asked'
  BY <1>1, SetupGoneKeeps
<1>3. \A c \in asked : c.from # b => c \in asked'
  BY <1>2
<1>4. dialogs[b].pending => Awaited(b, "disable", "settings")
  BY DEF SecurityInv, FormsAnswered
<1>5. Awaited(b, "disable", "settings") => Awaited(b, "disable", "settings")'
  BY <1>2 DEF Awaited
<1>6. FormAnswered(b)'
  BY <1>1, <1>4, <1>5 DEF FormAnswered
<1> QED BY <1>2, <1>3, <1>6, OneBrowserMoves

LEMMA UnmountedIs ==
  ASSUME SecurityTyped, NEW b \in Browser
  PROVE  Unmounted(b) = [dialogs EXCEPT ![b] =
           [dialogs[b] EXCEPT !.settingUp = FALSE, !.step = "password", !.shown = NoSecret]]
BY DEF Unmounted, SecurityTyped

LEMMA CancelSetupStep == ASSUME SecurityInv, NEW b \in Browser, CancelSetup(b) PROVE SecurityInv'
<1> DEFINE new == [dialogs[b] EXCEPT !.settingUp = FALSE, !.step = "password", !.shown = NoSecret]
<1>1. new \in Dialog /\ new.step = "password" /\ new.pending = dialogs[b].pending
  BY DEF SecurityInv, SecurityTyped, Dialog, TwoFactorRow
<1>2. dialogs' = [dialogs EXCEPT ![b] = new] /\ asked' = SetupGone(b, asked)
  <2>1. dialogs' = Unmounted(b) /\ asked' = SetupGone(b, asked)
    BY Zenon DEF CancelSetup
  <2> HIDE DEF new
  <2>2. Unmounted(b) = [dialogs EXCEPT ![b] = new]
    BY UnmountedIs DEF SecurityInv, new
  <2> QED BY <2>1, <2>2, Zenon
<1> HIDE DEF new
<1> QED BY <1>1, <1>2, SetupGoneStep

LEMMA HearSessionStep == ASSUME SecurityInv, NEW b \in Browser, HearSession(b) PROVE SecurityInv'
<1> DEFINE new == [dialogs[b] EXCEPT !.step = "password", !.shown = NoSecret]
<1>1. new \in Dialog /\ new.step = "password" /\ new.pending = dialogs[b].pending
  BY DEF SecurityInv, SecurityTyped, Dialog, TwoFactorRow
<1>2. \/ UNCHANGED <<dialogs, asked>>
      \/ dialogs' = [dialogs EXCEPT ![b] = new] /\ asked' = SetupGone(b, asked)
  <2>1. [dialogs EXCEPT ![b].step = "password", ![b].shown = NoSecret] = [dialogs EXCEPT ![b] = new]
    BY DEF SecurityInv, SecurityTyped
  <2>2. \/ UNCHANGED <<dialogs, asked>>
        \/ /\ dialogs' = [dialogs EXCEPT ![b].step = "password", ![b].shown = NoSecret]
           /\ asked' = SetupGone(b, asked)
    BY Zenon DEF HearSession
  <2> QED BY <2>1, <2>2, Zenon
<1> HIDE DEF new
<1>3. CASE UNCHANGED <<dialogs, asked>>
  BY <1>3 DEF SecurityInv, SecurityTyped, FormsAnswered, Awaited
<1> QED BY <1>1, <1>2, <1>3, SetupGoneStep

(* A dialog changes nothing that a form waits with, or stops waiting.      *)
LEMMA DialogOnly ==
  ASSUME SecurityInv, NEW b \in Browser, NEW new \in Dialog,
         dialogs' = [dialogs EXCEPT ![b] = new], UNCHANGED asked,
         new.step = dialogs[b].step, new.pending = dialogs[b].pending
  PROVE  SecurityInv'
<1>1. dialogs'[b] = new /\ asked' \subseteq Call
  BY DEF SecurityInv, SecurityTyped
<1>2. FormAnswered(b)'
  BY <1>1 DEF SecurityInv, FormsAnswered, FormAnswered, Awaited
<1> QED BY <1>1, <1>2, OneBrowserMoves

LEMMA OpenSetupStep == ASSUME SecurityInv, NEW b \in Browser, OpenSetup(b) PROVE SecurityInv'
<1> DEFINE new == [dialogs[b] EXCEPT !.settingUp = TRUE]
<1>1. new \in Dialog /\ new.step = dialogs[b].step /\ new.pending = dialogs[b].pending
  BY DEF SecurityInv, SecurityTyped, Dialog
<1>2. dialogs' = [dialogs EXCEPT ![b] = new] /\ UNCHANGED asked
  BY DEF OpenSetup, SecurityInv, SecurityTyped
<1> HIDE DEF new
<1> QED BY <1>1, <1>2, DialogOnly

LEMMA OpenDisablingStep == ASSUME SecurityInv, NEW b \in Browser, OpenDisabling(b) PROVE SecurityInv'
<1> DEFINE new == [dialogs[b] EXCEPT !.disabling = TRUE]
<1>1. new \in Dialog /\ new.step = dialogs[b].step /\ new.pending = dialogs[b].pending
  BY DEF SecurityInv, SecurityTyped, Dialog
<1>2. dialogs' = [dialogs EXCEPT ![b] = new] /\ UNCHANGED asked
  BY DEF OpenDisabling, SecurityInv, SecurityTyped
<1> HIDE DEF new
<1> QED BY <1>1, <1>2, DialogOnly

LEMMA CancelDisablingStep == ASSUME SecurityInv, NEW b \in Browser, CancelDisabling(b) PROVE SecurityInv'
<1> DEFINE new == [dialogs[b] EXCEPT !.disabling = FALSE]
<1>1. new \in Dialog /\ new.step = dialogs[b].step /\ new.pending = dialogs[b].pending
  BY DEF SecurityInv, SecurityTyped, Dialog
<1>2. dialogs' = [dialogs EXCEPT ![b] = new] /\ UNCHANGED asked
  BY DEF CancelDisabling, SecurityInv, SecurityTyped
<1> HIDE DEF new
<1> QED BY <1>1, <1>2, DialogOnly

(* A form that starts to wait has sent its call.                           *)
LEMMA AskKeeps ==
  ASSUME SecurityInv, NEW b \in Browser, NEW kind \in {"enable", "verify", "disable"},
         Ask2fa(b, kind)
  PROVE  /\ asked' \subseteq Call /\ asked \subseteq asked'
         /\ Awaited(b, kind, IF kind = "disable" THEN "settings" ELSE "dialog")'
         /\ \A k, who : Awaited(b, k, who) => Awaited(b, k, who)'
<1> DEFINE call == [from |-> b, kind |-> kind, secret |-> dialogs[b].shown, stage |-> "sent",
                    hears |-> IF kind = "disable" THEN "settings" ELSE "dialog", ok |-> FALSE]
<1>1. call \in Call
  BY DEF SecurityInv, SecurityTyped, Dialog, Call
<1>2. asked' = asked \cup {call}
  BY DEF Ask2fa
<1>3. call.from = b /\ call.kind = kind
      /\ call.hears = (IF kind = "disable" THEN "settings" ELSE "dialog")
  OBVIOUS
<1> HIDE DEF call
<1> QED BY <1>1, <1>2, <1>3 DEF SecurityInv, SecurityTyped, Awaited

LEMMA RequestSecretStep == ASSUME SecurityInv, NEW b \in Browser, RequestSecret(b) PROVE SecurityInv'
<1> DEFINE new == [dialogs[b] EXCEPT !.step = "asking"]
<1>1. new \in Dialog /\ new.step = "asking" /\ new.pending = dialogs[b].pending
  BY DEF SecurityInv, SecurityTyped, Dialog
<1>2. dialogs' = [dialogs EXCEPT ![b] = new] /\ dialogs'[b] = new /\ Ask2fa(b, "enable")
  BY DEF RequestSecret, SecurityInv, SecurityTyped
<1> HIDE DEF new
<1>3. /\ asked' \subseteq Call /\ asked \subseteq asked' /\ Awaited(b, "enable", "dialog")'
      /\ Awaited(b, "disable", "settings") => Awaited(b, "disable", "settings")'
  BY <1>2, AskKeeps
<1>4. FormAnswered(b)'
  BY <1>1, <1>2, <1>3 DEF SecurityInv, FormsAnswered, FormAnswered
<1> QED BY <1>1, <1>2, <1>3, <1>4, OneBrowserMoves

LEMMA ConfirmCodeStep == ASSUME SecurityInv, NEW b \in Browser, ConfirmCode(b) PROVE SecurityInv'
<1> DEFINE new == [dialogs[b] EXCEPT !.step = "confirming"]
<1>1. new \in Dialog /\ new.step = "confirming" /\ new.pending = dialogs[b].pending
  BY DEF SecurityInv, SecurityTyped, Dialog
<1>2. dialogs' = [dialogs EXCEPT ![b] = new] /\ dialogs'[b] = new /\ Ask2fa(b, "verify")
  BY DEF ConfirmCode, SecurityInv, SecurityTyped
<1> HIDE DEF new
<1>3. /\ asked' \subseteq Call /\ asked \subseteq asked' /\ Awaited(b, "verify", "dialog")'
      /\ Awaited(b, "disable", "settings") => Awaited(b, "disable", "settings")'
  BY <1>2, AskKeeps
<1>4. FormAnswered(b)'
  BY <1>1, <1>2, <1>3 DEF SecurityInv, FormsAnswered, FormAnswered
<1> QED BY <1>1, <1>2, <1>3, <1>4, OneBrowserMoves

LEMMA DisableTwoFactorStep ==
  ASSUME SecurityInv, NEW b \in Browser, DisableTwoFactor(b) PROVE SecurityInv'
<1> DEFINE new == [dialogs[b] EXCEPT !.pending = TRUE]
<1>1. new \in Dialog /\ new.step = dialogs[b].step /\ new.pending
  BY DEF SecurityInv, SecurityTyped, Dialog
<1>2. dialogs' = [dialogs EXCEPT ![b] = new] /\ dialogs'[b] = new /\ Ask2fa(b, "disable")
  BY DEF DisableTwoFactor, SecurityInv, SecurityTyped
<1> HIDE DEF new
<1>3. /\ asked' \subseteq Call /\ asked \subseteq asked' /\ Awaited(b, "disable", "settings")'
      /\ \A k, who : Awaited(b, k, who) => Awaited(b, k, who)'
  BY <1>2, AskKeeps
<1>4. FormAnswered(b)'
  BY <1>1, <1>2, <1>3 DEF SecurityInv, FormsAnswered, FormAnswered
<1> QED BY <1>1, <1>2, <1>3, <1>4, OneBrowserMoves

(* The service answers: whoever waited for the call waits for its answer.  *)
LEMMA AnsweredStep ==
  ASSUME SecurityInv, NEW c \in asked, NEW ok \in BOOLEAN, NEW secret \in TwoFactorRow,
         Answered2fa(c, ok, secret), UNCHANGED dialogs
  PROVE  SecurityInv'
<1> DEFINE answer == [c EXCEPT !.stage = "answered", !.ok = ok, !.secret = secret]
<1>1. c \in Call
  BY DEF SecurityInv, SecurityTyped
<1>2. answer \in Call /\ answer.from = c.from /\ answer.kind = c.kind /\ answer.hears = c.hears
  BY <1>1 DEF Call
<1>3. asked' = (asked \ {c}) \cup {answer}
  BY DEF Answered2fa
<1> HIDE DEF answer
<1>4. \A b, kind, who : Awaited(b, kind, who) => Awaited(b, kind, who)'
  BY <1>2, <1>3 DEF Awaited
<1> QED BY <1>2, <1>3, <1>4 DEF SecurityInv, SecurityTyped, FormsAnswered

LEMMA ServiceStep ==
  ASSUME SecurityInv, NEW c \in asked,
         VerifyCode(c) \/ DropSecret(c) \/ Refuse2fa(c) \/ \E s \in Secret : EnableSecret(c, s)
  PROVE  SecurityInv'
<1>1. /\ UNCHANGED dialogs
      /\ \E ok \in BOOLEAN, secret \in TwoFactorRow : Answered2fa(c, ok, secret)
  BY DEF VerifyCode, DropSecret, Refuse2fa, EnableSecret, TwoFactorRow
<1> QED BY <1>1, AnsweredStep

(* An answer ends the wait of the form that acts on it; one that no form   *)
(* acts on was not waited for.                                             *)
LEMMA HandleAnswerStep == ASSUME SecurityInv, NEW c \in asked, HandleAnswer(c) PROVE SecurityInv'
<1> DEFINE here == c.from
<1>1. c \in Call /\ here \in Browser /\ dialogs[here] \in Dialog /\ asked \subseteq Call
  BY DEF SecurityInv, SecurityTyped, Call
<1>2. FormAnswered(here)
  BY <1>1 DEF SecurityInv, FormsAnswered, FormAnswered
<1>3. ASSUME asked' = asked \ {c}
      PROVE  /\ asked' \subseteq Call /\ \A d \in asked : d.from # here => d \in asked'
             /\ \A kind, who : (c.kind # kind \/ c.hears # who) /\ Awaited(here, kind, who)
                                 => Awaited(here, kind, who)'
  BY <1>1, <1>3 DEF Awaited
<1>4. CASE ~ActsOn(c, c.ok) /\ asked' = asked \ {c} /\ UNCHANGED dialogs
  <2>1. dialogs' = [dialogs EXCEPT ![here] = dialogs[here]] /\ dialogs'[here] = dialogs[here]
    BY <1>1, <1>4 DEF SecurityInv, SecurityTyped
  <2>2. /\ c.kind = "enable" => c.hears # "dialog"
        /\ c.kind = "verify" => c.hears # "dialog"
        /\ c.kind = "disable" => c.hears # "settings"
    BY <1>1, <1>4 DEF ActsOn, Call
  <2>3. FormAnswered(here)'
    BY <1>2, <1>3, <1>4, <2>1, <2>2 DEF FormAnswered
  <2> QED BY <1>1, <1>3, <1>4, <2>1, <2>3, OneBrowserMoves
<1>5. CASE ActsOn(c, c.ok) /\ c.kind = "enable"
  <2> DEFINE new == [dialogs[here] EXCEPT !.step = IF c.ok THEN "shown" ELSE "password",
                                          !.shown = IF c.ok THEN c.secret ELSE NoSecret]
  <2>1. /\ new \in Dialog /\ new.step \notin {"asking", "confirming"}
        /\ new.pending = dialogs[here].pending
    BY <1>1 DEF Dialog, Call, TwoFactorRow
  <2>2. dialogs' = [dialogs EXCEPT ![here] = new] /\ asked' = asked \ {c}
    BY <1>1, <1>5 DEF HandleAnswer, SecurityInv, SecurityTyped
  <2> HIDE DEF new
  <2>3. dialogs'[here] = new
    BY <1>1, <2>2 DEF SecurityInv, SecurityTyped
  <2>4. FormAnswered(here)'
    BY <1>2, <1>3, <1>5, <2>1, <2>2, <2>3 DEF FormAnswered
  <2> QED BY <1>1, <1>3, <2>1, <2>2, <2>4, OneBrowserMoves
<1>6. CASE ActsOn(c, c.ok) /\ c.kind = "verify" /\ ~c.ok
  <2> DEFINE new == [dialogs[here] EXCEPT !.step = "shown"]
  <2>1. new \in Dialog /\ new.step = "shown" /\ new.pending = dialogs[here].pending
    BY <1>1 DEF Dialog
  <2>2. dialogs' = [dialogs EXCEPT ![here] = new] /\ asked' = asked \ {c}
    BY <1>1, <1>6 DEF HandleAnswer, SecurityInv, SecurityTyped
  <2> HIDE DEF new
  <2>3. dialogs'[here] = new
    BY <1>1, <2>2 DEF SecurityInv, SecurityTyped
  <2>4. FormAnswered(here)'
    BY <1>2, <1>3, <1>6, <2>1, <2>2, <2>3 DEF FormAnswered
  <2> QED BY <1>1, <1>3, <2>1, <2>2, <2>4, OneBrowserMoves
<1>7. CASE ActsOn(c, c.ok) /\ c.kind = "verify" /\ c.ok
  <2> DEFINE new == [dialogs[here] EXCEPT !.settingUp = FALSE, !.step = "password", !.shown = NoSecret]
             calls == asked \ {c}
  <2>1. new \in Dialog /\ new.step = "password" /\ new.pending = dialogs[here].pending
    BY <1>1 DEF Dialog, TwoFactorRow
  <2>2. dialogs' = [dialogs EXCEPT ![here] = new] /\ asked' = SetupGone(here, calls)
    <3>1. dialogs' = Unmounted(here) /\ asked' = SetupGone(here, calls)
      BY <1>7, Zenon DEF HandleAnswer
    <3> HIDE DEF new
    <3>2. Unmounted(here) = [dialogs EXCEPT ![here] = new]
      BY <1>1, UnmountedIs DEF SecurityInv, new
    <3> QED BY <3>1, <3>2, Zenon
  <2>3. calls \subseteq asked /\ \A d \in asked \ calls : d.from = here /\ d.kind # "disable"
    BY <1>7
  <2> HIDE DEF new, calls, here
  <2> QED BY <1>1, <2>1, <2>2, <2>3, SetupGoneStep
<1>8. CASE ActsOn(c, c.ok) /\ c.kind = "disable"
  <2> DEFINE new == [dialogs[here] EXCEPT !.pending = FALSE, !.disabling = @ /\ ~c.ok]
  <2>1. new \in Dialog /\ new.step = dialogs[here].step /\ new.pending = FALSE
    BY <1>1 DEF Dialog, Call
  <2>2. dialogs' = [dialogs EXCEPT ![here] = new] /\ asked' = asked \ {c}
    BY <1>1, <1>8 DEF HandleAnswer, SecurityInv, SecurityTyped
  <2> HIDE DEF new
  <2>3. dialogs'[here] = new
    BY <1>1, <2>2 DEF SecurityInv, SecurityTyped
  <2>4. FormAnswered(here)'
    BY <1>2, <1>3, <1>8, <2>1, <2>2, <2>3 DEF FormAnswered
  <2> QED BY <1>1, <1>3, <2>1, <2>2, <2>4, OneBrowserMoves
<1> QED BY <1>4, <1>5, <1>6, <1>7, <1>8 DEF HandleAnswer

(* What happens outside the dialogs.                                       *)
LEMMA ElsewhereStep ==
  ASSUME SecurityInv, UNCHANGED <<dialogs, asked>>
  PROVE  SecurityInv'
BY DEF SecurityInv, SecurityTyped, FormsAnswered, Awaited

LEMMA SecurityNextInv == SecurityInv /\ [SecurityNext]_securityVars => SecurityInv'
<1> SUFFICES ASSUME SecurityInv, [SecurityNext]_securityVars PROVE SecurityInv'
  OBVIOUS
<1>1. CASE UNCHANGED securityVars \/ FollowLink
  BY <1>1, ElsewhereStep DEF securityVars, FollowLink
<1>2. ASSUME NEW b \in Browser,
             \/ SignUp(b) \/ SubmitPassword(b) \/ SubmitCode(b) \/ ReloadPage(b)
             \/ \E other \in Browser : RevokeSession(b, other)
      PROVE  SecurityInv'
  BY <1>2, ElsewhereStep DEF SignUp, SubmitPassword, SubmitCode, ReloadPage, RevokeSession
<1>3. ASSUME NEW b \in Browser, SignOut(b) \/ RequireAuthenticated(b) PROVE SecurityInv'
  BY <1>3, LeaveStep DEF SignOut, RequireAuthenticated
<1> QED BY <1>1, <1>2, <1>3, HearSessionStep, OpenSetupStep, CancelSetupStep, CloseSettingsStep,
           RequestSecretStep, ConfirmCodeStep, OpenDisablingStep, CancelDisablingStep,
           DisableTwoFactorStep, ServiceStep, HandleAnswerStep DEF SecurityNext

(* No form of the two-factor settings waits for an answer that will not    *)
(* come (securitySettings.tsx, twoFactorSetupDialog.tsx): for any number   *)
(* of browsers and calls under way, in whatever order they are answered    *)
(* and whatever is closed meanwhile.                                       *)
THEOREM FormsGetAnswers == SecuritySpec => []FormsAnswered
<1>1. SecurityInv => FormsAnswered
  BY DEF SecurityInv
<1> QED BY <1>1, SecurityInitInv, SecurityNextInv, PTL DEF SecuritySpec

-----------------------------------------------------------------------------
(***************************************************************************)
(* The opening message: one send carries it at a time, while its key is    *)
(* out of sessionStorage, and it is in the transcript once that send was   *)
(* admitted.                                                               *)
(***************************************************************************)

SomeText == Text \cup {Nothing}

Page == [draft : SomeText, files : SUBSET Picked, starting : BOOLEAN, ready : BOOLEAN,
         sentPending : BOOLEAN, abortRequested : BOOLEAN, failed : SUBSET Body]

SendState ==
  [kind : {"none", "opening", "fallback", "follow"},
   stage : {"none", "creating", "uploading", "sending", "admitted"},
   conv : Conversation \cup {Home}, mine : BOOLEAN,
   body : [text : SomeText, files : SUBSET Picked]]

(* A send is of a conversation and goes through the stages of its kind.    *)
SendType == {m \in SendState :
  /\ m.kind = "none" => m.stage = "none"
  /\ m.kind # "none" => m.conv \in Conversation /\ m.body \in Body
  /\ m.stage = "creating" => m.kind = "opening"
  /\ m.kind = "fallback" => m.stage \in {"sending", "admitted"}}

Message == [kind : {"opening", "fallback", "follow"}, body : Body]

Fate == {"unwritten", "started", "handed over", "answer lost", "refused", "interrupted", "lost"}

ChatTyped ==
  /\ screen \in Conversation \cup {Home}
  /\ page \in Page
  /\ send \in [Slot -> SendType]
  /\ created \subseteq Conversation
  /\ pending \in [Conversation -> Body \cup {Nothing}]
  /\ stream \in [Conversation -> Seq(Message)]
  /\ fate \in [Conversation -> Fate]

(* A send that carries the opening message of a conversation.              *)
Carries(s, c) == send[s].conv = c /\ send[s].kind \in {"opening", "fallback"}

AtMostOnce(c) == \A i, j \in Openings(c) : i = j

(* One send carries it at a time, and what became of it so far.            *)
OnItsWay(c) ==
  /\ \A s, t \in Slot : Carries(s, c) /\ Carries(t, c) => s = t
  /\ \A s \in Slot : Carries(s, c) =>
       /\ pending[c] = Nothing
       /\ send[s].kind = "opening" => fate[c] = "started"
       /\ send[s].kind = "fallback" => fate[c] \in {"handed over", "answer lost"}
       /\ fate[c] # "answer lost" => (Openings(c) = {} <=> send[s].stage # "admitted")
       /\ send[s].stage # "admitted" => AtMostOnce(c)

(* What it left behind.                                                    *)
Left(c) ==
  /\ pending[c] # Nothing => fate[c] \in {"handed over", "answer lost"}
  /\ pending[c] # Nothing /\ fate[c] = "handed over" => Openings(c) = {}
  /\ fate[c] = "unwritten" => Openings(c) = {}
  /\ fate[c] # "answer lost" \/ pending[c] # Nothing => AtMostOnce(c)
  /\ fate[c] = "handed over" =>
       \/ Openings(c) # {} \/ pending[c] # Nothing
       \/ \E s \in Slot : Carries(s, c) /\ send[s].kind = "fallback" /\ send[s].stage = "sending"

ChatInv == ChatTyped /\ \A c \in Conversation : OnItsWay(c) /\ Left(c)

LEMMA AtMostOneElement ==
  ASSUME NEW S, \A i, j \in S : i = j PROVE Cardinality(S) <= 1
<1>1. CASE S = {}
  <2>1. Cardinality(S) = 0
    BY <1>1, FS_EmptySet
  <2> QED BY <2>1
<1>2. ASSUME NEW i \in S PROVE Cardinality(S) <= 1
  <2>1. S = {i}
    OBVIOUS
  <2>2. Cardinality(S) = 1
    BY FS_Singleton
  <2> QED BY <2>2
<1> QED BY <1>1, <1>2

LEMMA ChatInitInv == ChatInit => ChatInv
<1> SUFFICES ASSUME ChatInit PROVE ChatInv
  OBVIOUS
<1>1. NoSend \in SendType
  BY DEF NoSend, SendType, SendState, SomeText
<1>2. ChatTyped
  BY <1>1 DEF ChatInit, ChatTyped, SomeText, Page, CleanPage, Fate
<1>3. \A c \in Conversation : Openings(c) = {}
  BY DEF ChatInit, Openings
<1> QED BY <1>2, <1>3 DEF ChatInit, ChatInv, NoSend, Carries, OnItsWay, Left, AtMostOnce

(* A send that does not change for its conversation.                       *)
SameSend(s) ==
  send'[s].kind = send[s].kind /\ send'[s].stage = send[s].stage /\ send'[s].conv = send[s].conv

(* A conversation that none of its sends, its page or its stream changed.  *)
LEMMA Elsewhere ==
  ASSUME ChatInv, NEW c \in Conversation,
         \A s \in Slot : Carries(s, c) \/ Carries(s, c)' => SameSend(s),
         pending'[c] = pending[c], fate'[c] = fate[c], Openings(c)' = Openings(c)
  PROVE  OnItsWay(c)' /\ Left(c)'
<1>1. \A s \in Slot : Carries(s, c)' <=> Carries(s, c)
  BY DEF Carries, SameSend
<1>2. OnItsWay(c) /\ Left(c)
  BY DEF ChatInv
<1>3. OnItsWay(c)'
  BY <1>1, <1>2 DEF OnItsWay, SameSend, AtMostOnce
<1>4. Left(c)'
  BY <1>1, <1>2 DEF Left, SameSend, AtMostOnce
<1> QED BY <1>3, <1>4

LEMMA SameStream ==
  ASSUME NEW c \in Conversation, stream'[c] = stream[c] PROVE Openings(c)' = Openings(c)
BY DEF Openings

(* Steps of the page alone.                                                *)
LEMMA PageStep ==
  ASSUME ChatInv, page' \in Page, screen' \in Conversation \cup {Home}, created' \subseteq Conversation,
         send' \in [Slot -> SendType], \A s \in Slot : SameSend(s) \/ ~(\E c \in Conversation : Carries(s, c) \/ Carries(s, c)'),
         UNCHANGED <<pending, stream, fate>>
  PROVE  ChatInv'
<1>1. ChatTyped'
  BY DEF ChatInv, ChatTyped
<1>2. \A c \in Conversation : OnItsWay(c)' /\ Left(c)'
  BY Elsewhere, SameStream
<1> QED BY <1>1, <1>2 DEF ChatInv

LEMMA ShowKeeps ==
  ASSUME ChatInv, NEW target \in Conversation \cup {Home}, Show(target)
  PROVE  page' \in Page /\ screen' \in Conversation \cup {Home}
<1>1. CleanPage \in Page
  BY DEF CleanPage, Page, SomeText
<1> QED BY <1>1 DEF Show, ChatInv, ChatTyped

LEMMA OrphanedKeeps ==
  ASSUME NEW sends \in [Slot -> SendType], NEW target, send' = Orphaned(sends, target)
  PROVE  /\ send' \in [Slot -> SendType]
         /\ \A s \in Slot : /\ send'[s].kind = sends[s].kind /\ send'[s].stage = sends[s].stage
                            /\ send'[s].conv = sends[s].conv
<1> SUFFICES ASSUME NEW s \in Slot
             PROVE  /\ send'[s] \in SendType
                    /\ send'[s].kind = sends[s].kind /\ send'[s].stage = sends[s].stage
                    /\ send'[s].conv = sends[s].conv
  BY DEF Orphaned
<1>1. send'[s] = sends[s] \/ send'[s] = [sends[s] EXCEPT !.mine = FALSE]
  BY DEF Orphaned
<1>2. sends[s] \in SendType /\ sends[s] \in SendState
  BY DEF SendType
<1>3. [sends[s] EXCEPT !.mine = FALSE] \in SendState
  BY <1>2 DEF SendState
<1> QED BY <1>1, <1>3 DEF SendType, SendState

LEMMA WriteStep == ASSUME ChatInv, NEW t \in Text, Write(t) PROVE ChatInv'
<1>1. page' \in Page
  BY DEF Write, ChatInv, ChatTyped, Page, SomeText
<1> QED BY <1>1, PageStep DEF Write, ChatInv, ChatTyped, SameSend

LEMMA PickFileStep == ASSUME ChatInv, NEW f \in Picked, PickFile(f) PROVE ChatInv'
<1>1. page' \in Page
  BY DEF PickFile, ChatInv, ChatTyped, Page, SomeText
<1> QED BY <1>1, PageStep DEF PickFile, ChatInv, ChatTyped, SameSend

LEMMA UnpickFileStep == ASSUME ChatInv, NEW f \in Picked, UnpickFile(f) PROVE ChatInv'
<1>1. page' \in Page
  BY DEF UnpickFile, ChatInv, ChatTyped, Page, SomeText
<1> QED BY <1>1, PageStep DEF UnpickFile, ChatInv, ChatTyped, SameSend

LEMMA HistoryReadyStep == ASSUME ChatInv, HistoryReady PROVE ChatInv'
<1>1. page' \in Page
  BY DEF HistoryReady, ChatInv, ChatTyped, Page, SomeText
<1> QED BY <1>1, PageStep DEF HistoryReady, ChatInv, ChatTyped, SameSend

LEMMA AbortStep == ASSUME ChatInv, Abort PROVE ChatInv'
<1>1. page' \in Page
  BY DEF Abort, ChatInv, ChatTyped, Page, SomeText
<1> QED BY <1>1, PageStep DEF Abort, ChatInv, ChatTyped, SameSend

LEMMA AbortRefusedStep == ASSUME ChatInv, AbortRefused PROVE ChatInv'
<1>1. page' \in Page
  BY DEF AbortRefused, ChatInv, ChatTyped, Page, SomeText
<1> QED BY <1>1, PageStep DEF AbortRefused, ChatInv, ChatTyped, SameSend

LEMMA ReconnectStep == ASSUME ChatInv, Reconnect PROVE ChatInv'
<1>1. page' \in Page
  BY DEF Reconnect, ChatInv, ChatTyped, Page, SomeText
<1> QED BY <1>1, PageStep DEF Reconnect, ChatInv, ChatTyped, SameSend

LEMMA SettleStep == ASSUME ChatInv, NEW c \in Conversation, Settle(c) PROVE ChatInv'
<1>1. page' \in Page
  BY DEF Settle, ChatInv, ChatTyped
<1> QED BY PageStep DEF Settle, ChatInv, ChatTyped, SameSend

LEMMA OpenStep == ASSUME ChatInv, NEW target \in Conversation \cup {Home}, Open(target) PROVE ChatInv'
<1>1. page' \in Page /\ screen' \in Conversation \cup {Home}
  BY ShowKeeps DEF Open
<1>2. send' \in [Slot -> SendType] /\ \A s \in Slot : SameSend(s)
  BY OrphanedKeeps DEF Open, ChatInv, ChatTyped, SameSend
<1> QED BY <1>1, <1>2, PageStep DEF Open, ChatInv, ChatTyped

LEMMA ReloadStep == ASSUME ChatInv, Reload PROVE ChatInv'
<1>1. NoSend \in SendType /\ CleanPage \in Page
  BY DEF NoSend, SendType, SendState, SomeText, CleanPage, Page
<1>2. ChatTyped'
  BY <1>1 DEF ChatInv, ChatTyped, Reload, Fate
<1>3. ASSUME NEW c \in Conversation PROVE OnItsWay(c)' /\ Left(c)'
  <2>1. OnItsWay(c) /\ Left(c)
    BY DEF ChatInv
  <2>2. \A s \in Slot : ~Carries(s, c)'
    BY DEF Reload, NoSend, Carries
  <2>3. Openings(c)' = Openings(c) /\ pending' = pending
    BY SameStream DEF Reload
  <2>4. CASE fate'[c] = fate[c] /\ \A s \in Slot : Carries(s, c) => fate[c] = "answer lost"
    BY <2>1, <2>2, <2>3, <2>4 DEF OnItsWay, Left, AtMostOnce
  <2>5. CASE fate'[c] = "interrupted" /\ fate[c] # "answer lost" /\ \E s \in Slot : Carries(s, c)
    BY <2>1, <2>2, <2>3, <2>5 DEF OnItsWay, Left, AtMostOnce
  <2> QED BY <2>4, <2>5 DEF ChatInv, ChatTyped, Reload, Carries
<1> QED BY <1>2, <1>3 DEF ChatInv

(* Steps of one send: the others keep what they carry.                     *)
LEMMA OneSend ==
  ASSUME ChatInv, ChatTyped', NEW s \in Slot, NEW c \in Conversation,
         \A q \in Slot : q # s => SameSend(q),
         send[s].kind # "none" => send[s].conv = c,
         send'[s].kind # "none" => send'[s].conv = c,
         \A d \in Conversation : d # c =>
           pending'[d] = pending[d] /\ fate'[d] = fate[d] /\ stream'[d] = stream[d],
         OnItsWay(c)' /\ Left(c)'
  PROVE  ChatInv'
<1>1. ASSUME NEW d \in Conversation, d # c PROVE OnItsWay(d)' /\ Left(d)'
  <2>1. \A q \in Slot : Carries(q, d) \/ Carries(q, d)' => SameSend(q)
    BY <1>1 DEF Carries
  <2> QED BY <2>1, Elsewhere, SameStream
<1> QED BY <1>1 DEF ChatInv

(* The parts of a message or a draft.                                      *)
LEMMA PageParts ==
  ASSUME ChatInv
  PROVE  /\ page.files \in SUBSET Picked /\ page.draft \in SomeText /\ page.failed \in SUBSET Body
         /\ \A s \in Slot : send[s] \in SendType /\ send[s] \in SendState
BY DEF ChatInv, ChatTyped, Page, SendType

LEMMA NewSend ==
  ASSUME NEW kind \in {"opening", "fallback", "follow"},
         NEW stage \in {"creating", "uploading", "sending"},
         stage = "creating" => kind = "opening", kind = "fallback" => stage = "sending",
         NEW c \in Conversation, NEW body \in Body
  PROVE  [kind |-> kind, stage |-> stage, conv |-> c, mine |-> TRUE, body |-> body] \in SendType
BY DEF SendType, SendState, Body, SomeText

LEMMA NextStage ==
  ASSUME NEW m \in SendType, NEW stage \in {"uploading", "sending", "admitted"}, m.kind # "none",
         m.kind = "fallback" => stage \in {"sending", "admitted"}
  PROVE  /\ [m EXCEPT !.stage = stage] \in SendType
         /\ [m EXCEPT !.stage = stage].stage = stage
         /\ [m EXCEPT !.stage = stage].kind = m.kind /\ [m EXCEPT !.stage = stage].conv = m.conv
<1>1. m \in SendState
  BY DEF SendType
<1>2. [m EXCEPT !.stage = stage] \in SendState
  BY <1>1 DEF SendState
<1> QED BY DEF SendType, SendState

LEMMA NoSendIsSend == NoSend \in SendType /\ NoSend.kind = "none" /\ NoSend.stage = "none"
BY DEF NoSend, SendType, SendState, SomeText

(* The text of startChat is what was written.                              *)
LEMMA StartChatStep ==
  ASSUME ChatInv, NEW s \in Slot, NEW c \in Conversation, NEW t \in Text, StartChat(s, c, t)
  PROVE  ChatInv'
<1> DEFINE new == [kind |-> "opening", stage |-> "creating", conv |-> c, mine |-> TRUE,
                   body |-> [text |-> t, files |-> page.files]]
<1>1. new \in SendType /\ new.kind = "opening" /\ new.stage = "creating" /\ new.conv = c
  BY PageParts, NewSend DEF Body
<1>2. send' = [send EXCEPT ![s] = new] /\ send[s] = NoSend /\ fate[c] = "unwritten"
  BY DEF StartChat
<1> HIDE DEF new
<1>3. page' \in Page
  BY DEF StartChat, ChatInv, ChatTyped, Page
<1>4. ChatTyped'
  BY <1>1, <1>2, <1>3 DEF StartChat, ChatInv, ChatTyped, Fate
<1>5. send'[s] = new /\ \A q \in Slot : q # s => send'[q] = send[q]
  BY <1>2 DEF ChatInv, ChatTyped
<1>6. fate'[c] = "started" /\ pending' = pending /\ Openings(c)' = Openings(c)
  BY SameStream DEF StartChat, ChatInv, ChatTyped
<1>7. /\ Openings(c) = {} /\ pending[c] = Nothing
      /\ \A q \in Slot : ~Carries(q, c)
  BY <1>2 DEF ChatInv, OnItsWay, Left, AtMostOnce, Carries
<1>8. \A q \in Slot : Carries(q, c)' => q = s
  BY <1>5, <1>7 DEF Carries
<1>9. OnItsWay(c)' /\ Left(c)'
  BY <1>1, <1>5, <1>6, <1>7, <1>8 DEF OnItsWay, Left, AtMostOnce
<1>10. \A d \in Conversation : d # c =>
         pending'[d] = pending[d] /\ fate'[d] = fate[d] /\ stream'[d] = stream[d]
  BY DEF StartChat
<1> QED BY <1>1, <1>2, <1>4, <1>9, <1>10, NoSendIsSend, OneSend DEF SameSend

(* A send that is dropped, whatever became of the message it carried.      *)
LEMMA DropKeeps ==
  ASSUME ChatInv, NEW s \in Slot, Drop(s)
  PROVE  /\ send' \in [Slot -> SendType] /\ send'[s] = NoSend
         /\ \A q \in Slot : q # s => send'[q] = send[q]
BY NoSendIsSend DEF Drop, ChatInv, ChatTyped

(* An opening that is refused before the agent has it, or was not carried. *)
LEMMA StartFailsStep ==
  ASSUME ChatInv, NEW s \in Slot, StartFails(s), send[s].kind = "opening",
         created' \subseteq Conversation, UNCHANGED <<screen, pending, stream>>,
         send[s].stage # "admitted"
  PROVE  ChatInv'
<1>1. PICK c \in Conversation : send[s].conv = c
  BY PageParts DEF SendType
<1>2. /\ send' \in [Slot -> SendType] /\ send'[s] = NoSend
      /\ \A q \in Slot : q # s => send'[q] = send[q]
  BY DropKeeps DEF StartFails
<1>3. page' \in Page
  BY DEF StartFails, ChatInv, ChatTyped, Page
<1>4. fate' = [fate EXCEPT ![c] = "refused"]
  BY <1>1 DEF StartFails
<1>5. ChatTyped'
  BY <1>2, <1>3, <1>4 DEF ChatInv, ChatTyped, Fate
<1>6. fate'[c] = "refused" /\ pending' = pending /\ Openings(c)' = Openings(c)
  BY <1>4, SameStream DEF ChatInv, ChatTyped
<1>7. Carries(s, c) /\ OnItsWay(c) /\ Left(c)
  BY <1>1 DEF Carries, ChatInv
<1>8. \A q \in Slot : ~Carries(q, c)'
  BY <1>2, <1>7, NoSendIsSend DEF OnItsWay, AtMostOnce, Carries
<1>9. OnItsWay(c)' /\ Left(c)'
  BY <1>6, <1>7, <1>8 DEF OnItsWay, Left, AtMostOnce
<1>10. \A d \in Conversation : d # c =>
         pending'[d] = pending[d] /\ fate'[d] = fate[d] /\ stream'[d] = stream[d]
  BY <1>4
<1> QED BY <1>1, <1>2, <1>5, <1>9, <1>10, NoSendIsSend, OneSend DEF SameSend

(* A send goes to its next stage, short of being admitted.                 *)
LEMMA StageStep ==
  ASSUME ChatInv, NEW s \in Slot, NEW stage \in {"uploading", "sending"},
         send' = [send EXCEPT ![s].stage = stage], send[s].stage \in {"creating", "uploading"},
         created' \subseteq Conversation, UNCHANGED <<screen, page, pending, stream, fate>>
  PROVE  ChatInv'
<1> DEFINE new == [send[s] EXCEPT !.stage = stage]
<1>1. send[s] \in SendType /\ send[s].kind \notin {"none", "fallback"} /\ send[s].conv \in Conversation
  BY PageParts DEF SendType
<1>2. /\ new \in SendType /\ new.stage = stage /\ new.kind = send[s].kind /\ new.conv = send[s].conv
  <2>1. stage \in {"uploading", "sending", "admitted"} /\ send[s].kind # "none"
        /\ (send[s].kind = "fallback" => stage \in {"sending", "admitted"})
    BY <1>1
  <2> QED BY <1>1, <2>1, NextStage
<1>3. send' = [send EXCEPT ![s] = new]
  BY DEF ChatTyped
<1> HIDE DEF new
<1>4. ChatTyped'
  BY <1>2, <1>3 DEF ChatInv, ChatTyped
<1>5. send'[s] = new /\ \A q \in Slot : q # s => send'[q] = send[q]
  BY <1>3 DEF ChatInv, ChatTyped
<1>6. ASSUME NEW c \in Conversation PROVE OnItsWay(c)' /\ Left(c)'
  <2>1. \A q \in Slot : Carries(q, c)' <=> Carries(q, c)
    BY DEF Carries
  <2>2. Openings(c)' = Openings(c)
    BY SameStream
  <2>3. OnItsWay(c) /\ Left(c)
    BY DEF ChatInv
  <2>4. \A q \in Slot : send'[q].kind = send[q].kind
                       /\ (send'[q].stage # "admitted" <=> send[q].stage # "admitted")
    BY <1>5
  <2>5. OnItsWay(c)'
    BY <2>1, <2>2, <2>3, <2>4 DEF OnItsWay, AtMostOnce
  <2>6. \A q \in Slot : send[q].kind = "fallback" => send'[q] = send[q]
    BY <1>1
  <2>7. Left(c)'
    BY <2>1, <2>2, <2>3, <2>4, <2>6 DEF Left, AtMostOnce
  <2> QED BY <2>5, <2>7
<1> QED BY <1>4, <1>6 DEF ChatInv

LEMMA CreateStep == ASSUME ChatInv, NEW s \in Slot, Create(s) PROVE ChatInv'
<1>1. send[s].kind = "opening" /\ send[s].conv \in Conversation /\ send[s].stage = "creating"
  BY PageParts DEF Create, SendType
<1>2. created' \subseteq Conversation
  BY <1>1 DEF Create, ChatInv, ChatTyped
<1>3. CASE send' = [send EXCEPT ![s].stage = "uploading"] /\ UNCHANGED <<page, fate>>
  BY <1>1, <1>2, <1>3, StageStep DEF Create
<1>4. CASE StartFails(s)
  BY <1>1, <1>2, <1>4, StartFailsStep DEF Create
<1> QED BY <1>3, <1>4 DEF Create

(* A message of the page comes and goes.                                   *)
LEMMA FollowStep ==
  ASSUME ChatInv, NEW s \in Slot, page' \in Page, send' \in [Slot -> SendType],
         \A q \in Slot : q # s => send'[q] = send[q],
         send[s].kind \in {"none", "follow"}, send'[s].kind \in {"none", "follow"},
         UNCHANGED <<screen, created, pending, stream, fate>>
  PROVE  ChatInv'
<1>1. \A q \in Slot : SameSend(q) \/ ~(\E c \in Conversation : Carries(q, c) \/ Carries(q, c)')
  BY DEF SameSend, Carries
<1> QED BY <1>1, PageStep DEF ChatInv, ChatTyped

LEMMA UploadStep == ASSUME ChatInv, NEW s \in Slot, Upload(s) PROVE ChatInv'
<1>1. send[s].stage = "uploading" /\ UNCHANGED <<screen, created, pending, stream>> /\ created \subseteq Conversation
  BY DEF Upload, ChatInv, ChatTyped
<1>2. CASE send' = [send EXCEPT ![s].stage = "sending"] /\ UNCHANGED <<page, fate>>
  BY <1>1, <1>2, StageStep
<1>3. CASE send[s].kind = "opening" /\ StartFails(s)
  BY <1>1, <1>3, StartFailsStep
<1>4. CASE send[s].kind = "follow" /\ Drop(s) /\ UNCHANGED <<page, fate>>
  BY <1>1, <1>4, DropKeeps, NoSendIsSend, FollowStep DEF ChatInv, ChatTyped
<1> QED BY <1>2, <1>3, <1>4 DEF Upload

(* What the stream holds of a conversation after one more message.         *)
LEMMA AppendedOpenings ==
  ASSUME ChatTyped, NEW c \in Conversation, NEW m \in Message, stream'[c] = Append(stream[c], m)
  PROVE  Openings(c)' = Openings(c) \cup (IF m.kind \in {"opening", "fallback"}
                                           THEN {Len(stream[c]) + 1} ELSE {})
<1>1. stream[c] \in Seq(Message)
  BY DEF ChatTyped
<1>2. /\ DOMAIN stream'[c] = DOMAIN stream[c] \cup {Len(stream[c]) + 1}
      /\ stream'[c][Len(stream[c]) + 1] = m
      /\ \A i \in DOMAIN stream[c] : stream'[c][i] = stream[c][i]
      /\ Len(stream[c]) + 1 \notin DOMAIN stream[c]
  BY <1>1
<1> HIDE <1>1
<1> QED BY DEF Openings

LEMMA AdmitStep == ASSUME ChatInv, NEW s \in Slot, Admit(s) PROVE ChatInv'
<1>0. PICK c \in Conversation : send[s].conv = c
  BY PageParts DEF Admit, SendType
<1> DEFINE m == [kind |-> send[s].kind, body |-> send[s].body]
           new == [send[s] EXCEPT !.stage = "admitted"]
<1>1. /\ send[s] \in SendType /\ send[s].stage = "sending" /\ send[s].kind # "none"
      /\ m \in Message
  BY PageParts DEF Admit, SendType, SendState, Message
<1>2. new \in SendType /\ new.stage = "admitted" /\ new.kind = send[s].kind /\ new.conv = c
  BY <1>0, <1>1, NextStage
<1>3. /\ send' = [send EXCEPT ![s] = new]
      /\ stream' = [stream EXCEPT ![c] = Append(@, m)]
      /\ UNCHANGED <<screen, page, created, pending, fate>>
  BY <1>0 DEF Admit
<1>4. m.kind = send[s].kind
  OBVIOUS
<1> HIDE DEF new, m
<1>5. Append(stream[c], m) \in Seq(Message)
  BY <1>1 DEF ChatInv, ChatTyped
<1>6. ChatTyped'
  BY <1>2, <1>3, <1>5 DEF ChatInv, ChatTyped
<1>7. send'[s] = new /\ \A q \in Slot : q # s => send'[q] = send[q]
  BY <1>3 DEF ChatInv, ChatTyped
<1>8. Openings(c)' = Openings(c) \cup (IF send[s].kind \in {"opening", "fallback"}
                                         THEN {Len(stream[c]) + 1} ELSE {})
  BY <1>1, <1>3, <1>4, AppendedOpenings DEF ChatInv, ChatTyped
<1>9. OnItsWay(c) /\ Left(c) /\ send[s].conv = c
  BY <1>0 DEF ChatInv
<1>10. \A q \in Slot : Carries(q, c)' <=> Carries(q, c)
  BY <1>2, <1>7, <1>9 DEF Carries
<1>11. ASSUME send[s].kind = "follow" PROVE OnItsWay(c)' /\ Left(c)'
  <2>1. \A q \in Slot : Carries(q, c) \/ Carries(q, c)' => SameSend(q)
    BY <1>2, <1>7, <1>11 DEF Carries, SameSend
  <2>2. Openings(c)' = Openings(c)
    BY <1>8, <1>11
  <2> QED BY <1>3, <2>1, <2>2, Elsewhere
<1>12. ASSUME send[s].kind \in {"opening", "fallback"} PROVE OnItsWay(c)' /\ Left(c)'
  <2>1. Carries(s, c) /\ (\A q \in Slot : Carries(q, c)' => q = s) /\ pending[c] = Nothing
    BY <1>9, <1>10, <1>12 DEF Carries, OnItsWay, AtMostOnce
  <2>2. fate[c] # "answer lost" => Openings(c) = {}
    BY <1>1, <1>9, <2>1 DEF OnItsWay, AtMostOnce
  <2>3. Len(stream[c]) + 1 \in Openings(c)' /\ (fate[c] # "answer lost" => Openings(c)' = {Len(stream[c]) + 1})
    BY <1>8, <1>12, <2>2
  <2>4. OnItsWay(c)'
    BY <1>2, <1>3, <1>7, <1>9, <2>1, <2>3 DEF OnItsWay, AtMostOnce
  <2>5. Left(c)'
    BY <1>3, <1>9, <1>12, <2>1, <2>3 DEF Left, OnItsWay, AtMostOnce
  <2> QED BY <2>4, <2>5
<1>13. OnItsWay(c)' /\ Left(c)'
  BY <1>1, <1>11, <1>12 DEF SendType, SendState
<1>14. \A d \in Conversation : d # c =>
         pending'[d] = pending[d] /\ fate'[d] = fate[d] /\ stream'[d] = stream[d]
  BY <1>3
<1>15. c \in Conversation /\ send'[s].conv = c /\ \A q \in Slot : q # s => SameSend(q)
  BY <1>2, <1>7 DEF SameSend
<1> QED BY <1>6, <1>9, <1>13, <1>14, <1>15, OneSend

LEMMA OpeningSentStep == ASSUME ChatInv, NEW s \in Slot, OpeningSent(s) PROVE ChatInv'
<1>0. PICK c \in Conversation : send[s].conv = c
  BY PageParts DEF OpeningSent, SendType
<1> DEFINE dropped == [send EXCEPT ![s] = NoSend]
<1>1. /\ send[s] \in SendType /\ send[s].kind = "opening" /\ send[s].stage \in {"sending", "admitted"}
      /\ send[s].body \in Body
  BY PageParts DEF OpeningSent, SendType
<1>2. page' \in Page /\ screen' \in Conversation \cup {Home}
  BY <1>0, ShowKeeps DEF OpeningSent
<1>3. dropped \in [Slot -> SendType]
  BY NoSendIsSend DEF ChatInv, ChatTyped
<1>4. send' = Orphaned(dropped, c)
  BY <1>0 DEF OpeningSent
<1>5. send' \in [Slot -> SendType] /\ send'[s].kind = "none" /\ \A q \in Slot : q # s => SameSend(q)
  <2> HIDE DEF dropped
  <2>1. /\ send' \in [Slot -> SendType]
        /\ \A q \in Slot : /\ send'[q].kind = dropped[q].kind /\ send'[q].stage = dropped[q].stage
                            /\ send'[q].conv = dropped[q].conv
    BY <1>3, <1>4, OrphanedKeeps
  <2>2. dropped[s] = NoSend /\ \A q \in Slot : q # s => dropped[q] = send[q]
    BY DEF dropped, ChatInv, ChatTyped
  <2> QED BY <2>1, <2>2, NoSendIsSend DEF SameSend
<1>6. /\ created' = created /\ stream' = stream
      /\ \/ /\ send[s].stage = "admitted" /\ pending' = pending
            /\ fate' = [fate EXCEPT ![c] = "handed over"]
         \/ /\ pending' = [pending EXCEPT ![c] = send[s].body]
            /\ fate' = [fate EXCEPT ![c] =
                 IF send[s].stage = "admitted" THEN "answer lost" ELSE "handed over"]
  BY <1>0 DEF OpeningSent, KeepsForLater
<1>7. ChatTyped'
  BY <1>1, <1>2, <1>5, <1>6 DEF ChatInv, ChatTyped, Fate
<1>8. Carries(s, c) /\ OnItsWay(c) /\ Left(c)
  BY <1>1, <1>0 DEF ChatInv, Carries
<1>9. \A q \in Slot : ~Carries(q, c)'
  BY <1>5, <1>8 DEF OnItsWay, AtMostOnce, Carries, SameSend
<1>10. /\ Openings(c)' = Openings(c) /\ fate[c] = "started" /\ pending[c] = Nothing
       /\ (Openings(c) = {} <=> send[s].stage # "admitted")
  BY <1>1, <1>6, <1>8, SameStream DEF OnItsWay, AtMostOnce
<1>11. \/ send[s].stage = "admitted" /\ fate'[c] = "handed over" /\ pending'[c] = Nothing
       \/ send[s].stage = "admitted" /\ fate'[c] = "answer lost"
       \/ send[s].stage # "admitted" /\ fate'[c] = "handed over" /\ pending'[c] # Nothing
  BY <1>1, <1>6, <1>10, ChatAssumption DEF ChatInv, ChatTyped
<1>12. OnItsWay(c)' /\ Left(c)'
  BY <1>8, <1>9, <1>10, <1>11 DEF OnItsWay, Left, AtMostOnce
<1>13. \A d \in Conversation : d # c =>
         pending'[d] = pending[d] /\ fate'[d] = fate[d] /\ stream'[d] = stream[d]
  BY <1>6 DEF ChatInv, ChatTyped
<1> QED BY <1>5, <1>7, <1>0, <1>12, <1>13, OneSend

LEMMA SendPendingStep == ASSUME ChatInv, NEW s \in Slot, SendPending(s) PROVE ChatInv'
<1>0. PICK c \in Conversation : screen = c
  BY DEF SendPending, ChatInv, ChatTyped
<1> DEFINE new == [kind |-> "fallback", stage |-> "sending", conv |-> screen, mine |-> TRUE,
                   body |-> pending[screen]]
<1>1. /\ pending[c] \in Body /\ pending[c] # Nothing /\ send[s] = NoSend
      /\ send' = [send EXCEPT ![s] = new] /\ pending' = [pending EXCEPT ![c] = Nothing]
      /\ UNCHANGED <<screen, created, stream, fate>>
  BY <1>0 DEF SendPending, RemovedFirst, ChatInv, ChatTyped
<1>2. new \in SendType /\ new.kind = "fallback" /\ new.stage = "sending" /\ new.conv = c
  BY <1>0, <1>1, NewSend
<1>3. page' \in Page
  BY DEF SendPending, ChatInv, ChatTyped, Page
<1> HIDE DEF new
<1>4. ChatTyped'
  BY <1>1, <1>2, <1>3 DEF ChatInv, ChatTyped
<1>5. send'[s] = new /\ \A q \in Slot : q # s => send'[q] = send[q]
  BY <1>1 DEF ChatInv, ChatTyped
<1>6. OnItsWay(c) /\ Left(c) /\ Openings(c)' = Openings(c) /\ fate' = fate /\ pending'[c] = Nothing
  BY <1>1, SameStream DEF ChatInv, ChatTyped
<1>7. \A q \in Slot : ~Carries(q, c)
  BY <1>1, <1>6 DEF OnItsWay, AtMostOnce
<1>8. Carries(s, c)' /\ \A q \in Slot : Carries(q, c)' => q = s
  BY <1>2, <1>5, <1>7 DEF Carries
<1>9. OnItsWay(c)'
  BY <1>1, <1>2, <1>5, <1>6, <1>8 DEF OnItsWay, Left, AtMostOnce
<1>10. Left(c)'
  BY <1>1, <1>2, <1>5, <1>6, <1>8 DEF Left, AtMostOnce
<1>11. \A d \in Conversation : d # c =>
         pending'[d] = pending[d] /\ fate'[d] = fate[d] /\ stream'[d] = stream[d]
  BY <1>1
<1> QED BY <1>1, <1>2, <1>4, <1>9, <1>10, NoSendIsSend, OneSend DEF SameSend

LEMMA PendingSentStep == ASSUME ChatInv, NEW s \in Slot, PendingSent(s) PROVE ChatInv'
<1>0. PICK c \in Conversation : send[s].conv = c
  BY PageParts DEF PendingSent, SendType
<1>1. /\ send[s].kind = "fallback"
      /\ fate' = [fate EXCEPT ![c] = IF send[s].stage = "admitted" THEN @ ELSE "lost"]
      /\ UNCHANGED <<screen, page, created, pending, stream>> /\ send[s].conv = c
  BY <1>0 DEF PendingSent
<1>2. /\ send' \in [Slot -> SendType] /\ send'[s] = NoSend
      /\ \A q \in Slot : q # s => send'[q] = send[q]
  BY DropKeeps DEF PendingSent
<1>3. ChatTyped'
  BY <1>1, <1>2 DEF ChatInv, ChatTyped, Fate
<1>4. Carries(s, c) /\ OnItsWay(c) /\ Left(c)
  BY <1>1 DEF ChatInv, Carries
<1>5. \A q \in Slot : ~Carries(q, c)'
  BY <1>2, <1>4, NoSendIsSend DEF OnItsWay, AtMostOnce, Carries
<1>6. /\ Openings(c)' = Openings(c) /\ pending' = pending /\ pending[c] = Nothing
      /\ \/ send[s].stage # "admitted" /\ fate'[c] = "lost"
         \/ send[s].stage = "admitted" /\ fate'[c] = fate[c]
      /\ fate[c] \in {"handed over", "answer lost"}
  BY <1>1, <1>4, SameStream DEF OnItsWay, AtMostOnce, ChatInv, ChatTyped
<1>7. OnItsWay(c)' /\ Left(c)'
  <2>1. OnItsWay(c)'
    BY <1>5 DEF OnItsWay, AtMostOnce
  <2>2. fate[c] = "handed over" /\ send[s].stage = "admitted" => Openings(c) # {}
    BY <1>4 DEF OnItsWay, AtMostOnce
  <2>3. CASE fate'[c] = "lost" /\ send[s].stage # "admitted"
    BY <1>4, <1>5, <1>6, <2>1, <2>3 DEF OnItsWay, Left, AtMostOnce
  <2>4. CASE fate'[c] = fate[c] /\ send[s].stage = "admitted"
    BY <1>4, <1>6, <2>1, <2>2, <2>4 DEF Left, AtMostOnce
  <2> QED BY <1>6, <2>3, <2>4
<1>8. \A d \in Conversation : d # c =>
         pending'[d] = pending[d] /\ fate'[d] = fate[d] /\ stream'[d] = stream[d]
  BY <1>1
<1> QED BY <1>1, <1>2, <1>3, <1>7, NoSendIsSend, OneSend DEF SameSend

LEMMA SendMessageStep == ASSUME ChatInv, NEW s \in Slot, SendMessage(s) PROVE ChatInv'
<1> DEFINE new == [kind |-> "follow", stage |-> "uploading", conv |-> screen, mine |-> TRUE,
                   body |-> [text |-> page.draft, files |-> page.files]]
<1>1. screen \in Conversation /\ [text |-> page.draft, files |-> page.files] \in Body
  BY PageParts DEF SendMessage, ChatInv, ChatTyped, Body, SomeText
<1>2. new \in SendType /\ new.kind = "follow"
  BY <1>1, NewSend
<1>3. /\ send' = [send EXCEPT ![s] = new] /\ send[s] = NoSend
      /\ UNCHANGED <<screen, created, pending, stream, fate>>
  BY DEF SendMessage
<1> HIDE DEF new
<1>4. page' \in Page
  BY DEF SendMessage, ChatInv, ChatTyped, Page
<1>5. send' \in [Slot -> SendType] /\ send'[s] = new /\ \A q \in Slot : q # s => send'[q] = send[q]
  BY <1>2, <1>3 DEF ChatInv, ChatTyped
<1> QED BY <1>2, <1>3, <1>4, <1>5, NoSendIsSend, FollowStep

LEMMA MessageSentStep == ASSUME ChatInv, NEW s \in Slot, MessageSent(s) PROVE ChatInv'
<1>1. send[s].kind = "follow" /\ Drop(s) /\ UNCHANGED <<screen, created, pending, stream, fate>>
  BY DEF MessageSent
<1>2. send[s].body \in Body
  BY <1>1, PageParts DEF SendType
<1>3. page' \in Page
  <2>1. page' \in {page, [page EXCEPT !.draft = Nothing, !.files = {}],
                   [page EXCEPT !.failed = {send[s].body}]}
    BY DEF MessageSent
  <2>2. page \in Page
    BY DEF ChatInv, ChatTyped
  <2> QED BY <1>2, <2>1, <2>2 DEF Page, SomeText
<1> QED BY <1>1, <1>3, DropKeeps, NoSendIsSend, FollowStep

LEMMA RetryFailedStep == ASSUME ChatInv, NEW s \in Slot, RetryFailed(s) PROVE ChatInv'
<1>1. PICK body \in page.failed :
        /\ page' = [page EXCEPT !.failed = @ \ {body}]
        /\ send' = [send EXCEPT ![s] = [kind |-> "follow", stage |-> "sending", conv |-> screen,
                                       mine |-> TRUE, body |-> body]]
  BY DEF RetryFailed
<1> DEFINE new == [kind |-> "follow", stage |-> "sending", conv |-> screen, mine |-> TRUE, body |-> body]
<1>2. screen \in Conversation /\ body \in Body
  BY PageParts DEF RetryFailed, ChatInv, ChatTyped
<1>3. new \in SendType /\ new.kind = "follow"
  BY <1>2, NewSend
<1>4. /\ send' = [send EXCEPT ![s] = new] /\ send[s] = NoSend
      /\ UNCHANGED <<screen, created, pending, stream, fate>>
  BY <1>1 DEF RetryFailed
<1> HIDE DEF new
<1>5. page' \in Page
  BY <1>1 DEF ChatInv, ChatTyped, Page
<1>6. send' \in [Slot -> SendType] /\ send'[s] = new /\ \A q \in Slot : q # s => send'[q] = send[q]
  BY <1>3, <1>4 DEF ChatInv, ChatTyped
<1> QED BY <1>3, <1>4, <1>5, <1>6, NoSendIsSend, FollowStep

LEMMA ChatNextInv == ChatInv /\ [ChatNext]_chatVars => ChatInv'
<1> SUFFICES ASSUME ChatInv, [ChatNext]_chatVars PROVE ChatInv'
  OBVIOUS
<1>1. CASE UNCHANGED chatVars
  BY <1>1, PageStep DEF chatVars, SameSend, ChatInv, ChatTyped
<1>2. ASSUME NEW s \in Slot, NEW c \in Conversation, NEW t \in Text \cup {page.draft}, t # Nothing,
             StartChat(s, c, t)
      PROVE  ChatInv'
  <2>1. t \in Text
    BY <1>2, PageParts DEF SomeText
  <2> QED BY <1>2, <2>1, StartChatStep
<1> QED BY <1>1, <1>2, WriteStep, PickFileStep, UnpickFileStep, OpenStep, ReloadStep,
           HistoryReadyStep, AbortStep, AbortRefusedStep, ReconnectStep, SettleStep, CreateStep,
           UploadStep, AdmitStep, OpeningSentStep, SendPendingStep, PendingSentStep,
           SendMessageStep, MessageSentStep, RetryFailedStep DEF ChatNext

LEMMA ChatInductive == ChatSpec => []ChatInv
BY ChatInitInv, ChatNextInv, PTL DEF ChatSpec

(* What startChat handed over is in the transcript, in sessionStorage or   *)
(* on its way a second time (chat/index.tsx startChat, $sessionId.tsx),    *)
(* for any number of conversations and of sends under way, in whatever     *)
(* order they end, and whatever is typed, left and reloaded meanwhile.     *)
THEOREM OpeningIsCovered == ChatSpec => []OpeningCovered
<1>1. ChatInv => OpeningCovered
  BY DEF ChatInv, Left, AtMostOnce, Carries, OpeningCovered
<1> QED BY <1>1, ChatInductive, PTL

(* The agent admits the opening message once, unless the answer to its     *)
(* first send was lost: its key leaves sessionStorage before the message   *)
(* is sent again, so that no second page finds it ($sessionId.tsx).        *)
THEOREM OpeningIsSentOnce == ChatSpec => []OpeningSentOnce
<1>1. ChatInv => OpeningSentOnce
  BY AtMostOneElement DEF ChatInv, Left, AtMostOnce, OpeningSentOnce
<1> QED BY <1>1, ChatInductive, PTL

-----------------------------------------------------------------------------
(***************************************************************************)
(* The walk over the files: what it has not listed yet lies after its      *)
(* cursor, a page is the first part of that, and a cursor is the last of   *)
(* what was scanned.                                                       *)
(***************************************************************************)

(* Sets of numbers: the least element, the greatest of a finite set.       *)
LEMMA LeastNumber ==
  ASSUME NEW S, S \subseteq Nat, S # {} PROVE \E x \in S : \A y \in S : x <= y
<1>1. IsWellFoundedOn(OpToRel(<, Nat), Nat)
  BY NatLessThanWellFounded
<1>2. PICK x \in S : \A y \in S : ~(<<y, x>> \in OpToRel(<, Nat))
  BY <1>1, WFMin
<1>3. \A y \in S : ~(y < x)
  BY <1>2, Zenon DEF OpToRel
<1>4. \A y \in S : y \in Nat /\ x \in Nat
  OBVIOUS
<1> QED BY <1>3

LEMMA StrictlyFewer ==
  ASSUME NEW S, IsFiniteSet(S), NEW T, T \subseteq S, NEW x \in S, x \notin T
  PROVE  Cardinality(T) \in Nat /\ Cardinality(S) \in Nat /\ Cardinality(T) < Cardinality(S)
<1>1. /\ IsFiniteSet(T) /\ Cardinality(T) <= Cardinality(S)
      /\ (Cardinality(S) = Cardinality(T) => S = T)
  BY FS_Subset
<1>2. Cardinality(T) \in Nat /\ Cardinality(S) \in Nat
  BY <1>1, FS_CardinalityType
<1>3. S # T
  OBVIOUS
<1> QED BY <1>1, <1>2

(* The element with the fewest above it has none.                          *)
LEMMA GreatestNumber ==
  ASSUME NEW S, S \subseteq Nat, S # {}, IsFiniteSet(S)
  PROVE  Max(S) \in S /\ \A y \in S : Max(S) >= y
<1> DEFINE above(x) == {y \in S : y > x}
           counts == {Cardinality(above(x)) : x \in S}
<1>1. \A x \in S : IsFiniteSet(above(x)) /\ Cardinality(above(x)) \in Nat
  BY FS_Subset, FS_CardinalityType
<1>2. counts \subseteq Nat /\ counts # {}
  BY <1>1
<1>3. PICK x \in S : \A y \in S : Cardinality(above(x)) <= Cardinality(above(y))
  <2> HIDE DEF counts, above
  <2>1. PICK n \in counts : \A m \in counts : n <= m
    BY <1>2, LeastNumber
  <2> QED BY <2>1 DEF counts
<1>4. ASSUME NEW y \in S, y > x PROVE FALSE
  <2>1. above(y) \subseteq above(x) /\ y \in above(x) /\ y \notin above(y)
    <3>1. \A z \in S : z \in Nat
      OBVIOUS
    <3>2. x \in Nat /\ y \in Nat /\ y \in above(x) /\ y \notin above(y)
      BY <1>4
    <3>3. \A z \in above(y) : z \in above(x)
      BY <3>2
    <3> QED BY <3>2, <3>3
  <2> HIDE DEF above
  <2>2. Cardinality(above(y)) < Cardinality(above(x))
    BY <1>1, <2>1, StrictlyFewer
  <2> QED BY <1>1, <1>3, <2>2
<1>5. \A y \in S : x >= y
  BY <1>4
<1> QED BY <1>5 DEF Max

-----------------------------------------------------------------------------
Object ==
  [kind : Kind \cup {"upload", "output", "absent"}, content : Content \cup {"bytes", "none"},
   readable : BOOLEAN]

Walk == [stage : {"idle", "walking", "whole"}, kind : Kind \cup {Anything}, cursor : Nat,
         items : SUBSET Key, twice : SUBSET Key, stayed : SUBSET Key]

AllStored == {k \in Key : Stored(k)}

FilesTyped ==
  /\ bucket \in [Key -> Object]
  /\ walk \in Walk
  /\ tool \in [stage : {"idle", "step", "written"}, content : Content \cup {"none"}]
  /\ tool.stage # "idle" => tool.content \in Content
  /\ panel \in [items : SUBSET Key, more : BOOLEAN, deleting : Key \cup {0},
                stage : {"idle", "found", "deleted"}]
  /\ panel.stage = "found" => panel.deleting \in Key

(* An upload is of a key of its own, what the agent publishes of another:  *)
(* a write changes the kind of no file.                                    *)
KindOfKey ==
  \A k \in AllStored : bucket[k].kind = IF k \in UploadKey THEN "upload" ELSE "output"

(* What a walk saw at its start and is still there will be listed.         *)
StillThere == walk.stayed \subseteq Items(AllStored, walk.kind)

ListedSoFar ==
  walk.stage = "walking" =>
    /\ \A k \in walk.items : k <= walk.cursor
    /\ \A k \in walk.stayed : k <= walk.cursor => k \in walk.items
    /\ walk.twice = {}

FilesInv ==
  /\ FilesTyped /\ IsFiniteSet(AllStored) /\ KindOfKey /\ StillThere /\ ListedSoFar
  /\ FilesListedWhole

(* A scan is the first of what is left, and has at least one object.       *)
LEMMA PageIsFirst ==
  ASSUME IsFiniteSet(AllStored), NEW cursor \in Nat, NEW limit \in Limit
  PROVE  /\ Scanned(cursor, limit) \subseteq After(cursor) /\ After(cursor) \subseteq Key
         /\ IsFiniteSet(After(cursor)) /\ IsFiniteSet(Scanned(cursor, limit))
         /\ \A k \in Scanned(cursor, limit), j \in After(cursor) :
              j <= k => j \in Scanned(cursor, limit)
         /\ After(cursor) # {} => Scanned(cursor, limit) # {}
<1> DEFINE S == After(cursor)
           upTo(k) == {j \in S : j <= k}
<1>1. Key \subseteq Nat /\ limit \in Nat /\ limit >= 1
  BY FilesAssumption
<1>2. S \subseteq AllStored /\ S \subseteq Key /\ S \subseteq Nat
  BY <1>1 DEF After, AllStored
<1> HIDE DEF S
<1>3. IsFiniteSet(S)
  BY <1>2, FS_Subset
<1>4. \A k \in S : IsFiniteSet(upTo(k)) /\ Cardinality(upTo(k)) \in Nat
  BY <1>3, FS_Subset, FS_CardinalityType
<1>5. Scanned(cursor, limit) = {k \in S : Cardinality(upTo(k)) <= limit}
  BY DEF Scanned, S
<1>6. IsFiniteSet(Scanned(cursor, limit))
  BY <1>3, <1>5, FS_Subset
<1>7. ASSUME NEW k \in Scanned(cursor, limit), NEW j \in S, j <= k
      PROVE  j \in Scanned(cursor, limit)
  <2>1. k \in S /\ Cardinality(upTo(k)) <= limit
    BY <1>5
  <2>2. upTo(j) \subseteq upTo(k)
    <3>1. \A i \in S : i \in Nat
      BY <1>2
    <3> QED BY <1>7, <2>1, <3>1
  <2> HIDE DEF upTo
  <2>3. Cardinality(upTo(j)) <= Cardinality(upTo(k))
    BY <1>4, <2>1, <2>2, FS_Subset
  <2>4. Cardinality(upTo(j)) <= limit
    BY <1>1, <1>4, <2>1, <2>3
  <2> QED BY <1>5, <2>4
<1>8. ASSUME S # {} PROVE Scanned(cursor, limit) # {}
  <2>1. PICK x \in S : \A y \in S : x <= y
    BY <1>2, <1>8, LeastNumber
  <2>2. upTo(x) = {x}
    <3>1. \A i \in S : i \in Nat
      BY <1>2
    <3>2. \A i \in S : i <= x <=> i = x
      BY <2>1, <3>1
    <3> QED BY <3>2
  <2> HIDE DEF upTo
  <2>3. Cardinality(upTo(x)) = 1
    BY <2>2, FS_Singleton
  <2> QED BY <1>1, <1>5, <2>3
<1> QED BY <1>2, <1>3, <1>5, <1>6, <1>7, <1>8 DEF S

(* Where the next scan starts: after what was scanned, or nowhere once     *)
(* nothing is left.                                                        *)
LEMMA CursorIsLast ==
  ASSUME IsFiniteSet(AllStored), NEW cursor \in Nat, NEW limit \in Limit, NEW kind,
         NEW next, next = NextCursor(cursor, limit, kind)
  PROVE  /\ next \in Nat
         /\ next = 0 => Scanned(cursor, limit) = After(cursor)
         /\ next # 0 => /\ next > cursor
                        /\ \A k \in Scanned(cursor, limit) : k <= next
                        /\ \A k \in After(cursor) : k <= next => k \in Scanned(cursor, limit)
<1> DEFINE scan == Scanned(cursor, limit)
<1>1. /\ scan \subseteq After(cursor) /\ IsFiniteSet(scan)
      /\ \A k \in scan, j \in After(cursor) : j <= k => j \in scan
      /\ After(cursor) # {} => scan # {}
  BY PageIsFirst
<1>2. \A k \in After(cursor) : k \in Nat /\ k # 0 /\ k > cursor
  BY FilesAssumption DEF After
<1>3. next = IF scan # After(cursor) THEN Max(scan) ELSE 0
  BY DEF NextCursor
<1> HIDE DEF scan
<1>4. CASE scan = After(cursor)
  BY <1>3, <1>4 DEF scan
<1>5. CASE scan # After(cursor)
  <2>1. scan # {} /\ scan \subseteq Nat
    BY <1>1, <1>2, <1>5
  <2>2. next \in scan /\ \A y \in scan : next >= y
    <3>1. Max(scan) \in scan /\ \A y \in scan : Max(scan) >= y
      BY <1>1, <2>1, GreatestNumber
    <3> QED BY <1>3, <1>5, <3>1
  <2>3. next \in Nat /\ next # 0 /\ next > cursor
    BY <1>1, <1>2, <2>2
  <2>4. \A k \in scan : k <= next
    BY <2>2
  <2> QED BY <1>1, <2>2, <2>3 DEF scan
<1> QED BY <1>4, <1>5

-----------------------------------------------------------------------------
LEMMA FilesInitInv == FilesInit => FilesInv
<1> SUFFICES ASSUME FilesInit PROVE FilesInv
  OBVIOUS
<1>1. AllStored = {}
  BY DEF FilesInit, AllStored, Stored
<1>2. FilesTyped
  BY DEF FilesInit, FilesTyped, Object, Walk, Absent, NoWalk, NoTool
<1>3. StillThere /\ ListedSoFar /\ FilesListedWhole
  BY DEF FilesInit, NoWalk, StillThere, ListedSoFar, FilesListedWhole
<1> QED BY <1>1, <1>2, <1>3, FS_EmptySet DEF FilesInv, KindOfKey

(* A file is written under a key of its kind.                              *)
LEMMA PutStep ==
  ASSUME FilesInv, FilesTyped', NEW k \in Key, NEW content \in Content \cup {"bytes"},
         NEW kind, kind = (IF k \in UploadKey THEN "upload" ELSE "output"),
         Put(k, kind, content), UNCHANGED walk
  PROVE  FilesInv'
<1>1. bucket' = [bucket EXCEPT ![k] = [kind |-> kind, content |-> content, readable |-> TRUE]]
  BY DEF Put
<1>2. bucket'[k] = [kind |-> kind, content |-> content, readable |-> TRUE]
      /\ \A j \in Key : j # k => bucket'[j] = bucket[j]
  BY <1>1 DEF FilesTyped
<1>3. Stored(k)' /\ bucket'[k].kind = kind /\ bucket'[k].readable
  <2>1. kind # "absent"
    OBVIOUS
  <2> QED BY <1>2 DEF Stored, Absent
<1>4. AllStored' = AllStored \cup {k}
  BY <1>2, <1>3 DEF AllStored, Stored
<1>5. IsFiniteSet(AllStored')
  BY <1>4, FS_AddElement DEF FilesInv
<1>6. KindOfKey'
  BY <1>2, <1>4 DEF FilesInv, KindOfKey, AllStored
<1>7. StillThere'
  <2>1. \A j \in walk.stayed : j \in AllStored /\ bucket[j].readable
          /\ (walk.kind = Anything \/ bucket[j].kind = walk.kind)
    BY DEF FilesInv, StillThere, Items
  <2>2. \A j \in AllStored : bucket'[j].kind = bucket[j].kind
                             /\ (bucket[j].readable => bucket'[j].readable)
    BY <1>2 DEF FilesInv, KindOfKey, AllStored
  <2> QED BY <1>4, <2>1, <2>2 DEF StillThere, Items
<1>8. ListedSoFar' /\ FilesListedWhole'
  BY DEF FilesInv, ListedSoFar, FilesListedWhole
<1> QED BY <1>5, <1>6, <1>7, <1>8 DEF FilesInv

(* A file goes, or is no longer readable: the walk need not list it.       *)
LEMMA LoseStep ==
  ASSUME FilesInv, FilesTyped', NEW k \in Key,
         \A j \in Key : j # k => bucket'[j] = bucket[j],
         k \in AllStored' => k \in AllStored /\ bucket'[k].kind = bucket[k].kind,
         walk' = [walk EXCEPT !.stayed = @ \ {k}]
  PROVE  FilesInv'
<1>1. AllStored' \subseteq AllStored
  BY DEF AllStored, Stored
<1>2. IsFiniteSet(AllStored')
  BY <1>1, FS_Subset DEF FilesInv
<1>3. KindOfKey'
  BY <1>1 DEF FilesInv, KindOfKey, AllStored
<1>4. /\ walk'.stayed = walk.stayed \ {k} /\ walk'.kind = walk.kind /\ walk'.items = walk.items
      /\ walk'.cursor = walk.cursor /\ walk'.twice = walk.twice /\ walk'.stage = walk.stage
  BY DEF Walk
<1>5. StillThere'
  <2>1. \A j \in AllStored : j # k => j \in AllStored' /\ bucket'[j] = bucket[j]
    BY DEF AllStored, Stored
  <2> QED BY <2>1 DEF FilesInv, StillThere, Items
<1>6. ListedSoFar' /\ FilesListedWhole'
  BY DEF FilesInv, ListedSoFar, FilesListedWhole
<1> QED BY <1>2, <1>3, <1>5, <1>6 DEF FilesInv

(* Steps that write no file and turn no scan.                              *)
LEMMA OtherStep ==
  ASSUME FilesInv, FilesTyped', UNCHANGED <<bucket, walk>> PROVE FilesInv'
<1>1. AllStored' = AllStored /\ KindOfKey' /\ StillThere' /\ ListedSoFar' /\ FilesListedWhole'
  BY DEF FilesInv, AllStored, Stored, KindOfKey, StillThere, Items, ListedSoFar,
     FilesListedWhole
<1> QED BY <1>1 DEF FilesInv

LEMMA UploadFileStep == ASSUME FilesInv, NEW k \in Key, UploadFile(k) PROVE FilesInv'
<1>1. FilesTyped'
  BY DEF UploadFile, Put, FilesInv, FilesTyped, Object
<1> QED BY <1>1, PutStep DEF UploadFile

LEMMA PublishStep == ASSUME FilesInv, Publish PROVE FilesInv'
<1>1. tool.content \in Content /\ KeyOf[tool.content] \in Key \ UploadKey
  BY FilesAssumption DEF Publish, FilesInv, FilesTyped
<1>2. FilesTyped'
  <2>1. bucket' \in [Key -> Object]
    BY <1>1 DEF Publish, Put, ContentFileId, FilesInv, FilesTyped, Object
  <2>2. tool'.content \in Content
    BY <1>1 DEF Publish
  <2> QED BY <2>1 DEF Publish, FilesInv, FilesTyped
<1> QED BY <1>1, <1>2, PutStep DEF Publish, ContentFileId

LEMMA DamageStep == ASSUME FilesInv, NEW k \in Key, Damage(k) PROVE FilesInv'
<1>1. /\ bucket' = [bucket EXCEPT ![k].readable = FALSE] /\ Stored(k)
      /\ walk' = [walk EXCEPT !.stayed = @ \ {k}]
  BY DEF Damage
<1>2. FilesTyped'
  <2>1. bucket' = [bucket EXCEPT ![k] = [bucket[k] EXCEPT !.readable = FALSE]]
    BY <1>1
  <2>2. bucket[k] \in Object /\ [bucket[k] EXCEPT !.readable = FALSE] \in Object
    BY DEF FilesInv, FilesTyped, Object
  <2>3. bucket' \in [Key -> Object]
    BY <2>1, <2>2 DEF FilesInv, FilesTyped
  <2>4. walk' \in Walk
    BY <1>1 DEF FilesInv, FilesTyped, Walk
  <2> QED BY <2>3, <2>4 DEF Damage, FilesInv, FilesTyped
<1>3. bucket'[k].kind = bucket[k].kind /\ \A j \in Key : j # k => bucket'[j] = bucket[j]
  BY <1>1
<1> QED BY <1>1, <1>2, LoseStep DEF AllStored

LEMMA DeleteFileStep == ASSUME FilesInv, DeleteFile PROVE FilesInv'
<1>1. PICK k \in Key : panel.deleting = k
  BY DEF DeleteFile, FilesInv, FilesTyped
<1>2. bucket' = [bucket EXCEPT ![k] = Absent] /\ walk' = [walk EXCEPT !.stayed = @ \ {k}]
  BY <1>1 DEF DeleteFile, Erase
<1>3. FilesTyped'
  <2>1. bucket' \in [Key -> Object] /\ walk' \in Walk
    BY <1>2 DEF FilesInv, FilesTyped, Object, Walk, Absent
  <2> QED BY <2>1 DEF DeleteFile, FilesInv, FilesTyped
<1>4. bucket'[k] = Absent /\ \A j \in Key : j # k => bucket'[j] = bucket[j]
  BY <1>2 DEF FilesInv, FilesTyped
<1>5. k \notin AllStored'
  BY <1>4 DEF AllStored, Stored
<1> QED BY <1>2, <1>3, <1>5, LoseStep

LEMMA CallToolStep == ASSUME FilesInv, NEW content \in Content, CallTool(content) PROVE FilesInv'
BY OtherStep DEF CallTool, FilesInv, FilesTyped

LEMMA AgentCrashesStep == ASSUME FilesInv, AgentCrashes PROVE FilesInv'
BY OtherStep DEF AgentCrashes, FilesInv, FilesTyped

LEMMA ToolReturnsStep == ASSUME FilesInv, ToolReturns PROVE FilesInv'
BY OtherStep DEF ToolReturns, NoTool, FilesInv, FilesTyped

LEMMA FirstPageStep == ASSUME FilesInv, FirstPage PROVE FilesInv'
<1>1. Items(Scanned(0, DefaultLimit), Anything) \subseteq Key
  BY DEF Items, Scanned, After
<1>2. FilesTyped'
  BY <1>1 DEF FirstPage, FilesInv, FilesTyped
<1> QED BY <1>2, OtherStep DEF FirstPage

LEMMA AskDeletionStep == ASSUME FilesInv, NEW k \in Key, AskDeletion(k) PROVE FilesInv'
BY OtherStep DEF AskDeletion, FilesInv, FilesTyped

LEMMA DeletionAnsweredStep == ASSUME FilesInv, DeletionAnswered PROVE FilesInv'
BY OtherStep DEF DeletionAnswered, FilesInv, FilesTyped

LEMMA StartWalkStep ==
  ASSUME FilesInv, NEW kind \in Kind \cup {Anything}, StartWalk(kind) PROVE FilesInv'
<1>1. /\ bucket' = bucket /\ tool' = tool /\ panel' = panel
      /\ walk'.stage = "walking" /\ walk'.kind = kind /\ walk'.cursor = 0 /\ walk'.items = {}
      /\ walk'.twice = {} /\ walk'.stayed = Items(AllStored, kind)
  BY DEF StartWalk, NoWalk, AllStored
<1>2. walk' \in Walk
  BY DEF StartWalk, NoWalk, Walk, Items
<1>3. FilesTyped'
  BY <1>1, <1>2 DEF FilesInv, FilesTyped
<1>4. AllStored' = AllStored /\ KindOfKey'
  BY <1>1 DEF FilesInv, AllStored, Stored, KindOfKey
<1>5. StillThere'
  BY <1>1, <1>4 DEF StillThere, Items
<1>6. \A k \in Key : ~(k <= 0)
  BY FilesAssumption
<1>7. ListedSoFar' /\ FilesListedWhole'
  BY <1>1, <1>6 DEF ListedSoFar, FilesListedWhole, Items, AllStored
<1> QED BY <1>3, <1>4, <1>5, <1>7 DEF FilesInv

LEMMA ListPageStep == ASSUME FilesInv, NEW limit \in Limit, ListPage(limit) PROVE FilesInv'
<1> DEFINE scan == Scanned(walk.cursor, limit)
           found == Items(scan, walk.kind)
           next == NextCursor(walk.cursor, limit, walk.kind)
<1>1. /\ walk.stage = "walking" /\ walk \in Walk /\ walk.cursor \in Nat
      /\ bucket' = bucket /\ tool' = tool /\ panel' = panel
  BY DEF ListPage, FilesInv, FilesTyped, Walk
<1>2. walk' = [walk EXCEPT !.cursor = next, !.items = @ \cup found,
                           !.twice = @ \cup (walk.items \cap found),
                           !.stage = IF next = 0 THEN "whole" ELSE "walking"]
  BY DEF ListPage
<1>3. scan \subseteq After(walk.cursor) /\ After(walk.cursor) \subseteq Key
  BY <1>1, PageIsFirst DEF FilesInv
<1>4. /\ next \in Nat /\ (next = 0 => scan = After(walk.cursor))
      /\ next # 0 => /\ next > walk.cursor /\ \A k \in scan : k <= next
                     /\ \A k \in After(walk.cursor) : k <= next => k \in scan
  BY <1>1, CursorIsLast DEF FilesInv
<1> HIDE DEF scan, next
<1>5. found \subseteq scan /\ found \subseteq Key
  BY <1>3 DEF Items
<1>6. \A k \in walk.stayed : /\ k \in scan => k \in found
                            /\ k \in Key /\ (k <= walk.cursor \/ k \in After(walk.cursor))
  <2>1. \A k \in walk.stayed : k \in Items(AllStored, walk.kind)
    BY DEF FilesInv, StillThere
  <2>2. \A k \in walk.stayed : k \in scan => k \in found
    BY <2>1 DEF Items
  <2>3. \A k \in Key : k <= walk.cursor \/ k > walk.cursor
    BY <1>1, FilesAssumption
  <2> QED BY <2>1, <2>3 DEF Items, AllStored, After
<1>7. /\ \A k \in walk.items : k <= walk.cursor /\ k \in Key
      /\ \A k \in walk.stayed : k <= walk.cursor => k \in walk.items
      /\ walk.twice = {}
  BY <1>1 DEF FilesInv, ListedSoFar, Walk
<1>8. \A k \in found : k \in Nat /\ k > walk.cursor
  BY <1>3, <1>5, FilesAssumption DEF After
<1> HIDE DEF found
<1>9. walk.items \cap found = {}
  BY <1>1, <1>7, <1>8
<1>10. /\ walk'.items = walk.items \cup found /\ walk'.twice = {} /\ walk'.cursor = next
       /\ walk'.stayed = walk.stayed /\ walk'.kind = walk.kind
       /\ walk'.stage = IF next = 0 THEN "whole" ELSE "walking"
  BY <1>2, <1>7, <1>9
<1>11. FilesTyped'
  <2>1. walk' \in Walk
    BY <1>1, <1>2, <1>4, <1>5 DEF Walk
  <2> QED BY <1>1, <2>1 DEF FilesInv, FilesTyped
<1>12. AllStored' = AllStored /\ KindOfKey'
  BY <1>1 DEF FilesInv, AllStored, Stored, KindOfKey
<1>13. StillThere'
  BY <1>1, <1>10, <1>12 DEF FilesInv, StillThere, Items
<1>14. CASE next = 0
  <2>1. \A k \in walk.stayed : k \in walk.items \/ k \in found
    BY <1>4, <1>6, <1>7, <1>14
  <2> QED BY <1>10, <1>11, <1>12, <1>13, <1>14, <2>1 DEF FilesInv, ListedSoFar, FilesListedWhole
<1>15. CASE next # 0
  <2>1. \A k \in walk.items \cup found : k <= next
    <3>1. next > walk.cursor /\ (\A k \in found : k <= next)
      BY <1>4, <1>5, <1>15
    <3>2. ASSUME NEW k \in walk.items PROVE k <= next
      <4>1. k \in Nat /\ k <= walk.cursor
        BY <1>7, FilesAssumption
      <4> QED BY <1>1, <1>4, <3>1, <4>1
    <3> QED BY <3>1, <3>2
  <2>2. \A k \in walk.stayed : k <= next => k \in walk.items \cup found
    BY <1>4, <1>6, <1>7
  <2> QED BY <1>10, <1>11, <1>12, <1>13, <1>15, <2>1, <2>2 DEF FilesInv, ListedSoFar,
             FilesListedWhole
<1> QED BY <1>14, <1>15

LEMMA FilesNextInv == FilesInv /\ [FilesNext]_fileVars => FilesInv'
<1> SUFFICES ASSUME FilesInv, [FilesNext]_fileVars PROVE FilesInv'
  OBVIOUS
<1>1. CASE UNCHANGED fileVars
  BY <1>1, OtherStep DEF fileVars, FilesInv, FilesTyped
<1> QED BY <1>1, UploadFileStep, DamageStep, AskDeletionStep, CallToolStep, PublishStep,
           AgentCrashesStep, ToolReturnsStep, StartWalkStep, ListPageStep, FirstPageStep,
           DeleteFileStep, DeletionAnsweredStep DEF FilesNext

(* Following nextCursor until it is null lists every readable file of the  *)
(* kind that was there from the first scan to the last, and none twice     *)
(* (list, packages/files), whatever the limit of each scan, for any keys.  *)
THEOREM WalkListsAll == FilesSpec => []FilesListedWhole
<1>1. FilesInv => FilesListedWhole
  BY DEF FilesInv
<1> QED BY <1>1, FilesInitInv, FilesNextInv, PTL DEF FilesSpec

-----------------------------------------------------------------------------
(***************************************************************************)
(* The transcript: how toSegments groups parts, by induction over them;    *)
(* and what a render does with the steps that are on the screen.           *)
(***************************************************************************)

NoSegments == [segments |-> <<>>, run |-> 0]

SegmentedFrom(ps, f, n) == IF n = 0 THEN NoSegments ELSE Segmented(ps, f[n - 1], n)

(* There is a function that satisfies the recursion: the least number up   *)
(* to which there is none would have a predecessor that has one.           *)
LEMMA PrefixExists ==
  ASSUME NEW ps, NEW m \in Nat
  PROVE  \E f : f = [n \in 0..m |-> SegmentedFrom(ps, f, n)]
<1> DEFINE exists(k) == \E f : f = [n \in 0..k |-> SegmentedFrom(ps, f, n)]
           without == {k \in Nat : ~exists(k)}
<1>1. exists(0)
  <2> DEFINE f == [n \in 0..0 |-> NoSegments]
  <2>1. f = [n \in 0..0 |-> SegmentedFrom(ps, f, n)]
    BY DEF SegmentedFrom
  <2> QED BY <2>1
<1>2. ASSUME NEW k \in Nat, exists(k) PROVE exists(k + 1)
  <2>1. PICK f : f = [n \in 0..k |-> SegmentedFrom(ps, f, n)]
    BY <1>2
  <2> DEFINE g == [n \in 0..k + 1 |-> IF n = k + 1 THEN Segmented(ps, f[k], k + 1) ELSE f[n]]
  <2>2. ASSUME NEW n \in 0..k + 1 PROVE g[n] = SegmentedFrom(ps, g, n)
    <3>1. CASE n = 0
      BY <2>1 DEF SegmentedFrom
    <3>2. CASE n # 0 /\ n # k + 1
      <4>1. n \in 0..k /\ n - 1 \in 0..k /\ n - 1 # k + 1
        BY <3>2
      <4>2. g[n] = f[n] /\ g[n - 1] = f[n - 1]
        BY <4>1
      <4>3. f[n] = Segmented(ps, f[n - 1], n)
        BY <2>1, <4>1 DEF SegmentedFrom
      <4> QED BY <3>2, <4>3 DEF SegmentedFrom
    <3>3. CASE n = k + 1
      <4>1. n # 0 /\ n - 1 = k /\ k \in 0..k + 1 /\ k # k + 1
        BY <3>3
      <4>2. g[n] = Segmented(ps, f[k], k + 1) /\ g[k] = f[k]
        BY <4>1
      <4> QED BY <4>1 DEF SegmentedFrom
    <3> QED BY <3>1, <3>2, <3>3
  <2>3. g = [n \in 0..k + 1 |-> SegmentedFrom(ps, g, n)]
    <3> HIDE DEF g
    <3>1. g = [n \in 0..k + 1 |-> g[n]]
      BY DEF g
    <3> QED BY <2>2, <3>1
  <2> QED BY <2>3
<1>3. without = {}
  <2>1. SUFFICES ASSUME without # {} PROVE FALSE
    OBVIOUS
  <2>2. PICK k \in without : \A j \in without : k <= j
    BY <2>1, LeastNumber
  <2>3. k # 0 /\ k \in Nat
    BY <1>1
  <2> HIDE DEF exists
  <2>4. k - 1 \in Nat /\ ~(k <= k - 1)
    BY <2>3
  <2>5. exists(k - 1)
    BY <2>2, <2>4
  <2>6. exists(k - 1 + 1)
    BY <1>2, <2>4, <2>5
  <2> QED BY <2>6
<1> QED BY <1>3

LEMMA SegmentsUpToIs ==
  ASSUME NEW ps, Len(ps) \in Nat
  PROVE  /\ SegmentsUpTo(ps)[0] = NoSegments
         /\ \A n \in 1..Len(ps) :
              SegmentsUpTo(ps)[n] = Segmented(ps, SegmentsUpTo(ps)[n - 1], n)
<1> DEFINE f == SegmentsUpTo(ps)
<1>1. \E g : g = [n \in 0..Len(ps) |-> SegmentedFrom(ps, g, n)]
  BY PrefixExists
<1>2. f = CHOOSE g : g = [n \in 0..Len(ps) |-> SegmentedFrom(ps, g, n)]
  BY DEF SegmentsUpTo, SegmentedFrom, NoSegments
<1>3. f = [n \in 0..Len(ps) |-> SegmentedFrom(ps, f, n)]
  <2> HIDE DEF f
  <2> QED BY <1>2
<1> HIDE DEF f
<1>4. \A n \in 0..Len(ps) : f[n] = SegmentedFrom(ps, f, n)
  BY <1>3
<1>5. f[0] = NoSegments /\ \A n \in 1..Len(ps) : f[n] = Segmented(ps, f[n - 1], n)
  BY <1>4 DEF SegmentedFrom
<1> QED BY <1>5 DEF f

(* Parts of one run: steps with no prose between them.                     *)
NoProse(ps, j, k) == \A between \in j..k : ~EndsRun(ps[between])

SameRun(ps, j, k) == IsActivityPart(ps[j]) /\ IsActivityPart(ps[k]) /\ NoProse(ps, j, k)

Segment(n) == [kind : {"activity", "content"}, parts : SUBSET (1..n)]

(* The segments of the first n parts: no part is left out, parts share a   *)
(* segment exactly when they are of one run, and `run` collects the steps  *)
(* that the next one would join.                                           *)
Grouped(ps, segs, run, n) ==
  /\ segs \in Seq(Segment(n)) /\ run \in 0..Len(segs)
  /\ \A i \in DOMAIN segs : segs[i].parts # {}
  /\ \A j \in 1..n : \E i \in DOMAIN segs : j \in segs[i].parts
  /\ \A i \in DOMAIN segs : \A j, k \in segs[i].parts : j < k => SameRun(ps, j, k)
  /\ \A j, k \in 1..n : j < k /\ SameRun(ps, j, k) =>
       \E i \in DOMAIN segs : j \in segs[i].parts /\ k \in segs[i].parts
  /\ \A j \in 1..n : IsActivityPart(ps[j]) /\ NoProse(ps, j, n) <=>
       run # 0 /\ j \in segs[run].parts

(* A step joins the run that is open.                                      *)
LEMMA JoinsRun ==
  ASSUME NEW ps, NEW n \in Nat, NEW segs, NEW r, r # 0, Grouped(ps, segs, r, n),
         IsActivityPart(ps[n + 1]),
         NEW new \in Seq(Segment(n + 1)), Len(new) = Len(segs),
         \A i \in 1..Len(segs) : i # r => new[i] = segs[i],
         new[r].parts = segs[r].parts \cup {n + 1}
  PROVE  Grouped(ps, new, r, n + 1)
<1>0. /\ segs \in Seq(Segment(n)) /\ Len(segs) \in Nat /\ r \in 1..Len(segs)
      /\ DOMAIN segs = 1..Len(segs) /\ DOMAIN new = 1..Len(segs)
  BY DEF Grouped
<1>1. \A i \in 1..Len(segs) : segs[i].parts \subseteq 1..n
  <2>1. \A i \in 1..Len(segs) : segs[i] \in Segment(n)
    BY <1>0
  <2> QED BY <2>1 DEF Segment
<1>5. ~EndsRun(ps[n + 1])
  BY DEF IsActivityPart, EndsRun
<1>6. \A j \in 1..n + 1 : NoProse(ps, j, n + 1) <=> j = n + 1 \/ NoProse(ps, j, n)
  BY <1>5 DEF NoProse
<1>7. \A j \in 1..n + 1 : IsActivityPart(ps[j]) /\ NoProse(ps, j, n + 1) <=>
        r # 0 /\ j \in new[r].parts
  <2>1. \A j \in 1..n : IsActivityPart(ps[j]) /\ NoProse(ps, j, n) <=> j \in segs[r].parts
    BY DEF Grouped
  <2> QED BY <1>6, <2>1
<1>8. \A j \in 1..n + 1 : \E i \in DOMAIN new : j \in new[i].parts
  <2>1. \A j \in 1..n : \E i \in 1..Len(segs) : j \in segs[i].parts
    BY <1>0 DEF Grouped
  <2>2. \A i \in 1..Len(segs) : segs[i].parts \subseteq new[i].parts
    OBVIOUS
  <2>3. \A j \in 1..n : \E i \in 1..Len(segs) : j \in new[i].parts
    BY <2>1, <2>2
  <2>4. \E i \in 1..Len(segs) : n + 1 \in new[i].parts
    BY <1>0
  <2>5. \A j \in 1..n + 1 : j \in 1..n \/ j = n + 1
    OBVIOUS
  <2> QED BY <1>0, <2>3, <2>4, <2>5
<1>9. \A i \in DOMAIN new : \A j, k \in new[i].parts : j < k => SameRun(ps, j, k)
  <2> SUFFICES ASSUME NEW i \in 1..Len(segs), NEW j \in new[i].parts, NEW k \in new[i].parts,
                      j < k
               PROVE  SameRun(ps, j, k)
    BY <1>0
  <2>1. CASE i # r \/ (j # n + 1 /\ k # n + 1)
    <3>1. j \in segs[i].parts /\ k \in segs[i].parts
      BY <2>1
    <3> QED BY <3>1 DEF Grouped
  <2>2. CASE i = r /\ k = n + 1
    <3>1. j \in 1..n
      BY <1>1
    <3> QED BY <1>7, <2>2, <3>1 DEF SameRun
  <2>3. i = r => j # n + 1
    BY <1>1
  <2> QED BY <2>1, <2>2, <2>3
<1>10. \A j, k \in 1..n + 1 : j < k /\ SameRun(ps, j, k) =>
         \E i \in DOMAIN new : j \in new[i].parts /\ k \in new[i].parts
  <2> SUFFICES ASSUME NEW j \in 1..n + 1, NEW k \in 1..n + 1, j < k, SameRun(ps, j, k)
               PROVE  \E i \in 1..Len(segs) : j \in new[i].parts /\ k \in new[i].parts
    BY <1>0
  <2>1. CASE k = n + 1
    <3>1. j \in new[r].parts /\ k \in new[r].parts
      BY <1>7, <2>1 DEF SameRun
    <3> QED BY <1>0, <3>1
  <2>2. CASE k # n + 1
    <3>1. PICK i \in 1..Len(segs) : j \in segs[i].parts /\ k \in segs[i].parts
      BY <1>0, <2>2 DEF Grouped
    <3> QED BY <3>1
  <2> QED BY <2>1, <2>2
<1>11. \A i \in DOMAIN new : new[i].parts # {}
  BY <1>0 DEF Grouped
<1> QED BY <1>0, <1>7, <1>8, <1>9, <1>10, <1>11 DEF Grouped

(* Anything else begins a segment, and prose ends the run.                 *)
LEMMA BeginsSegment ==
  ASSUME NEW ps, NEW n \in Nat, NEW segs, NEW run, Grouped(ps, segs, run, n),
         NEW new \in Seq(Segment(n + 1)), Len(new) = Len(segs) + 1,
         \A i \in 1..Len(segs) : new[i] = segs[i],
         new[Len(segs) + 1].parts = {n + 1},
         IsActivityPart(ps[n + 1]) => run = 0
  PROVE  Grouped(ps, new, IF IsActivityPart(ps[n + 1]) THEN Len(segs) + 1
                          ELSE IF EndsRun(ps[n + 1]) THEN 0 ELSE run, n + 1)
<1> DEFINE last == Len(segs) + 1
           next == IF IsActivityPart(ps[n + 1]) THEN last
                   ELSE IF EndsRun(ps[n + 1]) THEN 0 ELSE run
<1>0. /\ segs \in Seq(Segment(n)) /\ Len(segs) \in Nat /\ run \in 0..Len(segs)
      /\ DOMAIN segs = 1..Len(segs) /\ DOMAIN new = 1..last
  BY DEF Grouped
<1>1. \A i \in 1..Len(segs) : segs[i].parts \subseteq 1..n
  <2>1. \A i \in 1..Len(segs) : segs[i] \in Segment(n)
    BY <1>0
  <2> QED BY <2>1 DEF Segment
<1>2. \A i \in 1..last : i \in 1..Len(segs) \/ i = last
  BY <1>0
<1>3. \A i \in 1..Len(segs) : i \in 1..last
  BY <1>0
<1>4. next \in 0..Len(new)
  BY <1>0
<1>5. \A i \in DOMAIN new : new[i].parts # {}
  BY <1>0, <1>2 DEF Grouped
<1>6. \A j \in 1..n + 1 : \E i \in DOMAIN new : j \in new[i].parts
  <2>1. \A j \in 1..n : \E i \in 1..Len(segs) : j \in new[i].parts
    BY <1>0 DEF Grouped
  <2>2. \A j \in 1..n : \E i \in 1..last : j \in new[i].parts
    BY <2>1
  <2>3. \E i \in 1..last : n + 1 \in new[i].parts
    BY <1>0
  <2>4. \A j \in 1..n + 1 : j \in 1..n \/ j = n + 1
    OBVIOUS
  <2> QED BY <1>0, <2>2, <2>3, <2>4
<1>7. \A i \in DOMAIN new : \A j, k \in new[i].parts : j < k => SameRun(ps, j, k)
  <2>1. \A i \in 1..Len(segs) : \A j, k \in new[i].parts : j < k => SameRun(ps, j, k)
    BY <1>0 DEF Grouped
  <2> QED BY <2>1
<1>8. \A j \in 1..n : NoProse(ps, j, n + 1) <=> NoProse(ps, j, n) /\ ~EndsRun(ps[n + 1])
  BY DEF NoProse
<1>9. NoProse(ps, n + 1, n + 1) <=> ~EndsRun(ps[n + 1])
  BY DEF NoProse
<1>10. IsActivityPart(ps[n + 1]) => ~EndsRun(ps[n + 1])
  BY DEF IsActivityPart, EndsRun
<1>11. \A j \in 1..n : IsActivityPart(ps[j]) /\ NoProse(ps, j, n) <=>
         run # 0 /\ j \in segs[run].parts
  BY DEF Grouped
<1>12. \A j \in 1..n + 1 : IsActivityPart(ps[j]) /\ NoProse(ps, j, n + 1) <=>
         next # 0 /\ j \in new[next].parts
  <2> SUFFICES ASSUME NEW j \in 1..n + 1
               PROVE  IsActivityPart(ps[j]) /\ NoProse(ps, j, n + 1) <=>
                        next # 0 /\ j \in new[next].parts
    OBVIOUS
  <2>1. CASE IsActivityPart(ps[n + 1])
    BY <1>8, <1>9, <1>10, <1>11, <2>1
  <2>2. CASE ~IsActivityPart(ps[n + 1]) /\ EndsRun(ps[n + 1])
    BY <1>8, <2>2
  <2>3. CASE ~IsActivityPart(ps[n + 1]) /\ ~EndsRun(ps[n + 1])
    <3>1. run # 0 => new[run].parts = segs[run].parts /\ n + 1 \notin segs[run].parts
      BY <1>0, <1>1
    <3> QED BY <1>8, <1>11, <2>3, <3>1
  <2> QED BY <2>1, <2>2, <2>3
<1>13. \A j, k \in 1..n + 1 : j < k /\ SameRun(ps, j, k) =>
         \E i \in DOMAIN new : j \in new[i].parts /\ k \in new[i].parts
  <2> SUFFICES ASSUME NEW j \in 1..n + 1, NEW k \in 1..n + 1, j < k, SameRun(ps, j, k)
               PROVE  \E i \in 1..last : j \in new[i].parts /\ k \in new[i].parts
    BY <1>0
  <2>1. CASE k # n + 1
    <3>1. PICK i \in 1..Len(segs) : j \in segs[i].parts /\ k \in segs[i].parts
      BY <1>0, <2>1 DEF Grouped
    <3> QED BY <1>3, <3>1
  <2>2. CASE k = n + 1
    <3>1. j \in 1..n /\ NoProse(ps, j, n) /\ IsActivityPart(ps[j]) /\ run = 0
      BY <1>8, <2>2 DEF SameRun
    <3> QED BY <1>11, <3>1
  <2> QED BY <2>1, <2>2
<1> HIDE DEF last, next
<1>14. Grouped(ps, new, next, n + 1)
  BY <1>4, <1>5, <1>6, <1>12, <1>13 DEF Grouped
<1> QED BY <1>14 DEF next, last

(* The same of the record the recursion computes.                          *)
GroupedSoFar(ps, acc, n) ==
  /\ acc = [segments |-> acc.segments, run |-> acc.run]
  /\ Grouped(ps, acc.segments, acc.run, n)

LEMMA StaysGrouped ==
  ASSUME NEW ps, NEW n \in Nat, NEW acc, GroupedSoFar(ps, acc, n)
  PROVE  GroupedSoFar(ps, Segmented(ps, acc, n + 1), n + 1)
<1> DEFINE segs == acc.segments
           run == acc.run
           new == Segmented(ps, acc, n + 1)
<1>0. /\ acc = [segments |-> segs, run |-> run] /\ Grouped(ps, segs, run, n)
      /\ segs \in Seq(Segment(n)) /\ Len(segs) \in Nat /\ run \in 0..Len(segs)
  BY DEF GroupedSoFar, Grouped
<1>1. \A i \in 1..Len(segs) : segs[i] \in Segment(n)
  BY <1>0
<1>2. Segment(n) \subseteq Segment(n + 1)
  BY DEF Segment
<1>3. segs \in Seq(Segment(n + 1))
  <2>1. \A i \in 1..Len(segs) : segs[i] \in Segment(n + 1)
    BY <1>1, <1>2
  <2> QED BY <1>0, <2>1
<1>4. CASE IsActivityPart(ps[n + 1]) /\ run # 0
  <2> DEFINE joined == [segs[run] EXCEPT !.parts = @ \cup {n + 1}]
             grown == [segs EXCEPT ![run] = joined]
  <2>1. new = [acc EXCEPT !.segments = grown]
    BY <1>4 DEF Segmented
  <2>2. run \in 1..Len(segs) /\ segs[run] \in Segment(n)
    BY <1>0, <1>4
  <2>3. joined \in Segment(n + 1) /\ joined.parts = segs[run].parts \cup {n + 1}
    BY <2>2 DEF Segment
  <2> HIDE DEF joined
  <2>4. /\ grown \in Seq(Segment(n + 1)) /\ Len(grown) = Len(segs) /\ grown[run] = joined
        /\ \A i \in 1..Len(segs) : i # run => grown[i] = segs[i]
    BY <1>3, <2>2, <2>3
  <2> HIDE DEF grown
  <2>5. new = [segments |-> grown, run |-> run]
    BY <1>0, <2>1
  <2>6. Grouped(ps, grown, run, n + 1)
    BY <1>0, <1>4, <2>3, <2>4, JoinsRun
  <2> QED BY <2>5, <2>6 DEF GroupedSoFar
<1>5. CASE ~(IsActivityPart(ps[n + 1]) /\ run # 0)
  <2> DEFINE kind == IF IsActivityPart(ps[n + 1]) THEN "activity" ELSE "content"
             next == IF IsActivityPart(ps[n + 1]) THEN Len(segs) + 1
                     ELSE IF EndsRun(ps[n + 1]) THEN 0 ELSE run
             begun == [kind |-> kind, parts |-> {n + 1}]
             grown == Append(segs, begun)
  <2>1. new = [segments |-> grown, run |-> next]
    BY <1>5 DEF Segmented
  <2>2. begun \in Segment(n + 1) /\ begun.parts = {n + 1}
    BY DEF Segment
  <2> HIDE DEF begun
  <2>3. /\ grown \in Seq(Segment(n + 1)) /\ Len(grown) = Len(segs) + 1
        /\ grown[Len(segs) + 1] = begun /\ \A i \in 1..Len(segs) : grown[i] = segs[i]
    BY <1>3, <2>2
  <2> HIDE DEF grown
  <2>4. Grouped(ps, grown, next, n + 1)
    BY <1>0, <1>5, <2>2, <2>3, BeginsSegment
  <2> HIDE DEF next
  <2> QED BY <2>1, <2>4 DEF GroupedSoFar
<1> QED BY <1>4, <1>5

LEMMA SegmentsAreGrouped ==
  ASSUME NEW ps, Len(ps) \in Nat
  PROVE  \A n \in 0..Len(ps) : GroupedSoFar(ps, SegmentsUpTo(ps)[n], n)
<1> DEFINE failing == {n \in 0..Len(ps) : ~GroupedSoFar(ps, SegmentsUpTo(ps)[n], n)}
<1>1. SUFFICES ASSUME failing # {} PROVE FALSE
  OBVIOUS
<1>2. PICK n \in failing : \A m \in failing : n <= m
  <2>1. failing \subseteq Nat
    OBVIOUS
  <2> QED BY <1>1, <2>1, LeastNumber
<1>3. GroupedSoFar(ps, SegmentsUpTo(ps)[0], 0)
  <2>1. GroupedSoFar(ps, NoSegments, 0)
    BY DEF GroupedSoFar, Grouped, NoSegments
  <2> QED BY <2>1, SegmentsUpToIs
<1>4. n # 0 /\ n - 1 \in 0..Len(ps) /\ n - 1 \in Nat /\ n \in 1..Len(ps) /\ ~(n <= n - 1)
  BY <1>3
<1>5. GroupedSoFar(ps, SegmentsUpTo(ps)[n - 1], n - 1)
  BY <1>2, <1>4
<1>6. GroupedSoFar(ps, Segmented(ps, SegmentsUpTo(ps)[n - 1], n - 1 + 1), n - 1 + 1)
  BY <1>4, <1>5, StaysGrouped
<1>7. n - 1 + 1 = n /\ SegmentsUpTo(ps)[n] = Segmented(ps, SegmentsUpTo(ps)[n - 1], n)
  BY <1>4, SegmentsUpToIs
<1>8. GroupedSoFar(ps, SegmentsUpTo(ps)[n], n)
  BY <1>6, <1>7
<1> QED BY <1>8

(* Segments depend on the kinds of the parts only.                         *)
LEMMA SameSegments ==
  ASSUME NEW ps, NEW qs, Len(ps) \in Nat, Len(qs) \in Nat, Len(ps) <= Len(qs),
         \A i \in 1..Len(ps) : /\ IsActivityPart(ps[i]) <=> IsActivityPart(qs[i])
                               /\ EndsRun(ps[i]) <=> EndsRun(qs[i])
  PROVE  \A n \in 0..Len(ps) : SegmentsUpTo(ps)[n] = SegmentsUpTo(qs)[n]
<1> DEFINE differing == {n \in 0..Len(ps) : SegmentsUpTo(ps)[n] # SegmentsUpTo(qs)[n]}
<1>1. SUFFICES ASSUME differing # {} PROVE FALSE
  OBVIOUS
<1>2. PICK n \in differing : \A m \in differing : n <= m
  <2>1. differing \subseteq Nat
    OBVIOUS
  <2> QED BY <1>1, <2>1, LeastNumber
<1>3. SegmentsUpTo(ps)[0] = SegmentsUpTo(qs)[0]
  BY SegmentsUpToIs
<1>4. n # 0 /\ n - 1 \in 0..Len(ps) /\ n \in 1..Len(ps) /\ n \in 1..Len(qs) /\ ~(n <= n - 1)
  BY <1>3
<1>5. SegmentsUpTo(ps)[n - 1] = SegmentsUpTo(qs)[n - 1]
  BY <1>2, <1>4
<1>6. \A acc : Segmented(ps, acc, n) = Segmented(qs, acc, n)
  BY <1>4 DEF Segmented
<1>7. SegmentsUpTo(ps)[n] = SegmentsUpTo(qs)[n]
  BY <1>5, <1>6, SegmentsUpToIs
<1> QED BY <1>7

(* A part that arrives is put behind all the others, in the last run or in *)
(* a segment of its own.                                                   *)
LEMMA SegmentsGrow ==
  ASSUME NEW ps, NEW n \in Nat, NEW acc, GroupedSoFar(ps, acc, n)
  PROVE  \A i \in DOMAIN acc.segments :
           /\ i \in DOMAIN Segmented(ps, acc, n + 1).segments
           /\ Segmented(ps, acc, n + 1).segments[i].parts
                \in {acc.segments[i].parts, acc.segments[i].parts \cup {n + 1}}
<1> DEFINE segs == acc.segments
           run == acc.run
           new == Segmented(ps, acc, n + 1)
<1>0. /\ acc = [segments |-> segs, run |-> run]
      /\ segs \in Seq(Segment(n)) /\ Len(segs) \in Nat /\ run \in 0..Len(segs)
      /\ DOMAIN segs = 1..Len(segs)
  BY DEF GroupedSoFar, Grouped
<1>1. CASE IsActivityPart(ps[n + 1]) /\ run # 0
  <2> DEFINE joined == [segs[run] EXCEPT !.parts = @ \cup {n + 1}]
             grown == [segs EXCEPT ![run] = joined]
  <2>1. new = [acc EXCEPT !.segments = grown]
    BY <1>1 DEF Segmented
  <2>2. segs[run] \in Segment(n)
    BY <1>0, <1>1
  <2>3. joined.parts = segs[run].parts \cup {n + 1}
    BY <2>2
  <2> HIDE DEF joined
  <2>4. /\ DOMAIN grown = DOMAIN segs /\ grown[run] = joined
        /\ \A i \in DOMAIN segs : i # run => grown[i] = segs[i]
    BY <1>0, <1>1
  <2> HIDE DEF grown
  <2>5. new.segments = grown
    BY <1>0, <2>1
  <2> HIDE DEF new
  <2>6. \A i \in DOMAIN segs : /\ i \in DOMAIN grown
                               /\ grown[i].parts \in {segs[i].parts, segs[i].parts \cup {n + 1}}
    BY <2>3, <2>4
  <2> QED BY <2>5, <2>6 DEF new
<1>2. CASE ~(IsActivityPart(ps[n + 1]) /\ run # 0)
  <2>1. PICK begun : new.segments = Append(segs, begun)
    BY <1>2 DEF Segmented
  <2>2. \A i \in DOMAIN segs : /\ i \in DOMAIN Append(segs, begun)
                               /\ Append(segs, begun)[i] = segs[i]
    BY <1>0
  <2> HIDE DEF new
  <2> QED BY <2>1 DEF new
<1> QED BY <1>1, <1>2

LEMMA SegmentsOfParts ==
  ASSUME NEW ps, Len(ps) \in Nat
  PROVE  /\ Grouped(ps, ToSegments(ps), SegmentsUpTo(ps)[Len(ps)].run, Len(ps))
         /\ \A i \in DOMAIN ToSegments(ps) :
              ToSegments(ps)[i].parts \subseteq 1..Len(ps) /\ ToSegments(ps)[i].parts # {}
<1>1. Grouped(ps, ToSegments(ps), SegmentsUpTo(ps)[Len(ps)].run, Len(ps))
  <2>1. \A n \in 0..Len(ps) : GroupedSoFar(ps, SegmentsUpTo(ps)[n], n)
    BY SegmentsAreGrouped
  <2>2. Len(ps) \in 0..Len(ps)
    OBVIOUS
  <2> QED BY <2>1, <2>2, Zenon DEF GroupedSoFar, ToSegments
<1>2. /\ ToSegments(ps) \in Seq(Segment(Len(ps)))
      /\ \A i \in DOMAIN ToSegments(ps) : ToSegments(ps)[i].parts # {}
  BY <1>1 DEF Grouped
<1>3. \A i \in DOMAIN ToSegments(ps) : ToSegments(ps)[i] \in Segment(Len(ps))
  BY <1>2
<1> QED BY <1>1, <1>2, <1>3 DEF Segment

Part == [kind : PartKind, state : {"running", "done", "failed"}]

(* What the stream does to the parts: they settle, and more arrive.        *)
Later(ps, qs) ==
  /\ DOMAIN ps \subseteq DOMAIN qs
  /\ \A j \in DOMAIN ps : /\ qs[j].kind = ps[j].kind
                          /\ qs[j].state = ps[j].state \/ ps[j].state = "running"

(* Panels keep their place and their first step.                           *)
LEMMA PanelsKeepTheirSteps ==
  ASSUME NEW ps \in Seq(Part), NEW qs \in Seq(Part), Later(ps, qs), Len(qs) <= Len(ps) + 1
  PROVE  \A i \in DOMAIN ToSegments(ps) :
           /\ i \in DOMAIN ToSegments(qs)
           /\ ToSegments(qs)[i].parts
                \in {ToSegments(ps)[i].parts, ToSegments(ps)[i].parts \cup {Len(ps) + 1}}
<1>1. /\ Len(ps) \in Nat /\ Len(qs) \in Nat
      /\ DOMAIN ps = 1..Len(ps) /\ DOMAIN qs = 1..Len(qs)
  OBVIOUS
<1> DEFINE n == Len(ps)
<1>2. n <= Len(qs) /\ (Len(qs) = n \/ Len(qs) = n + 1)
  <2>1. 1..n \subseteq 1..Len(qs)
    BY DEF Later
  <2>2. n # 0 => n \in 1..n
    BY <1>1
  <2>3. n # 0 => n <= Len(qs)
    BY <2>1
  <2>4. \A a, b \in Nat : b <= a + 1 /\ (a # 0 => a <= b) => a <= b /\ (b = a \/ b = a + 1)
    OBVIOUS
  <2> QED BY <1>1, <2>3, <2>4, Zenon
<1>3. \A i \in 1..n : /\ IsActivityPart(ps[i]) <=> IsActivityPart(qs[i])
                      /\ EndsRun(ps[i]) <=> EndsRun(qs[i])
  BY DEF Later, IsActivityPart, EndsRun
<1>4. SegmentsUpTo(ps)[n] = SegmentsUpTo(qs)[n]
  <2>1. \A m \in 0..n : SegmentsUpTo(ps)[m] = SegmentsUpTo(qs)[m]
    BY <1>1, <1>2, <1>3, SameSegments
  <2>2. n \in 0..n
    BY <1>1
  <2> QED BY <2>1
<1>5. CASE Len(qs) = n
  BY <1>4, <1>5 DEF ToSegments
<1>6. CASE Len(qs) = n + 1
  <2> DEFINE acc == SegmentsUpTo(qs)[n]
  <2>1. GroupedSoFar(qs, acc, n)
    <3>1. \A m \in 0..Len(qs) : GroupedSoFar(qs, SegmentsUpTo(qs)[m], m)
      BY SegmentsAreGrouped
    <3>2. \A a, b \in Nat : a <= b => a \in 0..b
      OBVIOUS
    <3> QED BY <1>1, <1>2, <3>1, <3>2, Zenon
  <2>2. SegmentsUpTo(qs)[n + 1] = Segmented(qs, acc, n + 1)
    BY <1>6, SegmentsUpToIs
  <2>3. \A i \in DOMAIN acc.segments :
           /\ i \in DOMAIN Segmented(qs, acc, n + 1).segments
           /\ Segmented(qs, acc, n + 1).segments[i].parts
                \in {acc.segments[i].parts, acc.segments[i].parts \cup {n + 1}}
    <3> HIDE DEF acc
    <3> QED BY <1>1, <2>1, SegmentsGrow
  <2> QED BY <1>4, <1>6, <2>2, <2>3 DEF ToSegments
<1> QED BY <1>2, <1>5, <1>6

(* What the reader chose of a panel is kept with the first of its steps.   *)
ChoicesKept ==
  \A i \in DOMAIN panelsOpen :
    /\ i \in DOMAIN ToSegments(parts)
    /\ chosen.first[i] \in ToSegments(parts)[i].parts
    /\ \A j \in ToSegments(parts)[i].parts : chosen.first[i] <= j

(* A tool's step is closed because the reader closed it, or it has not     *)
(* failed and nothing was ever said of it.                                 *)
StepsKept ==
  /\ DOMAIN shown \subseteq DOMAIN parts
  /\ \A j \in DOMAIN shown : shown[j] \in BOOLEAN
  /\ DOMAIN stepsOpen \subseteq DOMAIN shown
  /\ \A j \in DOMAIN stepsOpen : stepsOpen[j] \in BOOLEAN
  /\ toggled \subseteq DOMAIN shown
  /\ \A j \in DOMAIN shown : parts[j].kind = "tool" /\ ~shown[j] =>
       \/ j \in chosen.closed
       \/ j \notin DOMAIN stepsOpen /\ j \notin toggled /\ parts[j].state # "failed"

TranscriptInv == parts \in Seq(Part) /\ ChoicesKept /\ StepsKept

LEMMA MountedArePresent ==
  ASSUME NEW ps \in Seq(Part), NEW override PROVE MountedSteps(ps, override) \subseteq DOMAIN ps
<1>1. DOMAIN ps = 1..Len(ps) /\ Len(ps) \in Nat
  OBVIOUS
<1>2. \A i \in DOMAIN ToSegments(ps) : ToSegments(ps)[i].parts \subseteq 1..Len(ps)
  BY SegmentsOfParts
<1> QED BY <1>2 DEF MountedSteps

LEMMA RenderKeepsChoices ==
  ASSUME TranscriptInv, parts' \in Seq(Part), Later(parts, parts'), Len(parts') <= Len(parts) + 1,
         NEW overridden, NEW flipped, NEW handled, Render(overridden, flipped, handled),
         \A i \in DOMAIN panelsOpen' :
           i \in DOMAIN panelsOpen \/ (i \in DOMAIN ToSegments(parts) /\ parts' = parts)
  PROVE  ChoicesKept'
<1> SUFFICES ASSUME NEW i \in DOMAIN panelsOpen'
             PROVE  /\ i \in DOMAIN ToSegments(parts')
                    /\ chosen'.first[i] \in ToSegments(parts')[i].parts
                    /\ \A j \in ToSegments(parts')[i].parts : chosen'.first[i] <= j
  BY DEF ChoicesKept
<1>1. /\ Len(parts) \in Nat
      /\ \A k \in DOMAIN ToSegments(parts) :
           ToSegments(parts)[k].parts \subseteq 1..Len(parts) /\ ToSegments(parts)[k].parts # {}
  BY SegmentsOfParts
<1>2. chosen'.first[i] = IF i \in DOMAIN panelsOpen THEN chosen.first[i]
                         ELSE CHOOSE j \in ToSegments(parts)[i].parts :
                                \A k \in ToSegments(parts)[i].parts : j <= k
  BY DEF Render
<1>3. CASE i \in DOMAIN panelsOpen
  <2>1. /\ i \in DOMAIN ToSegments(parts)
        /\ chosen.first[i] \in ToSegments(parts)[i].parts
        /\ \A j \in ToSegments(parts)[i].parts : chosen.first[i] <= j
    BY <1>3 DEF TranscriptInv, ChoicesKept
  <2>2. chosen.first[i] \in 1..Len(parts)
    BY <1>1, <2>1
  <2>3. /\ i \in DOMAIN ToSegments(parts')
        /\ ToSegments(parts')[i].parts
             \in {ToSegments(parts)[i].parts, ToSegments(parts)[i].parts \cup {Len(parts) + 1}}
    BY <2>1, PanelsKeepTheirSteps DEF TranscriptInv
  <2>4. chosen.first[i] <= Len(parts) + 1
    BY <2>2
  <2> QED BY <1>2, <2>1, <2>3, <2>4
<1>4. CASE i \notin DOMAIN panelsOpen
  <2>1. i \in DOMAIN ToSegments(parts) /\ parts' = parts
    BY <1>4
  <2>2. \E j \in ToSegments(parts)[i].parts : \A k \in ToSegments(parts)[i].parts : j <= k
    <3>1. ToSegments(parts)[i].parts \subseteq Nat /\ ToSegments(parts)[i].parts # {}
      BY <1>1, <2>1
    <3> QED BY <3>1, LeastNumber
  <2> QED BY <1>2, <1>4, <2>2
<1> QED BY <1>3, <1>4

(* The browser, the reader and React: whatever a render follows, steps stay *)
(* as StepsKept says.                                                       *)
LEMMA RenderKeepsSteps ==
  ASSUME StepsKept, parts' \in Seq(Part), Later(parts, parts'),
         NEW overridden, NEW flipped, NEW handled, Render(overridden, flipped, handled),
         handled \subseteq toggled, DOMAIN overridden = handled,
         \A j \in handled : overridden[j] = shown[j],
         flipped \subseteq DOMAIN shown, flipped = {} \/ handled = {}
  PROVE  StepsKept'
<1> DEFINE mounted == MountedSteps(parts', panelsOpen')
           before == DOMAIN shown
           old(j) == IF j \in before THEN shown[j] # (j \in flipped) ELSE FALSE
           open(j) == StepOpen(parts', stepsOpen', j)
           new(j) == IF j \in before /\ open(j) = StepOpen(parts, stepsOpen, j)
                     THEN old(j) ELSE open(j)
<1>1. /\ stepsOpen' = [j \in (DOMAIN stepsOpen \cup DOMAIN overridden) \cap mounted |->
                         IF j \in DOMAIN overridden THEN overridden[j] ELSE stepsOpen[j]]
      /\ shown' = [j \in mounted |-> new(j)]
      /\ toggled' = (((toggled \cup flipped) \ handled) \cap mounted)
                      \cup {j \in mounted : new(j) # old(j)}
      /\ chosen'.closed = {j \in mounted : IF j \in flipped THEN shown[j] ELSE j \in chosen.closed}
  BY DEF Render
<1> HIDE DEF mounted
<1>2. mounted \subseteq DOMAIN parts'
  BY MountedArePresent DEF mounted
<1>3. /\ before \subseteq DOMAIN parts /\ \A j \in before : shown[j] \in BOOLEAN
      /\ DOMAIN stepsOpen \subseteq before /\ \A j \in DOMAIN stepsOpen : stepsOpen[j] \in BOOLEAN
      /\ toggled \subseteq before
  BY DEF StepsKept
<1>4. /\ DOMAIN shown' = mounted
      /\ DOMAIN stepsOpen' = (DOMAIN stepsOpen \cup handled) \cap mounted
      /\ \A j \in DOMAIN stepsOpen' :
           stepsOpen'[j] = IF j \in handled THEN shown[j] ELSE stepsOpen[j]
  BY <1>1
<1>5. DOMAIN stepsOpen' \subseteq DOMAIN shown' /\ toggled' \subseteq DOMAIN shown'
  BY <1>1, <1>4
<1>6. \A j \in DOMAIN stepsOpen' : stepsOpen'[j] \in BOOLEAN
  BY <1>3, <1>4
<1>7. \A j \in mounted : open(j) \in BOOLEAN
  BY <1>6 DEF StepOpen, AutoOpen
<1>8. \A j \in mounted : old(j) \in BOOLEAN
  OBVIOUS
<1>9. \A j \in mounted : shown'[j] = new(j) /\ new(j) \in BOOLEAN
  <2> HIDE DEF old, open
  <2> QED BY <1>1, <1>7, <1>8
<1>10. ASSUME NEW j \in mounted, parts'[j].kind = "tool", ~shown'[j]
       PROVE  \/ j \in chosen'.closed
              \/ j \notin DOMAIN stepsOpen' /\ j \notin toggled' /\ parts'[j].state # "failed"
  <2>1. CASE j \notin before
    <3>1. j \notin DOMAIN stepsOpen' /\ j \notin toggled /\ j \notin flipped
      BY <1>3, <1>4, <2>1
    <3>2. ~open(j) /\ ~old(j) /\ new(j) = open(j)
      BY <1>9, <1>10, <2>1
    <3>3. parts'[j].state # "failed"
      BY <1>10, <3>1, <3>2 DEF StepOpen, AutoOpen
    <3>4. new(j) = old(j)
      BY <1>7, <1>8, <3>2
    <3> HIDE DEF new, old
    <3>5. j \notin toggled'
      BY <1>1, <3>1, <3>4
    <3> QED BY <3>1, <3>3, <3>5
  <2>2. CASE j \in before
    <3>0. parts[j].kind = "tool" /\ (parts[j].state = "failed" => parts'[j].state = "failed")
      BY <1>3, <1>10, <2>2 DEF Later
    <3>1. CASE j \in flipped
      <4>1. shown[j] \in BOOLEAN /\ j \notin handled
        BY <1>3, <3>1
      <4>2. StepOpen(parts', stepsOpen', j) = StepOpen(parts, stepsOpen, j) \/ open(j)
        <5>1. j \in DOMAIN stepsOpen <=> j \in DOMAIN stepsOpen'
          BY <1>4, <4>1
        <5>2. CASE j \in DOMAIN stepsOpen
          BY <1>4, <4>1, <5>2 DEF StepOpen
        <5>3. CASE j \notin DOMAIN stepsOpen
          BY <3>0, <1>10, <5>1, <5>3 DEF StepOpen, AutoOpen
        <5> QED BY <5>2, <5>3
      <4>3. ~new(j)
        BY <1>9, <1>10
      <4>4. shown[j]
        BY <3>1, <4>1, <4>2, <4>3
      <4> QED BY <1>1, <3>1, <4>4
    <3>2. CASE j \notin flipped /\ j \in chosen.closed
      BY <1>1, <3>2
    <3>3. CASE j \notin flipped /\ j \notin chosen.closed
      <4>1. shown[j] \/ (j \notin DOMAIN stepsOpen /\ j \notin toggled /\ parts[j].state # "failed")
        BY <2>2, <3>0, <3>3 DEF StepsKept
      <4>2. ~new(j) /\ old(j) = shown[j]
        BY <1>3, <1>9, <1>10, <2>2, <3>3
      <4>3. open(j) = StepOpen(parts, stepsOpen, j) \/ open(j) \/ (j \in handled /\ open(j) = shown[j])
        <5>1. CASE j \in handled
          BY <1>4, <5>1 DEF StepOpen
        <5>2. CASE j \notin handled /\ j \in DOMAIN stepsOpen
          BY <1>4, <5>2 DEF StepOpen
        <5>3. CASE j \notin handled /\ j \notin DOMAIN stepsOpen
          BY <1>4, <1>10, <3>0, <5>3 DEF StepOpen, AutoOpen
        <5> QED BY <5>1, <5>2, <5>3
      <4>4. ~shown[j]
        BY <2>2, <4>2, <4>3
      <4>5. j \notin DOMAIN stepsOpen /\ j \notin toggled /\ parts[j].state # "failed"
        BY <4>1, <4>4
      <4>6. j \notin handled /\ j \notin DOMAIN stepsOpen'
        BY <1>4, <4>5
      <4>7. open(j) = AutoOpen(parts'[j]) /\ StepOpen(parts, stepsOpen, j) = AutoOpen(parts[j])
        BY <4>5, <4>6 DEF StepOpen
      <4>8. parts'[j].state # "failed"
        BY <1>10, <3>0, <4>2, <4>5, <4>7 DEF AutoOpen
      <4>9. new(j) = old(j)
        BY <1>3, <1>9, <2>2, <4>2, <4>4
      <4> HIDE DEF new, old
      <4>10. j \notin toggled'
        BY <1>1, <3>3, <4>5, <4>9
      <4> QED BY <4>6, <4>8, <4>10
    <3> QED BY <3>1, <3>2, <3>3
  <2> QED BY <2>1, <2>2
<1> HIDE DEF new, old
<1> QED BY <1>2, <1>4, <1>5, <1>9, <1>10 DEF StepsKept

LEMMA TranscriptInitInv == TranscriptInit => TranscriptInv
BY DEF TranscriptInit, TranscriptInv, ChoicesKept, StepsKept

(* A render after the parts grew or settled, or after the reader's click.  *)
LEMMA RenderKeeps ==
  ASSUME TranscriptInv, parts' \in Seq(Part), Later(parts, parts'), Len(parts') <= Len(parts) + 1,
         NEW overridden, NEW flipped, NEW handled, Render(overridden, flipped, handled),
         \A i \in DOMAIN panelsOpen' :
           i \in DOMAIN panelsOpen \/ (i \in DOMAIN ToSegments(parts) /\ parts' = parts),
         handled \subseteq toggled, DOMAIN overridden = handled,
         \A j \in handled : overridden[j] = shown[j],
         flipped \subseteq DOMAIN shown, flipped = {} \/ handled = {}
  PROVE  TranscriptInv'
<1>1. ChoicesKept'
  BY RenderKeepsChoices
<1>2. StepsKept'
  BY RenderKeepsSteps DEF TranscriptInv
<1> QED BY <1>1, <1>2 DEF TranscriptInv

LEMMA TranscriptNextInv == TranscriptInv /\ [TranscriptNext]_transcriptVars => TranscriptInv'
<1> SUFFICES ASSUME TranscriptInv, [TranscriptNext]_transcriptVars PROVE TranscriptInv'
  OBVIOUS
<1>0. /\ parts \in Seq(Part) /\ DOMAIN parts = 1..Len(parts) /\ Len(parts) \in Nat
      /\ Len(parts) <= Len(parts) + 1 /\ Later(parts, parts)
  BY DEF TranscriptInv, Later
<1>1. ASSUME NEW kind \in PartKind, AppendPart(kind) PROVE TranscriptInv'
  <2> DEFINE part == [kind |-> kind,
                      state |-> IF kind \in {"reasoning", "tool"} THEN "running" ELSE "done"]
  <2>1. parts' = Append(parts, part) /\ panelsOpen' = panelsOpen /\ Render(<<>>, {}, {})
    BY <1>1 DEF AppendPart
  <2>2. part \in Part
    BY DEF Part
  <2> HIDE DEF part
  <2>3. /\ parts' \in Seq(Part) /\ Len(parts') = Len(parts) + 1 /\ DOMAIN parts' = 1..Len(parts) + 1
        /\ \A j \in DOMAIN parts : parts'[j] = parts[j]
    BY <1>0, <2>1, <2>2
  <2>4. Later(parts, parts') /\ Len(parts') <= Len(parts) + 1
    BY <2>3 DEF Later
  <2>5. parts' \in Seq(Part) /\ Render(<<>>, {}, {})
    BY <2>1, <2>3
  <2> QED BY <2>1, <2>4, <2>5, RenderKeeps
<1>2. ASSUME NEW j \in DOMAIN parts, SettlePart(j) PROVE TranscriptInv'
  <2>1. PICK state \in {"done", "failed"} : parts' = [parts EXCEPT ![j].state = state]
    BY <1>2 DEF SettlePart
  <2>2. panelsOpen' = panelsOpen /\ Render(<<>>, {}, {}) /\ parts[j].state = "running"
    BY <1>2 DEF SettlePart, IsRunning
  <2>3. parts[j] \in Part
    BY <1>0
  <2>4. /\ [parts[j] EXCEPT !.state = state] \in Part
        /\ [parts[j] EXCEPT !.state = state].kind = parts[j].kind
    BY <2>3 DEF Part
  <2>5. /\ parts' \in Seq(Part) /\ Len(parts') = Len(parts) /\ DOMAIN parts' = DOMAIN parts
        /\ \A k \in DOMAIN parts : k # j => parts'[k] = parts[k]
        /\ parts'[j] = [parts[j] EXCEPT !.state = state]
    BY <1>0, <2>1, <2>4
  <2>6. Later(parts, parts') /\ Len(parts') <= Len(parts) + 1
    BY <1>0, <2>2, <2>4, <2>5 DEF Later
  <2>7. parts' \in Seq(Part) /\ Render(<<>>, {}, {})
    BY <2>2, <2>5
  <2> QED BY <2>2, <2>6, <2>7, RenderKeeps
<1>3. ASSUME NEW i \in DOMAIN ToSegments(parts), TogglePanel(i) PROVE TranscriptInv'
  <2>1. parts' = parts /\ DOMAIN panelsOpen' = DOMAIN panelsOpen \cup {i} /\ Render(<<>>, {}, {})
    BY <1>3 DEF TogglePanel
  <2> QED BY <1>0, <2>1, RenderKeeps
<1>4. ASSUME NEW j \in DOMAIN parts, ToggleStep(j) PROVE TranscriptInv'
  <2>1. /\ parts' = parts /\ panelsOpen' = panelsOpen /\ {j} \subseteq DOMAIN shown
        /\ Render(<<>>, {j}, {})
    BY <1>4 DEF ToggleStep
  <2> QED BY <1>0, <2>1, RenderKeeps
<1>5. ASSUME NEW j \in DOMAIN parts, HandleToggle(j) PROVE TranscriptInv'
  <2>1. /\ parts' = parts /\ panelsOpen' = panelsOpen /\ {j} \subseteq toggled
        /\ Render([k \in {j} |-> shown[j]], {}, {j})
    BY <1>5 DEF HandleToggle
  <2> QED BY <1>0, <2>1, RenderKeeps
<1>6. CASE Revisit
  <2>1. /\ parts' = parts /\ panelsOpen' = <<>> /\ stepsOpen' = <<>>
        /\ shown' = [j \in MountedSteps(parts, <<>>) |-> AutoOpen(parts[j])]
        /\ toggled' = {j \in MountedSteps(parts, <<>>) : AutoOpen(parts[j])}
    BY <1>6 DEF Revisit
  <2>2. ChoicesKept'
    BY <2>1 DEF ChoicesKept
  <2>3. MountedSteps(parts, <<>>) \subseteq DOMAIN parts
    BY <1>0, MountedArePresent
  <2>4. StepsKept'
    BY <2>1, <2>3 DEF StepsKept, AutoOpen
  <2> QED BY <2>1, <2>2, <2>4 DEF TranscriptInv
<1>7. CASE UNCHANGED transcriptVars
  BY <1>7 DEF transcriptVars, TranscriptInv, ChoicesKept, StepsKept
<1> QED BY <1>1, <1>2, <1>3, <1>4, <1>5, <1>6, <1>7 DEF TranscriptNext

(* Whatever streams in and whatever the reader clicks meanwhile, for any   *)
(* number of parts: steps share a panel exactly when no prose is between   *)
(* them, what the reader chose of a panel stays with its steps, and a      *)
(* failed step is open unless the reader closed it.                        *)
THEOREM TranscriptIsKept == TranscriptSpec => []TranscriptKept
<1>1. TranscriptInv => TranscriptKept
  <2> SUFFICES ASSUME TranscriptInv PROVE TranscriptKept
    OBVIOUS
  <2>1. DOMAIN parts = 1..Len(parts) /\ Len(parts) \in Nat
    BY DEF TranscriptInv
  <2> DEFINE segments == ToSegments(parts)
  <2>2. /\ \A j \in 1..Len(parts) : \E i \in DOMAIN segments : j \in segments[i].parts
        /\ \A i \in DOMAIN segments : \A j, k \in segments[i].parts :
             j < k => SameRun(parts, j, k)
        /\ \A j, k \in 1..Len(parts) : j < k /\ SameRun(parts, j, k) =>
             \E i \in DOMAIN segments : j \in segments[i].parts /\ k \in segments[i].parts
    BY <2>1, SegmentsOfParts DEF Grouped
  <2>3. \A j, k \in DOMAIN parts : SameRun(parts, j, k) <=>
          /\ IsActivityPart(parts[j]) /\ IsActivityPart(parts[k])
          /\ \A between \in j..k : ~Prose(between)
    BY DEF SameRun, NoProse, EndsRun, Prose
  <2> HIDE DEF segments
  <2>4. \A j \in DOMAIN parts : \E i \in DOMAIN segments : {j, j} \subseteq segments[i].parts
    BY <2>2
  <2>5. \A j, k \in DOMAIN parts : j < k =>
          ((\E i \in DOMAIN segments : {j, k} \subseteq segments[i].parts) <=>
             SameRun(parts, j, k))
    BY <2>2
  <2>6. PanelsHoldTheirRun
    BY <2>3, <2>4, <2>5 DEF PanelsHoldTheirRun, TranscriptInv, ChoicesKept, segments
  <2>7. FailuresOpen
    BY DEF FailuresOpen, TranscriptInv, StepsKept
  <2> QED BY <2>6, <2>7 DEF TranscriptKept
<1> QED BY <1>1, TranscriptInitInv, TranscriptNextInv, PTL DEF TranscriptSpec

=============================================================================
