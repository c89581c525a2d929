---------------------------- MODULE SettingsLists ----------------------------
(***************************************************************************)
(* Two lists of the settings dialog with an editor in the row: API keys    *)
(* (apiKeySettings.tsx) and connections (connectionSettings.tsx).  A list  *)
(* keeps one draft, one savingId, one dialog of each kind and one pending  *)
(* flag for all its rows; answers come while another row is edited, after  *)
(* a dialog was cancelled, or when another tab of the settings is shown.   *)
(* A typed secret is known by the row it was typed for.  A list is read    *)
(* again after each change: the copy shown is the list itself.             *)
(***************************************************************************)
EXTENDS Naturals, FiniteSets

CONSTANTS
  Row,          \* connections of the user, present and future
  ApiKey,       \* the keys the server may mint
  MaxInFlight,  \* requests under way at one time, a bound
  NoRow

ASSUME ListsAssumption ==
  /\ IsFiniteSet(Row) /\ IsFiniteSet(ApiKey) /\ Row \cap ApiKey = {}
  /\ MaxInFlight \in Nat /\ NoRow \notin Row \cup ApiKey

VARIABLES
  panelTab,   \* the tab of the settings: the other list is unmounted
  editor,     \* editingId, the draft and savingId of the list shown
  overlays,   \* the dialogs of the list shown, and their pending flags
  status,     \* of each row and key on the server
  vault,      \* for each connection, the row whose secret is stored with it
  requests    \* POST, PATCH and DELETE requests in flight

listVars == <<panelTab, editor, overlays, status, vault, requests>>

NoEditor == [row |-> NoRow, name |-> "same", secret |-> NoRow, saving |-> NoRow]
NoDialogs == [creating |-> FALSE, createPending |-> FALSE, shown |-> NoRow,
              removing |-> NoRow, removePending |-> FALSE]

ListsInit ==
  /\ panelTab \in {"connections", "keys"} /\ editor = NoEditor /\ overlays = NoDialogs
  /\ \E kept \in SUBSET Row :
       status = [r \in Row \cup ApiKey |-> IF r \in kept THEN "enabled" ELSE "none"]
  /\ vault = [r \in Row |-> r] /\ requests = {}

OfTab == IF panelTab = "connections" THEN Row ELSE ApiKey

Exists == {"enabled", "disabled"}
Listed == {r \in OfTab : status[r] \in Exists}

(* A dialog makes the rest of the page inert; the key shown once is on top. *)
NothingOver == ~overlays.creating /\ overlays.removing = NoRow /\ overlays.shown = NoRow

(* The other tab: state that was not saved is gone, answers on their way   *)
(* find nobody.                                                            *)
SwitchTab ==
  /\ NothingOver
  /\ panelTab' = IF panelTab = "keys" THEN "connections" ELSE "keys"
  /\ editor' = NoEditor /\ overlays' = NoDialogs
  /\ requests' = {[q EXCEPT !.mine = FALSE] : q \in requests}
  /\ UNCHANGED <<status, vault>>

-----------------------------------------------------------------------------
(* The editor in the row.                                                  *)

Edits == NothingOver /\ UNCHANGED <<panelTab, overlays, status, vault>>

(* A variation: the secret field keeps what was typed for another row. *)
KeepsSecret(r) == [editor EXCEPT !.row = r, !.name = "same"]

(* startEditing: every field of the draft is that of the row.              *)
Draft(r) == [editor EXCEPT !.row = r, !.name = "same", !.secret = NoRow]

StartEditing(r) ==
  /\ r \in Listed /\ editor.row # r /\ editor' = Draft(r)
  /\ Edits /\ UNCHANGED requests

TypeName ==
  /\ editor.row \in Listed
  /\ \E name \in {"same", "new", "invalid"} : editor' = [editor EXCEPT !.name = name]
  /\ Edits /\ UNCHANGED requests

TypeSecret ==
  /\ editor.row \in Listed \cap Row /\ editor' = [editor EXCEPT !.secret = editor.row]
  /\ Edits /\ UNCHANGED requests

CancelEditing ==
  /\ editor.row \in Listed /\ editor' = [editor EXCEPT !.row = NoRow]
  /\ Edits /\ UNCHANGED requests

Send(verb, r, secret) ==
  /\ Cardinality(requests) < MaxInFlight
  /\ requests' = requests \cup {[verb |-> verb, row |-> r, secret |-> secret, mine |-> TRUE]}

(* Only what changed is sent, and nothing when nothing did.                *)
SendDraft ==
  IF editor.name = "same" /\ editor.secret = NoRow
    THEN editor' = [editor EXCEPT !.row = NoRow] /\ UNCHANGED requests
    ELSE /\ editor' = [editor EXCEPT !.saving = editor.row]
         /\ Send("save", editor.row, editor.secret)

SaveConnection ==
  /\ editor.row \in Listed \cap Row /\ editor.saving # editor.row
  /\ editor.name # "invalid"
  /\ Edits /\ SendDraft

(* The fields of a key are not in a form: only the server refuses a name.  *)
SaveKey ==
  /\ editor.row \in Listed \cap ApiKey /\ editor.saving # editor.row
  /\ Edits /\ SendDraft

(* The switch of a key; nothing holds back a second click.                 *)
ToggleKey(k) ==
  /\ k \in Listed \cap ApiKey /\ editor.row # k
  /\ Send(IF status[k] = "enabled" THEN "disable" ELSE "enable", k, NoRow)
  /\ Edits /\ UNCHANGED editor

-----------------------------------------------------------------------------
(* The overlays: creation and removal.  Both may be cancelled while their   *)
(* request is under way, and opened again with the submission disabled.    *)

Dialogs(changed) == overlays' = changed /\ UNCHANGED <<panelTab, editor, status, vault>>

OpenForm ==
  /\ NothingOver /\ Dialogs([overlays EXCEPT !.creating = TRUE]) /\ UNCHANGED requests

CloseForm ==
  /\ overlays.creating /\ Dialogs([overlays EXCEPT !.creating = FALSE]) /\ UNCHANGED requests

(* The form is remounted when it opens: its secret was typed for this row. *)
Submit(r, secret) ==
  /\ overlays.creating /\ ~overlays.createPending
  /\ status[r] = "none" /\ \A q \in requests : q.row # r
  /\ Send("create", r, secret) /\ Dialogs([overlays EXCEPT !.createPending = TRUE])

CreateConnection(r) == panelTab = "connections" /\ Submit(r, r)

CreateKey(k) == panelTab = "keys" /\ Submit(k, NoRow)

AcknowledgeKey ==
  /\ overlays.shown # NoRow /\ Dialogs([overlays EXCEPT !.shown = NoRow]) /\ UNCHANGED requests

AskRemoval(r) ==
  /\ NothingOver /\ r \in Listed /\ editor.row # r
  /\ Dialogs([overlays EXCEPT !.removing = r]) /\ UNCHANGED requests

CancelRemoval ==
  /\ overlays.removing # NoRow /\ overlays.shown = NoRow
  /\ Dialogs([overlays EXCEPT !.removing = NoRow]) /\ UNCHANGED requests

ConfirmRemoval ==
  /\ overlays.removing # NoRow /\ overlays.shown = NoRow /\ ~overlays.removePending
  /\ Send("delete", overlays.removing, NoRow)
  /\ Dialogs([overlays EXCEPT !.removePending = TRUE])

-----------------------------------------------------------------------------
(* Answers.  `heard` is what the client is told: a change that was made    *)
(* may be answered as an error.                                            *)

Becomes(q) ==
  CASE q.verb \in {"create", "enable"} -> "enabled"
    [] q.verb = "disable" -> "disabled"
    [] q.verb = "delete" -> "gone"
    [] q.verb = "save" -> status[q.row]

(* The answer closes whichever editor is open by then.                     *)
AfterSave(heard) ==
  [editor EXCEPT !.saving = NoRow, !.row = IF heard THEN NoRow ELSE @]

(* ... and whichever form; the key is shown even if its form was cancelled. *)
AfterCreate(q, heard) ==
  [overlays EXCEPT !.createPending = FALSE,
                  !.creating = IF heard THEN FALSE ELSE @,
                  !.shown = IF heard /\ q.row \in ApiKey THEN q.row ELSE @]

AfterRemoval == [overlays EXCEPT !.removePending = FALSE, !.removing = NoRow]

Settled(q, heard) ==
  /\ editor' = IF q.mine /\ q.verb = "save" THEN AfterSave(heard) ELSE editor
  /\ overlays' = CASE q.mine /\ q.verb = "create" -> AfterCreate(q, heard)
                  [] q.mine /\ q.verb = "delete" -> AfterRemoval
                  [] OTHER -> overlays

Answered(q) ==
  LET found == q.verb = "create" \/ status[q.row] \in Exists IN
  /\ q \in requests /\ requests' = requests \ {q}
  /\ \E done \in {found, FALSE}, heard \in BOOLEAN :
       /\ heard => done
       /\ status' = IF done THEN [status EXCEPT ![q.row] = Becomes(q)] ELSE status
       /\ vault' = IF done /\ q.secret # NoRow THEN [vault EXCEPT ![q.row] = q.secret]
                   ELSE vault
       /\ Settled(q, heard)
  /\ UNCHANGED panelTab

ListsNext ==
  \/ SwitchTab \/ TypeName \/ TypeSecret \/ CancelEditing \/ SaveConnection \/ SaveKey
  \/ OpenForm \/ CloseForm \/ AcknowledgeKey \/ CancelRemoval \/ ConfirmRemoval
  \/ \E r \in Row \cup ApiKey : StartEditing(r) \/ AskRemoval(r)
  \/ \E r \in Row : CreateConnection(r)
  \/ \E k \in ApiKey : CreateKey(k) \/ ToggleKey(k)
  \/ \E q \in requests : Answered(q)

ListsSpec == ListsInit /\ [][ListsNext]_listVars

-----------------------------------------------------------------------------
(* A secret is stored with the row it was typed for: not with the row that *)
(* was edited next, nor by an answer that comes late (startEditing, save). *)
SecretGoesToItsRow == \A r \in Row : vault[r] = r

=============================================================================
