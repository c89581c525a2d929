---------------------------- MODULE ProfilePhoto -----------------------------
(***************************************************************************)
(* The photo of a user: a column that names a stored file or holds a URL,  *)
(* and the files in R2 (profileSettings.tsx, lib/auth.ts).  A tab uploads  *)
(* a photo, looks up its id, points the column at it and then deletes the  *)
(* photo that was there; the form of the profile writes the column too,    *)
(* from a draft; deleting the account deletes the files first.             *)
(***************************************************************************)
EXTENDS FiniteSets

CONSTANTS
  ProfileTab,
  Photo,       \* ids of stored files
  NoFile       \* any image that is no stored file: none, or an external URL

ASSUME PhotoAssumption == NoFile \notin Photo /\ IsFiniteSet(Photo) /\ Photo # {}

VARIABLES
  account,    \* "live", "emptied" while it is being deleted, "deleted"
  image,      \* users.image
  photos,     \* the files that are stored
  rendered,   \* session.user.image of each tab
  form,       \* the profile form of each tab: its draft of the image
  change,     \* changePhoto of each tab
  cleaning,   \* replaced files whose deletion is on its way, from any tab
  behind      \* history: what broke the promise of the column, if anything

photoVars == <<account, image, photos, rendered, form, change, cleaning, behind>>

Idle == [stage |-> "idle", new |-> NoFile, previous |-> NoFile, editing |-> FALSE]
Closed == [stage |-> "closed", image |-> NoFile]

PhotoInit ==
  /\ account = "live"
  /\ image \in {CHOOSE p \in Photo : TRUE, NoFile}
  /\ photos = {image} \ {NoFile}
  /\ rendered = [t \in ProfileTab |-> image]
  /\ form = [t \in ProfileTab |-> Closed]
  /\ change = [t \in ProfileTab |-> Idle]
  /\ cleaning = {} /\ behind = FALSE

Step(t, stage) == change' = [change EXCEPT ![t].stage = stage]

(* The session is read again, after an update or when a window regains focus. *)
RefreshSession(t) ==
  /\ rendered' = [rendered EXCEPT ![t] = image]
  /\ UNCHANGED <<account, image, photos, form, change, cleaning, behind>>

-----------------------------------------------------------------------------
(* changePhoto, with what its closure holds: the image shown and whether   *)
(* the form was open.  The picker is disabled until it ends.               *)
ChangePhoto(t) ==
  /\ account = "live" /\ change[t].stage = "idle"
  /\ change' = [change EXCEPT ![t] =
       [stage |-> "upload", new |-> NoFile, previous |-> rendered[t],
        editing |-> form[t].stage # "closed"]]
  /\ UNCHANGED <<account, image, photos, rendered, form, cleaning, behind>>

Fresh(p) == p \notin photos \cup cleaning \cup {image} /\ \A t \in ProfileTab :
              p \notin {change[t].new, change[t].previous, form[t].image, rendered[t]}

UploadPhoto(t) ==
  /\ change[t].stage = "upload"
  /\ \/ LET p == CHOOSE p \in Photo : Fresh(p) IN
          /\ \E q \in Photo : Fresh(q)
          /\ photos' = photos \cup {p}
          /\ change' = [change EXCEPT ![t].stage = "resolve", ![t].new = p]
     \/ change' = [change EXCEPT ![t] = Idle] /\ UNCHANGED photos
  /\ UNCHANGED <<account, image, rendered, form, cleaning, behind>>

(* resolveFileId: when the listing fails the upload stays, unused.         *)
ResolveFileId(t) ==
  /\ change[t].stage = "resolve"
  /\ \/ Step(t, "update")
     \/ change' = [change EXCEPT ![t] = Idle]
  /\ UNCHANGED <<account, image, photos, rendered, form, cleaning, behind>>

(* A variation: the old file goes before the answer to the update is seen. *)
CleansAnyway(t, updated, answered) == TRUE

Cleans(t, updated, answered) == answered

(* updateUser: done and answered, done with the answer lost, or not done.  *)
PointImage(t) ==
  /\ change[t].stage = "update"
  /\ \E updated, answered \in BOOLEAN :
       /\ answered => updated
       /\ updated => account # "deleted"
       /\ image' = IF updated THEN change[t].new ELSE image
       /\ form' = IF answered /\ change[t].editing
                    THEN [form EXCEPT ![t].image = change[t].new] ELSE form
       /\ cleaning' = IF Cleans(t, updated, answered)
                         THEN cleaning \cup ({change[t].previous} \ {NoFile}) ELSE cleaning
  /\ change' = [change EXCEPT ![t] = Idle]
  /\ UNCHANGED <<account, photos, rendered, behind>>

(* Best effort, and only for a file: its failure is ignored.  The picker   *)
(* is open again, so later changes do not wait for it.                     *)
CleanPrevious(p) ==
  /\ p \in cleaning /\ cleaning' = cleaning \ {p}
  /\ photos' \in {photos, photos \ {p}}
  /\ UNCHANGED <<account, image, rendered, form, change, behind>>

-----------------------------------------------------------------------------
(* The form of the profile: name and image are written together.           *)

EditProfile(t) ==
  /\ form[t].stage = "closed"
  /\ form' = [form EXCEPT ![t] = [stage |-> "open", image |-> rendered[t]]]
  /\ UNCHANGED <<account, image, photos, rendered, change, cleaning, behind>>

TypeImage(t) ==
  /\ form[t].stage = "open"
  /\ form' = [form EXCEPT ![t].image = NoFile]
  /\ UNCHANGED <<account, image, photos, rendered, change, cleaning, behind>>

CancelProfile(t) ==
  /\ form[t].stage = "open" /\ form' = [form EXCEPT ![t] = Closed]
  /\ UNCHANGED <<account, image, photos, rendered, change, cleaning, behind>>

(* saveProfile sends the draft as it is, whatever the column holds by now. *)
SaveProfile(t) ==
  /\ form[t].stage = "open" /\ account # "deleted"
  /\ \/ image' = form[t].image
     \/ UNCHANGED image
  /\ behind' = (behind \/ (image' # image /\ image' \in Photo))
  /\ form' \in {form, [form EXCEPT ![t] = Closed]}
  /\ UNCHANGED <<account, photos, rendered, change, cleaning>>

-----------------------------------------------------------------------------
(* deleteUser: beforeDelete empties the user's prefix, then the row goes,  *)
(* unless that fails.                                                      *)
BeforeDelete ==
  /\ account = "live" /\ account' = "emptied" /\ photos' = {}
  /\ UNCHANGED <<image, rendered, form, change, cleaning, behind>>

DeleteUser ==
  /\ account = "emptied"
  /\ \/ account' = "deleted" /\ UNCHANGED behind
     \/ account' = "live" /\ behind' = TRUE
  /\ UNCHANGED <<image, photos, rendered, form, change, cleaning>>

PhotoNext ==
  \/ BeforeDelete \/ DeleteUser \/ \E p \in cleaning : CleanPrevious(p)
  \/ \E t \in ProfileTab :
       \/ RefreshSession(t) \/ ChangePhoto(t) \/ UploadPhoto(t) \/ ResolveFileId(t)
       \/ PointImage(t)
       \/ EditProfile(t) \/ TypeImage(t) \/ CancelProfile(t) \/ SaveProfile(t)

PhotoSpec == PhotoInit /\ [][PhotoNext]_photoVars

-----------------------------------------------------------------------------
(* The photo of a live account is a file that is stored, whatever calls    *)
(* fail and tabs cross, with two exceptions: a form saved after the photo  *)
(* it was opened with was replaced, and a deletion of the account that     *)
(* failed half way (changePhoto, saveProfile, beforeDelete).               *)
ImageStored ==
  (account = "live" /\ image \in Photo /\ ~behind) => image \in photos

=============================================================================
