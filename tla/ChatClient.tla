----------------------------- MODULE ChatClient -----------------------------
(***************************************************************************)
(* The chat screens of one browser tab: the home page that starts a        *)
(* conversation (chat/index.tsx), the page of one conversation             *)
(* (chat/$sessionId.tsx), the composer and the upload of attachments.      *)
(* Every await is a point where the user may type, send again, leave or    *)
(* reload; an answer may be lost after the server did what was asked.      *)
(***************************************************************************)
EXTENDS Naturals, Sequences, FiniteSets

CONSTANTS
  Conversation,  \* the ids the server mints
  Text,          \* what the user writes
  Picked,        \* the files the user may attach
  Slot,          \* asynchronous sends under way at one time
  MaxStream,     \* messages of one conversation
  Home, Nothing

(* What the composer sends. *)
Body == [text : Text, files : SUBSET Picked]

ASSUME ChatAssumption ==
  /\ IsFiniteSet(Slot) /\ MaxStream \in Nat
  /\ Home \notin Conversation /\ Nothing \notin Text /\ Nothing \notin Body

VARIABLES
  screen,    \* Home, or the conversation shown
  page,      \* the state of the mounted page, gone when another is shown
  send,      \* the sends under way, mine while their page is mounted
  created,   \* the conversations that exist
  uploaded,  \* the files stored, by conversation
  pending,   \* sessionStorage: the opening message to be sent again, or Nothing
  stream,    \* the messages the agent admitted
  running,   \* the conversations whose agent works
  fate       \* what became of the opening message, a history variable

chatVars == <<screen, page, send, created, uploaded, pending, stream, running, fate>>

NoSend == [kind |-> "none", stage |-> "none", conv |-> Home, mine |-> FALSE,
           body |-> [text |-> Nothing, files |-> {}]]

(* useState of ChatHome and ChatSession: keyed on the conversation, a page *)
(* starts from clean state.                                                *)
CleanPage == [draft |-> Nothing, files |-> {}, starting |-> FALSE, ready |-> FALSE,
              sentPending |-> FALSE, abortRequested |-> FALSE, failed |-> {}]

ChatInit ==
  /\ screen = Home /\ page = CleanPage
  /\ send = [s \in Slot |-> NoSend]
  /\ created = {}
  /\ uploaded = [c \in Conversation |-> {}]
  /\ pending = [c \in Conversation |-> Nothing]
  /\ stream = [c \in Conversation |-> <<>>]
  /\ running = {}
  /\ fate = [c \in Conversation |-> "unwritten"]

Show(target) ==
  /\ screen' = target
  /\ IF target = screen THEN UNCHANGED page ELSE page' = CleanPage

Orphaned(sends, target) ==
  [s \in Slot |-> IF target = screen THEN sends[s] ELSE [sends[s] EXCEPT !.mine = FALSE]]

-----------------------------------------------------------------------------
(* The composer.                                                           *)

Working == screen \in running

Aborting == page.abortRequested /\ Working

ComposerIdle == IF screen = Home THEN ~page.starting ELSE ~Working

Write(t) ==
  /\ page.draft = Nothing /\ page' = [page EXCEPT !.draft = t]
  /\ UNCHANGED <<screen, send, created, uploaded, pending, stream, running, fate>>

(* FilePicker, disabled while the page is busy: a second pick of the same  *)
(* file is the same file.                                                  *)
PickFile(f) ==
  /\ ComposerIdle
  /\ page' = [page EXCEPT !.files = @ \cup {f}]
  /\ UNCHANGED <<screen, send, created, uploaded, pending, stream, running, fate>>

UnpickFile(f) ==
  /\ page' = [page EXCEPT !.files = @ \ {f}]
  /\ UNCHANGED <<screen, send, created, uploaded, pending, stream, running, fate>>

(* A link of the sidebar or of the browser; what is under way goes on.     *)
Open(target) ==
  /\ target # screen /\ target \in {Home} \cup created
  /\ Show(target) /\ send' = Orphaned(send, target)
  /\ UNCHANGED <<created, uploaded, pending, stream, running, fate>>

(* The page is loaded anew: no promise survives it, sessionStorage does.   *)
Reload ==
  /\ page' = CleanPage
  /\ send' = [s \in Slot |-> NoSend]
  /\ fate' = [c \in Conversation |->
       IF /\ fate[c] # "answer lost"
          /\ \E s \in Slot : send[s].conv = c /\ send[s].kind \in {"opening", "fallback"}
         THEN "interrupted" ELSE fate[c]]
  /\ UNCHANGED <<screen, created, uploaded, pending, stream, running>>

-----------------------------------------------------------------------------
(* startChat: create, upload, send, navigate.                              *)

StartChat(s, c, t) ==
  /\ screen = Home /\ ~page.starting
  /\ send[s] = NoSend /\ fate[c] = "unwritten"
  /\ page' = [page EXCEPT !.starting = TRUE]
  /\ send' = [send EXCEPT ![s] = [kind |-> "opening", stage |-> "creating", conv |-> c,
                                  mine |-> TRUE, body |-> [text |-> t, files |-> page.files]]]
  /\ fate' = [fate EXCEPT ![c] = "started"]
  /\ UNCHANGED <<screen, created, uploaded, pending, stream, running>>

Drop(s) == send' = [send EXCEPT ![s] = NoSend]

(* The catch of startChat: the page may be used again, and what the server *)
(* did so far stays.                                                       *)
StartFails(s) ==
  /\ Drop(s)
  /\ IF send[s].mine THEN page' = [page EXCEPT !.starting = FALSE] ELSE UNCHANGED page
  /\ fate' = [fate EXCEPT ![send[s].conv] = "refused"]

(* POST /conversations: the row may exist although the answer is an error. *)
Create(s) ==
  /\ send[s].stage = "creating"
  /\ \/ /\ created' = created \cup {send[s].conv}
        /\ send' = [send EXCEPT ![s].stage = "uploading"]
        /\ UNCHANGED <<page, fate>>
     \/ /\ created' \in {created, created \cup {send[s].conv}}
        /\ StartFails(s)
  /\ UNCHANGED <<screen, uploaded, pending, stream, running>>

(* uploadFiles: one PUT per file, all awaited together; when one fails the *)
(* others may have been stored.                                            *)
Upload(s) ==
  LET c == send[s].conv IN
  /\ send[s].stage = "uploading"
  /\ \/ /\ uploaded' = [uploaded EXCEPT ![c] = @ \cup send[s].body.files]
        /\ send' = [send EXCEPT ![s].stage = "sending"]
        /\ UNCHANGED <<page, fate>>
     \/ /\ send[s].body.files # {}
        /\ \E some \in SUBSET send[s].body.files :
             uploaded' = [uploaded EXCEPT ![c] = @ \cup some]
        /\ \/ send[s].kind = "opening" /\ StartFails(s)
           \/ send[s].kind = "follow" /\ Drop(s) /\ UNCHANGED <<page, fate>>
  /\ UNCHANGED <<screen, created, pending, stream, running>>

(* The agent admits a message: the first one creates the stream.           *)
Admit(s) ==
  LET c == send[s].conv IN
  /\ send[s].stage = "sending" /\ Len(stream[c]) < MaxStream
  /\ stream' = [stream EXCEPT ![c] = Append(@, [kind |-> send[s].kind, body |-> send[s].body])]
  /\ running' = running \cup {c}
  /\ send' = [send EXCEPT ![s].stage = "admitted"]
  /\ UNCHANGED <<screen, page, created, uploaded, pending, fate>>

(* A variation: a failure is only reported. *)
ReportsOnly(c, body) == pending

KeepsForLater(c, body) == [pending EXCEPT ![c] = body]

(* The send of startChat ends: a failure leaves the text to the page of    *)
(* the conversation.  It may be an answer that was lost; a request that    *)
(* failed before the agent admitted it is taken never to arrive later.     *)
OpeningSent(s) ==
  LET c == send[s].conv IN
  /\ send[s].kind = "opening" /\ send[s].stage \in {"sending", "admitted"}
  /\ \/ /\ send[s].stage = "admitted" /\ UNCHANGED pending
        /\ fate' = [fate EXCEPT ![c] = "handed over"]
     \/ /\ pending' = KeepsForLater(c, send[s].body)
        /\ fate' = [fate EXCEPT ![c] =
             IF send[s].stage = "admitted" THEN "answer lost" ELSE "handed over"]
  /\ Show(c)
  /\ send' = Orphaned([send EXCEPT ![s] = NoSend], c)
  /\ UNCHANGED <<created, uploaded, stream, running>>

-----------------------------------------------------------------------------
(* ChatSession.                                                            *)

HistoryReady ==
  /\ screen # Home /\ ~page.ready /\ page' = [page EXCEPT !.ready = TRUE]
  /\ UNCHANGED <<screen, send, created, uploaded, pending, stream, running, fate>>

(* A variation: the key is removed once its send was answered. *)
RemovedAfterSend(c) == pending

RemovedFirst(c) == [pending EXCEPT ![c] = Nothing]

SendPending(s) ==
  /\ screen # Home /\ page.ready /\ ~page.sentPending
  /\ pending[screen] # Nothing /\ send[s] = NoSend
  /\ page' = [page EXCEPT !.sentPending = TRUE]
  /\ pending' = RemovedFirst(screen)
  /\ send' = [send EXCEPT ![s] = [kind |-> "fallback", stage |-> "sending", conv |-> screen,
                                  mine |-> TRUE, body |-> pending[screen]]]
  /\ UNCHANGED <<screen, created, uploaded, stream, running, fate>>

(* Its failure is caught by nobody.                                        *)
PendingSent(s) ==
  /\ send[s].kind = "fallback" /\ send[s].stage \in {"sending", "admitted"}
  /\ Drop(s)
  /\ fate' = [fate EXCEPT ![send[s].conv] = IF send[s].stage = "admitted" THEN @ ELSE "lost"]
  /\ UNCHANGED <<screen, page, created, uploaded, pending, stream, running>>

(* send: nothing but the agent's own work stops a second one.              *)
SendMessage(s) ==
  /\ screen # Home /\ ComposerIdle /\ page.draft # Nothing /\ send[s] = NoSend
  /\ page' = [page EXCEPT !.abortRequested = FALSE]
  /\ send' = [send EXCEPT ![s] = [kind |-> "follow", stage |-> "uploading", conv |-> screen,
                                  mine |-> TRUE, body |-> [text |-> page.draft, files |-> page.files]]]
  /\ UNCHANGED <<screen, created, uploaded, pending, stream, running, fate>>

(* The answer clears whatever the fields hold by now; a failure leaves     *)
(* them, and the SDK offers the message again.                             *)
MessageSent(s) ==
  /\ send[s].kind = "follow" /\ send[s].stage \in {"sending", "admitted"}
  /\ \/ /\ send[s].stage = "admitted"
        /\ IF send[s].mine THEN page' = [page EXCEPT !.draft = Nothing, !.files = {}]
                           ELSE UNCHANGED page
     \/ IF send[s].mine /\ stream[send[s].conv] # <<>>
          THEN page' = [page EXCEPT !.failed = {send[s].body}] ELSE UNCHANGED page
  /\ Drop(s)
  /\ UNCHANGED <<screen, created, uploaded, pending, stream, running, fate>>

RetryFailed(s) ==
  /\ screen # Home /\ send[s] = NoSend
  /\ \E body \in page.failed :
       /\ page' = [page EXCEPT !.failed = @ \ {body}]
       /\ send' = [send EXCEPT ![s] = [kind |-> "follow", stage |-> "sending", conv |-> screen,
                                       mine |-> TRUE, body |-> body]]
  /\ UNCHANGED <<screen, created, uploaded, pending, stream, running, fate>>

(* abort only records the intent; the run settles over the stream.  An     *)
(* answer that nothing was in flight, or an error, clears it again.        *)
Abort ==
  /\ screen # Home /\ Working /\ ~Aborting
  /\ page' = [page EXCEPT !.abortRequested = TRUE]
  /\ UNCHANGED <<screen, send, created, uploaded, pending, stream, running, fate>>

AbortRefused ==
  /\ page.abortRequested /\ page' = [page EXCEPT !.abortRequested = FALSE]
  /\ UNCHANGED <<screen, send, created, uploaded, pending, stream, running, fate>>

(* The button that reconnects to the stream. *)
Reconnect ==
  /\ screen # Home /\ page' = [page EXCEPT !.abortRequested = FALSE]
  /\ UNCHANGED <<screen, send, created, uploaded, pending, stream, running, fate>>

Settle(c) ==
  /\ c \in running /\ running' = running \ {c}
  /\ UNCHANGED <<screen, page, send, created, uploaded, pending, stream, fate>>

ChatNext ==
  \/ \E t \in Text : Write(t)
  \/ \E f \in Picked : PickFile(f) \/ UnpickFile(f)
  \/ \E target \in Conversation \cup {Home} : Open(target)
  \/ Reload \/ HistoryReady \/ Abort \/ AbortRefused \/ Reconnect
  \/ \E c \in Conversation : Settle(c)
  \/ \E s \in Slot :
       \/ \E c \in Conversation, t \in Text \cup {page.draft} : t # Nothing /\ StartChat(s, c, t)
       \/ Create(s) \/ Upload(s) \/ Admit(s) \/ OpeningSent(s) \/ SendPending(s)
       \/ PendingSent(s) \/ SendMessage(s) \/ MessageSent(s) \/ RetryFailed(s)

ChatSpec == ChatInit /\ [][ChatNext]_chatVars

-----------------------------------------------------------------------------
Openings(c) == {i \in DOMAIN stream[c] : stream[c][i].kind \in {"opening", "fallback"}}

(* Once startChat has handed its message over, it is in the transcript, in *)
(* sessionStorage, or on its way a second time: only the second send       *)
(* itself, or a reload during it, can lose it.                             *)
OpeningCovered ==
  \A c \in Conversation :
    fate[c] = "handed over" =>
      \/ Openings(c) # {}
      \/ pending[c] # Nothing
      \/ \E s \in Slot : send[s].conv = c /\ send[s].kind = "fallback" /\ send[s].stage = "sending"

(* The opening message is admitted once, unless the answer to its first    *)
(* send was lost: then the page sends again what the agent has.            *)
OpeningSentOnce ==
  \A c \in Conversation : fate[c] # "answer lost" => Cardinality(Openings(c)) <= 1

=============================================================================
