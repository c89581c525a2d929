---------------------------- MODULE MCWebClient -----------------------------
(* Screens of the web client with the services behind them.  `part` says   *)
(* which of the six models moves: they share no state, so their states add *)
(* up instead of multiplying.                                              *)
EXTENDS ChatClient, Transcript, ConversationFiles, SettingsLists, ProfilePhoto,
        AccountSecurity, TLC

CONSTANTS c1, m1, f1, s1, s2, r1, r2, a, b, k1, t1, t2, p1, p2, p3, b1, b2, q1, q2

VARIABLE part

MCKeyOf == (r1 :> 1) @@ (r2 :> 2)

MCInit ==
  /\ part \in {"chat", "transcript", "files", "lists", "photo", "security"}
  /\ ChatInit /\ TranscriptInit /\ FilesInit /\ ListsInit /\ PhotoInit /\ SecurityInit
  /\ part # "photo" => image = NoFile
  /\ part # "lists" => panelTab = "keys" /\ Listed = {} /\ \A r \in Row : status[r] = "none"

MCNext ==
  /\ UNCHANGED part
  /\ \/ /\ part = "chat" /\ ChatNext
        /\ UNCHANGED <<transcriptVars, fileVars, listVars, photoVars, securityVars>>
     \/ /\ part = "transcript" /\ TranscriptNext
        /\ UNCHANGED <<chatVars, fileVars, listVars, photoVars, securityVars>>
     \/ /\ part = "files" /\ FilesNext
        /\ UNCHANGED <<chatVars, transcriptVars, listVars, photoVars, securityVars>>
     \/ /\ part = "lists" /\ ListsNext
        /\ UNCHANGED <<chatVars, transcriptVars, fileVars, photoVars, securityVars>>
     \/ /\ part = "photo" /\ PhotoNext
        /\ UNCHANGED <<chatVars, transcriptVars, fileVars, listVars, securityVars>>
     \/ /\ part = "security" /\ SecurityNext
        /\ UNCHANGED <<chatVars, transcriptVars, fileVars, listVars, photoVars>>

MCSpec == MCInit /\ [][MCNext]_<<part, chatVars, transcriptVars, fileVars, listVars, photoVars,
                                  securityVars>>

(* What ImageStored excepts lasts: nothing is left to see after it.  The   *)
(* profile form is opened in one of the tabs, and one browser at a time    *)
(* shows the security settings.                                            *)
Promised ==
  /\ account # "deleted" /\ ~behind
  /\ form[t2].stage = "closed"
  /\ \E here \in Browser :
       /\ \A other \in Browser \ {here} : dialogs[other] = ClosedPanel
       /\ \A call \in asked : call.from = here

=============================================================================
