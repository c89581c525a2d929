--------------------------- MODULE AccountSecurity ---------------------------
(***************************************************************************)
(* One person, their browsers and the second factor of their account:      *)
(* signing up and in, sessions and their revocation, and the two-step      *)
(* setup of an authenticator, whose calls may still be in flight when its  *)
(* dialog is closed.  Rows and codes are better-auth's; what src/ says of  *)
(* them is all that is used here.                                          *)
(***************************************************************************)
EXTENDS FiniteSets, Naturals

CONSTANTS Browser, Secret, NoSecret, MaxAsked

ASSUME SecurityAssumption == NoSecret \notin Secret

VARIABLES
  person,     \* the rows of the user: e-mail, two-factor secret, twoFactorEnabled
  session,    \* the session behind each browser's cookie
  place,      \* the page each browser shows
  trusted,    \* browsers that passed a challenge (trustDevice)
  heard,      \* twoFactorEnabled as useSession last told each browser
  dialogs,    \* SecuritySettings and its dialogs in each browser
  asked,      \* two-factor calls in flight
  app         \* the secrets in the person's authenticator

securityVars == <<person, session, place, trusted, heard, dialogs, asked, app>>

TwoFactorRow == Secret \cup {NoSecret}
UserRow == [email : {"none", "unverified", "verified"}, enabled : BOOLEAN,
            secret : TwoFactorRow]
SessionRow == {"none", "live", "revoked"}

(* settingUp2fa and the step of its dialog; disabling2fa and its dialog.   *)
ClosedPanel == [settingUp |-> FALSE, step |-> "password", shown |-> NoSecret,
                disabling |-> FALSE, pending |-> FALSE]

SecurityInit ==
  /\ person = [email |-> "none", enabled |-> FALSE, secret |-> NoSecret]
  /\ session = [b \in Browser |-> "none"]
  /\ place = [b \in Browser |-> "signIn"]
  /\ trusted = {}
  /\ heard = [b \in Browser |-> FALSE]
  /\ dialogs = [b \in Browser |-> ClosedPanel]
  /\ asked = {} /\ app = {}

-----------------------------------------------------------------------------
(* submit of sign-up.tsx, which the sign-in page links to and which signs  *)
(* nobody in (requireEmailVerification).                                   *)
SignUp(b) ==
  /\ place[b] = "signIn" /\ person.email = "none"
  /\ person' = [person EXCEPT !.email = "unverified"]
  /\ UNCHANGED <<session, place, trusted, heard, dialogs, asked, app>>

(* The link of the mail, which signs nobody in either.                     *)
FollowLink ==
  /\ person.email = "unverified"
  /\ person' = [person EXCEPT !.email = "verified"]
  /\ UNCHANGED <<session, place, trusted, heard, dialogs, asked, app>>

Enter(b) ==
  /\ session' = [session EXCEPT ![b] = "live"]
  /\ place' = [place EXCEPT ![b] = "shell"]
  /\ heard' = [heard EXCEPT ![b] = person.enabled]

(* submit of sign-in.tsx with the password: a challenge or a session.      *)
SubmitPassword(b) ==
  /\ place[b] = "signIn" /\ person.email = "verified"
  /\ IF person.enabled /\ b \notin trusted
       THEN place' = [place EXCEPT ![b] = "challenge"] /\ UNCHANGED <<session, heard>>
       ELSE Enter(b)
  /\ UNCHANGED <<person, trusted, dialogs, asked, app>>

(* submit with a code, which only a registered authenticator can tell.     *)
SubmitCode(b) ==
  /\ place[b] = "challenge"
  /\ person.enabled /\ person.secret \in app
  /\ Enter(b)
  /\ trusted' = trusted \cup {b}
  /\ UNCHANGED <<person, dialogs, asked, app>>

(* The challenge lives in the page: a reload asks for the password again.  *)
ReloadPage(b) ==
  /\ place[b] = "challenge"
  /\ place' = [place EXCEPT ![b] = "signIn"]
  /\ UNCHANGED <<person, session, trusted, heard, dialogs, asked, app>>

(* The setup dialog goes away: of the calls it had sent only onClose, a    *)
(* function of the settings, is left to run.                               *)
SetupGone(b, calls) ==
  {IF c.from = b /\ c.hears = "dialog" THEN [c EXCEPT !.hears = "settings"] ELSE c : c \in calls}

(* The settings go away with everything in them; the calls are still made. *)
SettingsGone(b, calls) == {IF c.from = b THEN [c EXCEPT !.hears = "nobody"] ELSE c : c \in calls}

(* A call of a session that ends is refused, and nobody is left to hear.   *)
Leave(b) ==
  /\ session' = [session EXCEPT ![b] = "none"]
  /\ place' = [place EXCEPT ![b] = "signIn"]
  /\ heard' = [heard EXCEPT ![b] = FALSE]
  /\ dialogs' = [dialogs EXCEPT ![b] = ClosedPanel]
  /\ asked' = {c \in asked : c.from # b}
  /\ UNCHANGED <<person, trusted, app>>

(* signOut, of the menu or by revoking the session in use.                 *)
SignOut(b) ==
  /\ place[b] = "shell"
  /\ Leave(b)

(* requireAuthenticated, on every navigation.                              *)
RequireAuthenticated(b) ==
  /\ place[b] = "shell" /\ session[b] # "live"
  /\ Leave(b)

(* revoke of the row of another browser.                                   *)
RevokeSession(b, other) ==
  /\ b # other /\ place[b] = "shell"
  /\ session[b] = "live" /\ session[other] = "live"
  /\ session' = [session EXCEPT ![other] = "revoked"]
  /\ UNCHANGED <<person, place, trusted, heard, dialogs, asked, app>>

-----------------------------------------------------------------------------
(* TwoFactorSetupDialog is mounted while this holds.                       *)
Mounted(b) == dialogs[b].settingUp /\ ~heard[b]

(* useSession asks again.  A setup it interrupts loses its step, not       *)
(* settingUp2fa: the dialog comes back once the factor is off.             *)
HearSession(b) ==
  /\ place[b] = "shell"
  /\ heard' = [heard EXCEPT ![b] = session[b] = "live" /\ person.enabled]
  /\ IF heard[b] # heard'[b]
       THEN /\ dialogs' = [dialogs EXCEPT ![b].step = "password", ![b].shown = NoSecret]
            /\ asked' = SetupGone(b, asked)
       ELSE UNCHANGED <<dialogs, asked>>
  /\ UNCHANGED <<person, session, place, trusted, app>>

OpenSetup(b) ==
  /\ place[b] = "shell" /\ ~heard[b]
  /\ ~dialogs[b].settingUp /\ ~dialogs[b].disabling
  /\ dialogs' = [dialogs EXCEPT ![b].settingUp = TRUE]
  /\ UNCHANGED <<person, session, place, trusted, heard, asked, app>>

Unmounted(b) == [dialogs EXCEPT ![b].settingUp = FALSE, ![b].step = "password",
                              ![b].shown = NoSecret]

(* Possible while a call of the dialog is pending.                         *)
CancelSetup(b) ==
  /\ Mounted(b)
  /\ dialogs' = Unmounted(b)
  /\ asked' = SetupGone(b, asked)
  /\ UNCHANGED <<person, session, place, trusted, heard, app>>

(* Another tab of the settings, which unmounts this one, or their end.     *)
CloseSettings(b) ==
  /\ place[b] = "shell"
  /\ dialogs' = [dialogs EXCEPT ![b] = ClosedPanel]
  /\ asked' = SettingsGone(b, asked)
  /\ UNCHANGED <<person, session, place, trusted, heard, app>>

Ask2fa(b, kind) ==
  LET call == [from |-> b, kind |-> kind, secret |-> dialogs[b].shown, stage |-> "sent",
               hears |-> IF kind = "disable" THEN "settings" ELSE "dialog", ok |-> FALSE] IN
  /\ call \notin asked /\ Cardinality(asked) < MaxAsked
  /\ asked' = asked \cup {call}

RequestSecret(b) ==
  /\ Mounted(b) /\ dialogs[b].step = "password"
  /\ Ask2fa(b, "enable")
  /\ dialogs' = [dialogs EXCEPT ![b].step = "asking"]
  /\ UNCHANGED <<person, session, place, trusted, heard, app>>

(* The code of the secret shown, which is in the authenticator from now on. *)
ConfirmCode(b) ==
  /\ Mounted(b) /\ dialogs[b].step = "shown"
  /\ Ask2fa(b, "verify")
  /\ app' = app \cup {dialogs[b].shown}
  /\ dialogs' = [dialogs EXCEPT ![b].step = "confirming"]
  /\ UNCHANGED <<person, session, place, trusted, heard>>

(* The switch, and the password dialog behind it.                          *)
OpenDisabling(b) ==
  /\ place[b] = "shell" /\ heard[b] /\ ~dialogs[b].disabling
  /\ dialogs' = [dialogs EXCEPT ![b].disabling = TRUE]
  /\ UNCHANGED <<person, session, place, trusted, heard, asked, app>>

CancelDisabling(b) ==
  /\ dialogs[b].disabling
  /\ dialogs' = [dialogs EXCEPT ![b].disabling = FALSE]
  /\ UNCHANGED <<person, session, place, trusted, heard, asked, app>>

DisableTwoFactor(b) ==
  /\ dialogs[b].disabling /\ ~dialogs[b].pending
  /\ Ask2fa(b, "disable")
  /\ dialogs' = [dialogs EXCEPT ![b].pending = TRUE]
  /\ UNCHANGED <<person, session, place, trusted, heard, app>>

-----------------------------------------------------------------------------
(* A variation that forgets setPending(false) before `return reportError`. *)
ActsOnSuccess(c, ok) == ok /\ c.hears # "nobody"

(* Whether anything is left to do with an answer: the dialog's own steps   *)
(* are for the dialog that asked, onClose and disabling2fa are settings.   *)
ActsOn(c, ok) ==
  CASE c.kind = "enable" -> c.hears = "dialog"
    [] c.kind = "verify" -> c.hears = "dialog" \/ (ok /\ c.hears = "settings")
    [] c.kind = "disable" -> c.hears = "settings"

(* The answer travels back.                                                *)
Answered2fa(c, ok, secret) ==
  asked' = (asked \ {c}) \cup {[c EXCEPT !.stage = "answered", !.ok = ok, !.secret = secret]}

(* `enable` stores a secret nobody has verified yet, in place of any other *)
(* one, verified or not.                                                   *)
EnableSecret(c, s) ==
  /\ c \in asked /\ c.stage = "sent" /\ c.kind = "enable"
  /\ session[c.from] = "live"
  /\ s \notin app \cup {person.secret} \cup {dialogs[b].shown : b \in Browser}
            \cup {d.secret : d \in asked}
  /\ person' = [person EXCEPT !.secret = s]
  /\ Answered2fa(c, TRUE, s)
  /\ UNCHANGED <<session, place, trusted, heard, dialogs, app>>

(* `verifyTotp` compares with the secret stored by now.                    *)
VerifyCode(c) ==
  /\ c \in asked /\ c.stage = "sent" /\ c.kind = "verify"
  /\ session[c.from] = "live" /\ c.secret = person.secret
  /\ person' = [person EXCEPT !.enabled = TRUE]
  /\ Answered2fa(c, TRUE, NoSecret)
  /\ UNCHANGED <<session, place, trusted, heard, dialogs, app>>

DropSecret(c) ==
  /\ c \in asked /\ c.stage = "sent" /\ c.kind = "disable"
  /\ session[c.from] = "live"
  /\ person' = [person EXCEPT !.enabled = FALSE, !.secret = NoSecret]
  /\ app' = {}
  /\ Answered2fa(c, TRUE, NoSecret)
  /\ UNCHANGED <<session, place, trusted, heard, dialogs>>

(* A wrong code or password, too many attempts, a session that is gone.    *)
Refuse2fa(c) ==
  /\ c \in asked /\ c.stage = "sent"
  /\ Answered2fa(c, FALSE, NoSecret)
  /\ UNCHANGED <<person, session, place, trusted, heard, dialogs, app>>

(* What the component does with an answer, if it is still there.  onClose  *)
(* and setDisabling2fa close the dialog there is by then.                  *)
HandleAnswer(c) ==
  LET here == c.from IN
  /\ c \in asked /\ c.stage = "answered"
  /\ \/ /\ ~ActsOn(c, c.ok)
        /\ asked' = asked \ {c} /\ UNCHANGED dialogs
     \/ /\ ActsOn(c, c.ok) /\ c.kind = "enable"
        /\ dialogs' = [dialogs EXCEPT ![here].step = IF c.ok THEN "shown" ELSE "password",
                                      ![here].shown = IF c.ok THEN c.secret ELSE NoSecret]
        /\ asked' = asked \ {c}
     \/ /\ ActsOn(c, c.ok) /\ c.kind = "verify" /\ ~c.ok
        /\ dialogs' = [dialogs EXCEPT ![here].step = "shown"]
        /\ asked' = asked \ {c}
     \/ /\ ActsOn(c, c.ok) /\ c.kind = "verify" /\ c.ok
        /\ dialogs' = Unmounted(here)
        /\ asked' = SetupGone(here, asked \ {c})
     \/ /\ ActsOn(c, c.ok) /\ c.kind = "disable"
        /\ dialogs' = [dialogs EXCEPT ![here].pending = FALSE, ![here].disabling = @ /\ ~c.ok]
        /\ asked' = asked \ {c}
  /\ UNCHANGED <<person, session, place, trusted, heard, app>>

SecurityNext ==
  \/ \E b \in Browser :
       \/ SignUp(b) \/ SubmitPassword(b) \/ SubmitCode(b) \/ ReloadPage(b)
       \/ SignOut(b) \/ RequireAuthenticated(b) \/ \E other \in Browser : RevokeSession(b, other)
       \/ HearSession(b) \/ OpenSetup(b) \/ CancelSetup(b) \/ CloseSettings(b) \/ RequestSecret(b) \/ ConfirmCode(b)
       \/ OpenDisabling(b) \/ CancelDisabling(b) \/ DisableTwoFactor(b)
  \/ FollowLink
  \/ \E c \in asked :
       \/ \E s \in Secret : EnableSecret(c, s)
       \/ VerifyCode(c) \/ DropSecret(c) \/ Refuse2fa(c) \/ HandleAnswer(c)

SecuritySpec == SecurityInit /\ [][SecurityNext]_securityVars

-----------------------------------------------------------------------------
SecurityTypeOK ==
  /\ person \in UserRow
  /\ session \in [Browser -> SessionRow]
  /\ place \in [Browser -> {"signIn", "challenge", "shell"}]
  /\ trusted \subseteq Browser /\ heard \in [Browser -> BOOLEAN]
  /\ dialogs \in [Browser -> [settingUp : BOOLEAN, disabling : BOOLEAN, pending : BOOLEAN,
                            step : {"password", "asking", "shown", "confirming"},
                            shown : Secret \cup {NoSecret}]]
  /\ asked \subseteq [from : Browser, kind : {"enable", "verify", "disable"},
                      secret : Secret \cup {NoSecret}, stage : {"sent", "answered"},
                      hears : {"dialog", "settings", "nobody"}, ok : BOOLEAN]
  /\ app \subseteq Secret

(* A call under way whose answer `who` in this browser will act on.        *)
Awaited(b, kind, who) ==
  \E c \in asked : c.from = b /\ c.kind = kind /\ c.hears = who

(* A form whose button is disabled (`pending`, `disable2faPending`) has a  *)
(* call of its own under way, whatever was cancelled, reopened, refreshed  *)
(* or answered late meanwhile: nobody waits for an answer that will not    *)
(* come (twoFactorSetupDialog.tsx 51-73, securitySettings.tsx 78-93).      *)
FormsAnswered ==
  \A b \in Browser :
    /\ dialogs[b].step = "asking" => Awaited(b, "enable", "dialog")
    /\ dialogs[b].step = "confirming" => Awaited(b, "verify", "dialog")
    /\ dialogs[b].pending => Awaited(b, "disable", "settings")

(* "Abandoning between the two is safe - the next `enable` replaces the    *)
(* unverified row" (twoFactorSetupDialog.tsx 27), since over a verified    *)
(* one it "would silently invalidate the authenticator the user already    *)
(* registered" (securitySettings.tsx 246-247): the sign-in page, which     *)
(* asks for its code and for nothing else, can be passed.                  *)
AuthenticatorKept == person.enabled => person.secret \in app

=============================================================================
