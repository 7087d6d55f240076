------------------------------ MODULE TwoFactor ------------------------------
(***************************************************************************)
(* Two-factor authentication of one user, from several browser tabs        *)
(* (apps/web/src/app/settings/page.tsx) against the API                    *)
(* (apps/api/internal/handlers/auth_2fa.go).  The secret and its flag are  *)
(* one row, the recovery codes another table; the handlers read and write  *)
(* them in separate statements, and those of two tabs interleave.          *)
(* A secret and a set of eight codes are numbered by their creation; a     *)
(* code of a set in force is good, that each is used once is left out.     *)
(***************************************************************************)
EXTENDS Naturals

CONSTANTS
  Tabs,        \* browser tabs with the settings page
  MaxSecrets,  \* bound: secrets ever generated
  MaxCodes     \* bound: sets of recovery codes ever generated

ASSUME BoundsAreNat == MaxSecrets \in Nat /\ MaxCodes \in Nat

VARIABLES
  user,      \* the user's row and recovery codes
  made,      \* secrets and sets of codes generated so far
  tabs,      \* the page in each tab
  request,   \* the request of each tab
  scanned,   \* history: secrets in the user's authenticator
  shown,     \* history: the set of codes in force was on screen
  last,      \* history: the tab whose request last wrote the row
  mishap     \* history: an answer was lost or came at a bad moment, a write failed

history == <<scanned, shown, last, mishap>>
vars == <<user, made, tabs, request, history>>

NoRequest == [op |-> "none", at |-> "none", code |-> 0, ok |-> FALSE, got |-> 0]
Ask(op, code) == [op |-> op, at |-> "start", code |-> code, ok |-> FALSE, got |-> 0]

\* enabled is twoFactorStatus; status is the answer to the page's own query.
Fresh == [open |-> FALSE, step |-> "password", enabled |-> FALSE,
          status |-> "asked", secret |-> 0]
\* What a closed modal was showing is never seen again.
Shut(tab) == [tab EXCEPT !.open = FALSE, !.step = "password", !.secret = 0]

\* The forms of the modal, whose buttons wait while twoFactorLoading.
On(t, step) == tabs[t].open /\ tabs[t].step = step /\ request[t] = NoRequest
PasswordForm(t, step) == On(t, step) /\ step \in {"password", "regenerate"}
ScanForm(t) == On(t, "scan")
DisableForm(t) == On(t, "disable")

\* The row that opens it.
TwoFactorRow(t) == IF tabs[t].enabled THEN {"disable", "regenerate"} ELSE {"password"}

-----------------------------------------------------------------------------
(* The page.                                                               *)
openTwoFactorModal(t, step) ==
  /\ ~tabs[t].open
  /\ step \in TwoFactorRow(t)
  /\ tabs' = [tabs EXCEPT ![t].open = TRUE, ![t].step = step]
  /\ UNCHANGED <<user, made, request, history>>

closeModal(t) ==
  /\ tabs[t].open
  /\ tabs' = [tabs EXCEPT ![t] = Shut(@)]
  /\ UNCHANGED <<user, made, request, history>>

Sends(t, op, code) ==
  /\ request' = [request EXCEPT ![t] = Ask(op, code)]
  /\ UNCHANGED <<user, made, tabs, history>>

handle2FAPasswordSubmit(t) ==
  \/ PasswordForm(t, "regenerate") /\ Sends(t, "regenerate", 0)
  \/ PasswordForm(t, "password") /\ made.secrets < MaxSecrets /\ Sends(t, "setup", 0)

\* The user may scan the secret on screen, and type a code of any scanned.
scan(t) ==
  /\ ScanForm(t)
  /\ scanned' = scanned \cup {tabs[t].secret}
  /\ UNCHANGED <<user, made, tabs, request, shown, last, mishap>>

handle2FAVerifyAndEnable(t) == ScanForm(t) /\ \E k \in scanned : Sends(t, "enable", k)

handle2FADisable(t) == DisableForm(t) /\ \E k \in scanned \cup {0} : Sends(t, "disable", k)

\* From the codes, or from the secret back to the password.
back(t) ==
  /\ ScanForm(t)
  /\ tabs' = [tabs EXCEPT ![t].step = "password", ![t].secret = 0]
  /\ UNCHANGED <<user, made, request, history>>

reload(t) ==
  /\ tabs[t].status = "none" /\ request[t] = NoRequest /\ ~tabs[t].open
  /\ tabs' = [tabs EXCEPT ![t] = Fresh]
  /\ last' = last \ {t}
  /\ UNCHANGED <<user, made, request, scanned, shown, mishap>>

-----------------------------------------------------------------------------
(* The API.  A request goes from one statement to the next.                *)
Goes(t, at) == request' = [request EXCEPT ![t].at = at]
Answers(t, ok, got) ==
  request' = [request EXCEPT ![t] = [NoRequest EXCEPT !.op = IF ok THEN request[t].op ELSE "none",
                                                      !.at = "answer", !.ok = ok, !.got = got]]

\* Get2FAStatus
Get2FAStatus(t) ==
  /\ tabs[t].status = "asked"
  /\ tabs' = [tabs EXCEPT ![t].status = IF user.enabled THEN "on" ELSE "off"]
  /\ UNCHANGED <<user, made, request, history>>

\* The password was checked; the new secret is pending, and disables the old.
Setup2FA(t) ==
  /\ request[t].op = "setup" /\ request[t].at = "start" /\ made.secrets < MaxSecrets
  /\ made' = [made EXCEPT !.secrets = @ + 1]
  /\ user' = [user EXCEPT !.enabled = FALSE, !.secret = made.secrets + 1]
  /\ Answers(t, TRUE, made.secrets + 1)
  /\ last' = {t}
  /\ UNCHANGED <<tabs, scanned, shown, mishap>>

\* The code is checked against the secret that is read here.
Enable2FA(t) ==
  /\ request[t].op = "enable" /\ request[t].at = "start"
  /\ IF user.secret # 0 /\ request[t].code = user.secret THEN Goes(t, "codes")
     ELSE Answers(t, FALSE, 0)
  /\ UNCHANGED <<user, made, tabs, history>>

\* A code of the secret, one of the recovery codes, or 2FA that is off.
Disable2FA(t) ==
  /\ request[t].op = "disable" /\ request[t].at = "start"
  /\ \/ /\ ~user.enabled \/ request[t].code = user.secret \/ shown
        /\ request' = [request EXCEPT ![t].at = "erase", ![t].code = 0]
     \/ user.enabled /\ request[t].code # user.secret /\ Answers(t, FALSE, 0)
  /\ UNCHANGED <<user, made, tabs, history>>

RegenerateRecoveryCodes(t) ==
  /\ request[t].op = "regenerate" /\ request[t].at = "start"
  /\ IF user.enabled THEN Goes(t, "codes") ELSE Answers(t, FALSE, 0)
  /\ UNCHANGED <<user, made, tabs, history>>

\* Bug: the set that is answered is not the one stored.
saveCodesStale(t) ==
  /\ request[t].at = "codes" /\ made.codes < MaxCodes
  /\ made' = [made EXCEPT !.codes = @ + 1]
  /\ user' = [user EXCEPT !.codes = made.codes + 1]
  /\ IF request[t].op = "enable"
     THEN request' = [request EXCEPT ![t].at = "activate", ![t].got = made.codes]
     ELSE Answers(t, TRUE, made.codes)
  /\ shown' = FALSE
  /\ UNCHANGED <<tabs, scanned, last, mishap>>

\* SaveTwoFactorRecoveryCodes: one transaction replaces the set.
saveCodes(t) ==
  /\ request[t].at = "codes" /\ made.codes < MaxCodes
  /\ made' = [made EXCEPT !.codes = @ + 1]
  /\ user' = [user EXCEPT !.codes = made.codes + 1]
  /\ IF request[t].op = "enable"
     THEN request' = [request EXCEPT ![t].at = "activate", ![t].got = made.codes + 1]
     ELSE Answers(t, TRUE, made.codes + 1)
  /\ shown' = FALSE
  /\ UNCHANGED <<tabs, scanned, last, mishap>>

\* Bug: only the flag is written, whatever the secret
\* is by now.
activateFlag(t) ==
  /\ request[t].at = "activate"
  /\ user' = [user EXCEPT !.enabled = TRUE]
  /\ Answers(t, TRUE, request[t].got)
  /\ last' = {t}
  /\ mishap' = (mishap \/ user.codes = 0)
  /\ UNCHANGED <<made, tabs, scanned, shown>>

\* UpdateUserTwoFactor writes the flag and the secret that was checked,
\* though its codes may have been forgotten by another tab's Disable2FA.
activate(t) ==
  /\ request[t].at = "activate"
  /\ user' = [user EXCEPT !.enabled = TRUE, !.secret = request[t].code]
  /\ Answers(t, TRUE, request[t].got)
  /\ last' = {t}
  /\ mishap' = (mishap \/ user.codes = 0)
  /\ UNCHANGED <<made, tabs, scanned, shown>>

erase(t) ==
  /\ request[t].at = "erase"
  /\ user' = [user EXCEPT !.enabled = FALSE, !.secret = 0]
  /\ Goes(t, "forget")
  /\ last' = {t}
  /\ UNCHANGED <<made, tabs, scanned, shown, mishap>>

\* The second write's error is ignored.  Another tab may have set 2FA up
\* again since the first: its codes are forgotten instead.
forget(t) ==
  /\ request[t].at = "forget"
  /\ \/ user' = [user EXCEPT !.codes = 0] /\ mishap' = (mishap \/ user.enabled)
     \/ UNCHANGED user /\ mishap' = TRUE
  /\ Answers(t, TRUE, 0)
  /\ shown' = (shown /\ user'.codes = user.codes)
  /\ UNCHANGED <<made, tabs, scanned, last>>

\* A wrong password, an error of the store, a crash: what is written stays.
fails(t) ==
  /\ request[t].at \in {"start", "codes", "activate", "erase"}
  /\ Answers(t, FALSE, 0)
  /\ mishap' = (mishap \/ request[t].at = "activate")
  /\ UNCHANGED <<user, made, tabs, scanned, shown, last>>

-----------------------------------------------------------------------------
(* The answers.                                                            *)
shows(tab, step, secret) == IF tab.open THEN [tab EXCEPT !.step = step, !.secret = secret] ELSE tab

\* Bug: the page goes on showing 2FA as on.
afterStillOn(r, tab) ==
  CASE r.ok /\ r.op = "setup" -> shows(tab, "scan", r.got)
    [] r.ok /\ r.op = "enable" -> [shows(tab, "recovery_codes", 0) EXCEPT !.enabled = TRUE]
    [] r.ok /\ r.op = "regenerate" -> shows(tab, "recovery_codes", 0)
    [] r.ok /\ r.op = "disable" -> Shut(tab)
    [] OTHER -> tab

after(r, tab) ==
  CASE r.ok /\ r.op = "setup" -> shows(tab, "scan", r.got)
    [] r.ok /\ r.op = "enable" -> [shows(tab, "recovery_codes", 0) EXCEPT !.enabled = TRUE]
    [] r.ok /\ r.op = "regenerate" -> shows(tab, "recovery_codes", 0)
    [] r.ok /\ r.op = "disable" -> [Shut(tab) EXCEPT !.enabled = FALSE]
    [] OTHER -> tab

answered(t) ==
  LET r == request[t] IN
  /\ r.at = "answer"
  /\ request' = [request EXCEPT ![t] = NoRequest]
  /\ tabs' = [tabs EXCEPT ![t] = after(r, @)]
  /\ IF r.ok /\ r.op \in {"enable", "regenerate"}
     THEN IF tabs[t].open THEN shown' = (shown \/ r.got = user.codes) /\ UNCHANGED mishap
          ELSE mishap' = TRUE /\ UNCHANGED shown
     ELSE UNCHANGED <<shown, mishap>>
  /\ UNCHANGED <<user, made, scanned, last>>

\* The connection breaks: the page reports a failure.
lost(t) ==
  /\ request[t].at = "answer" /\ request[t].ok
  /\ request' = [request EXCEPT ![t] = NoRequest]
  /\ mishap' = TRUE
  /\ UNCHANGED <<user, made, tabs, scanned, shown, last>>

\* The page's own query is answered, perhaps while the page is changing it.
statusArrives(t) ==
  /\ tabs[t].status # "none"
  /\ \E enabled \in CASE tabs[t].status = "on" -> {TRUE} [] tabs[t].status = "off" -> {FALSE}
                      [] tabs[t].status = "asked" -> {tabs[t].enabled} :
       tabs' = [tabs EXCEPT ![t].status = "none", ![t].enabled = enabled]
  /\ mishap' = (mishap \/ t \in last \/ tabs[t].open \/ request[t] # NoRequest)
  /\ UNCHANGED <<user, made, request, scanned, shown, last>>

-----------------------------------------------------------------------------
Init ==
  /\ user = [enabled |-> FALSE, secret |-> 0, codes |-> 0]
  /\ made = [secrets |-> 0, codes |-> 0]
  /\ tabs = [t \in Tabs |-> Fresh]
  /\ request = [t \in Tabs |-> NoRequest]
  /\ scanned = {} /\ shown = FALSE /\ last = {} /\ mishap = FALSE

Page(t) ==
  \/ \E s \in {"password", "disable", "regenerate"} : openTwoFactorModal(t, s)
  \/ closeModal(t) \/ handle2FAPasswordSubmit(t) \/ scan(t) \/ back(t)
  \/ handle2FAVerifyAndEnable(t) \/ handle2FADisable(t) \/ reload(t)
  \/ answered(t) \/ lost(t) \/ statusArrives(t)

Server(t) ==
  \/ Get2FAStatus(t) \/ Setup2FA(t) \/ Enable2FA(t) \/ Disable2FA(t)
  \/ RegenerateRecoveryCodes(t) \/ saveCodes(t) \/ activate(t)
  \/ erase(t) \/ forget(t) \/ fails(t)

Next == \E t \in Tabs : Page(t) \/ Server(t)

Spec == Init /\ [][Next]_vars

-----------------------------------------------------------------------------
Steps == {"password", "scan", "recovery_codes", "disable", "regenerate"}
Request == [op : {"none", "setup", "enable", "disable", "regenerate"},
            at : {"none", "start", "codes", "activate", "erase", "forget", "answer"},
            code : Nat, ok : BOOLEAN, got : Nat]
Tab == [open : BOOLEAN, step : Steps, enabled : BOOLEAN,
        status : {"none", "asked", "on", "off"}, secret : Nat]

(* The row, the requests and the pages have their shapes (a theorem).      *)
TwoFactorTypeOK ==
  /\ user \in [enabled : BOOLEAN, secret : Nat, codes : Nat]
  /\ made \in [secrets : Nat, codes : Nat]
  /\ request \in [Tabs -> Request]
  /\ scanned \subseteq Nat
  /\ tabs \in [Tabs -> Tab]

(* Nobody is asked at login for a code that no authenticator can make:     *)
(* while 2FA is on, the stored secret is one that was scanned, although    *)
(* another tab may replace the secret between Enable2FA's check of the     *)
(* code and its write.                                                     *)
EnabledIsScanned == user.enabled => user.secret \in scanned

Quiet == \A t \in Tabs : request[t] = NoRequest /\ tabs[t].status = "none"

(* The recovery codes in force have been on screen, unless an answer was   *)
(* lost, its modal had been closed, or a handler stopped half way.         *)
CodesWereShown == Quiet /\ ~mishap /\ user.enabled => shown

(* The tab whose request last changed 2FA shows whether it is on.          *)
StatusIsTrue == Quiet /\ ~mishap => \A t \in last : tabs[t].enabled = user.enabled
=============================================================================
