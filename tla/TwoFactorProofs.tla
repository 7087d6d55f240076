--------------------------- MODULE TwoFactorProofs ---------------------------
(***************************************************************************)
(* For any number of tabs, secrets and sets of codes: whoever must give a  *)
(* code at login has an authenticator that makes it; what the requests in  *)
(* flight still bring to the pages is shown when they are answered.        *)
(***************************************************************************)
EXTENDS TwoFactor, TLAPS

(* A request on its way to enabling 2FA carries a secret that was scanned: *)
(* what activate writes is that secret, whatever the row holds by then.    *)
TypedWasScanned ==
  \A t \in Tabs :
    \/ request[t].op = "enable" /\ request[t].at \in {"start", "codes"}
    \/ request[t].at = "activate"
    => request[t].code \in scanned

EInv == TwoFactorTypeOK /\ TypedWasScanned /\ EnabledIsScanned

LEMMA InitHolds == Init => EInv
BY DEF Init, EInv, Tab, Steps, TwoFactorTypeOK, TypedWasScanned, EnabledIsScanned, Request, NoRequest, Fresh

(* What only the page changes.                                             *)
LEMMA TabsOnly ==
  ASSUME EInv, UNCHANGED <<user, made, request, scanned>>, tabs' \in [Tabs -> Tab]
  PROVE  EInv'
BY DEF EInv, TwoFactorTypeOK, TypedWasScanned, EnabledIsScanned

LEMMA PageKeeps ==
  ASSUME EInv, NEW t \in Tabs, Page(t)
  PROVE  EInv'
<1> USE DEF EInv
<1>1. ASSUME NEW op \in {"setup", "enable", "disable", "regenerate"}, NEW code \in Nat,
             op = "enable" => code \in scanned, Sends(t, op, code)
      PROVE EInv'
  BY <1>1 DEF Sends, Ask, history, TwoFactorTypeOK, TypedWasScanned, EnabledIsScanned, Request
<1>2. ASSUME NEW s \in Steps, openTwoFactorModal(t, s) PROVE EInv'
  <2>1. tabs' \in [Tabs -> Tab]
    BY <1>2 DEF openTwoFactorModal, TwoFactorTypeOK, Tab
  <2> QED BY <1>2, <2>1, TabsOnly DEF openTwoFactorModal, history
<1>3. CASE closeModal(t)
  <2>1. tabs' \in [Tabs -> Tab]
    BY <1>3 DEF closeModal, Shut, TwoFactorTypeOK, Tab, Steps
  <2> QED BY <1>3, <2>1, TabsOnly DEF closeModal, history
<1>4. CASE handle2FAPasswordSubmit(t)
  BY <1>1, <1>4 DEF handle2FAPasswordSubmit
<1>5. CASE scan(t)
  BY <1>5 DEF scan, TwoFactorTypeOK, Tab, TypedWasScanned, EnabledIsScanned
<1>6. CASE back(t)
  <2>1. tabs' \in [Tabs -> Tab]
    BY <1>6 DEF back, TwoFactorTypeOK, Tab, Steps
  <2> QED BY <1>6, <2>1, TabsOnly DEF back, history
<1>7. CASE handle2FAVerifyAndEnable(t)
  BY <1>1, <1>7 DEF handle2FAVerifyAndEnable, TwoFactorTypeOK
<1>8. CASE handle2FADisable(t)
  BY <1>1, <1>8 DEF handle2FADisable, TwoFactorTypeOK
<1>9. CASE reload(t)
  <2>1. tabs' \in [Tabs -> Tab]
    BY <1>9 DEF reload, Fresh, TwoFactorTypeOK, Tab, Steps
  <2> QED BY <1>9, <2>1, TabsOnly DEF reload
<1>10. CASE answered(t)
  <2>1. /\ request[t] \in Request
        /\ request[t].op \in {"none", "setup", "enable", "disable", "regenerate"}
    BY DEF TwoFactorTypeOK, Request
  <2>2. /\ request' = [request EXCEPT ![t] = NoRequest]
        /\ UNCHANGED <<user, made, scanned>>
    BY <1>10 DEF answered
  <2>a. tabs[t] \in Tab /\ request[t].got \in Nat
    BY DEF TwoFactorTypeOK, Request
  <2>b. PICK new : tabs' = [tabs EXCEPT ![t] = new] /\ new \in Tab
    <3> DEFINE r == request[t]
    <3>1. ASSUME NEW step \in Steps, NEW secret \in Nat PROVE shows(tabs[t], step, secret) \in Tab
      BY <2>a DEF Tab, shows
    <3>2. [shows(tabs[t], "recovery_codes", 0) EXCEPT !.enabled = TRUE] \in Tab
      BY <2>a DEF Tab, Steps, shows
    <3>3. [Shut(tabs[t]) EXCEPT !.enabled = FALSE] \in Tab
      BY <2>a DEF Tab, Steps, Shut
    <3>4. tabs' = [tabs EXCEPT ![t] =
            CASE r.ok /\ r.op = "setup" -> shows(@, "scan", r.got)
              [] r.ok /\ r.op = "enable" -> [shows(@, "recovery_codes", 0) EXCEPT !.enabled = TRUE]
              [] r.ok /\ r.op = "regenerate" -> shows(@, "recovery_codes", 0)
              [] r.ok /\ r.op = "disable" -> [Shut(@) EXCEPT !.enabled = FALSE]
              [] OTHER -> @]
      BY <1>10 DEF answered, after
    <3>5. shows(tabs[t], "scan", r.got) \in Tab /\ shows(tabs[t], "recovery_codes", 0) \in Tab
      BY <2>a, <3>1 DEF Steps
    <3> QED BY <2>a, <3>2, <3>3, <3>4, <3>5
  <2>c. tabs' \in [Tabs -> Tab]
    BY <2>b DEF TwoFactorTypeOK
  <2>3. TwoFactorTypeOK'
    BY <2>2, <2>c DEF TwoFactorTypeOK, Request, NoRequest
  <2> QED BY <2>2, <2>3 DEF TwoFactorTypeOK, TypedWasScanned, EnabledIsScanned, NoRequest
<1>11. CASE lost(t)
  BY <1>11 DEF lost, NoRequest, TwoFactorTypeOK, TypedWasScanned, EnabledIsScanned, Request
<1>12. CASE statusArrives(t)
  <2>1. PICK e \in BOOLEAN : tabs' = [tabs EXCEPT ![t].status = "none", ![t].enabled = e]
    BY <1>12 DEF statusArrives, TwoFactorTypeOK, Tab
  <2>2. tabs' \in [Tabs -> Tab]
    BY <2>1 DEF TwoFactorTypeOK, Tab
  <2> QED BY <1>12, <2>2, TabsOnly DEF statusArrives
<1> QED BY <1>2, <1>3, <1>4, <1>5, <1>6, <1>7, <1>8, <1>9, <1>10, <1>11, <1>12 DEF Page, Steps

LEMMA ServerKeeps ==
  ASSUME EInv, NEW t \in Tabs, Server(t)
  PROVE  EInv'
<1> USE DEF EInv
<1>1. ASSUME NEW ok \in BOOLEAN, NEW got \in Nat, Answers(t, ok, got)
      PROVE /\ request' \in [Tabs -> Request]
            /\ request'[t].at = "answer" /\ \A x \in Tabs \ {t} : request'[x] = request[x]
  BY <1>1 DEF Answers, NoRequest, TwoFactorTypeOK, Request
<1>2. CASE Get2FAStatus(t)
  <2>1. tabs' \in [Tabs -> Tab]
    BY <1>2 DEF Get2FAStatus, TwoFactorTypeOK, Tab
  <2> QED BY <1>2, <2>1, TabsOnly DEF Get2FAStatus, history
<1>3. CASE Setup2FA(t)
  <2>1. made.secrets + 1 \in Nat
    BY DEF TwoFactorTypeOK
  <2> QED BY <1>1, <1>3, <2>1 DEF Setup2FA, TwoFactorTypeOK, TypedWasScanned, EnabledIsScanned
<1>4. CASE Enable2FA(t)
  <2>1. CASE Goes(t, "codes")
    BY <1>4, <2>1 DEF Enable2FA, Goes, history, TwoFactorTypeOK, TypedWasScanned, EnabledIsScanned, Request
  <2>2. CASE Answers(t, FALSE, 0)
    BY <1>1, <1>4, <2>2 DEF Enable2FA, history, TwoFactorTypeOK, TypedWasScanned, EnabledIsScanned
  <2> QED BY <1>4, <2>1, <2>2 DEF Enable2FA
<1>5. CASE Disable2FA(t)
  <2>1. CASE request' = [request EXCEPT ![t].at = "erase", ![t].code = 0]
    BY <1>5, <2>1 DEF Disable2FA, history, TwoFactorTypeOK, TypedWasScanned, EnabledIsScanned, Request
  <2>2. CASE Answers(t, FALSE, 0)
    BY <1>1, <1>5, <2>2 DEF Disable2FA, history, TwoFactorTypeOK, TypedWasScanned, EnabledIsScanned
  <2> QED BY <1>5, <2>1, <2>2 DEF Disable2FA
<1>6. CASE RegenerateRecoveryCodes(t)
  <2>1. CASE Goes(t, "codes")
    BY <1>6, <2>1 DEF RegenerateRecoveryCodes, Goes, history, TwoFactorTypeOK, TypedWasScanned, EnabledIsScanned, Request
  <2>2. CASE Answers(t, FALSE, 0)
    BY <1>1, <1>6, <2>2 DEF RegenerateRecoveryCodes, history, TwoFactorTypeOK, TypedWasScanned, EnabledIsScanned
  <2> QED BY <1>6, <2>1, <2>2 DEF RegenerateRecoveryCodes
<1>7. CASE saveCodes(t)
  <2>1. made.codes + 1 \in Nat
    BY DEF TwoFactorTypeOK
  <2>2. CASE request' = [request EXCEPT ![t].at = "activate", ![t].got = made.codes + 1]
             /\ request[t].op = "enable"
    <3>1. /\ request[t].code \in scanned /\ UNCHANGED <<tabs, scanned>>
          /\ user' = [user EXCEPT !.codes = made.codes + 1]
          /\ made' = [made EXCEPT !.codes = @ + 1]
      BY <1>7, <2>2 DEF saveCodes, TypedWasScanned
    <3>2. TwoFactorTypeOK'
      BY <2>1, <2>2, <3>1 DEF TwoFactorTypeOK, Request
    <3>3. TypedWasScanned' /\ EnabledIsScanned'
      BY <2>2, <3>1 DEF TwoFactorTypeOK, TypedWasScanned, EnabledIsScanned, Request
    <3> QED BY <3>2, <3>3
  <2>3. CASE Answers(t, TRUE, made.codes + 1)
    BY <1>1, <1>7, <2>1, <2>3 DEF saveCodes, TwoFactorTypeOK, TypedWasScanned, EnabledIsScanned
  <2> QED BY <1>7, <2>2, <2>3 DEF saveCodes
<1>8. CASE activate(t)
  BY <1>1, <1>8 DEF activate, TwoFactorTypeOK, TypedWasScanned, EnabledIsScanned, Request
<1>9. CASE erase(t)
  BY <1>9 DEF erase, Goes, TwoFactorTypeOK, TypedWasScanned, EnabledIsScanned, Request
<1>10. CASE forget(t)
  <2>1. user' \in [enabled : BOOLEAN, secret : Nat, codes : Nat]
        /\ user'.enabled = user.enabled /\ user'.secret = user.secret
    BY <1>10 DEF forget, TwoFactorTypeOK
  <2> QED BY <1>1, <1>10, <2>1 DEF forget, TwoFactorTypeOK, TypedWasScanned, EnabledIsScanned
<1>11. CASE fails(t)
  BY <1>1, <1>11 DEF fails, TwoFactorTypeOK, TypedWasScanned, EnabledIsScanned
<1> QED BY <1>2, <1>3, <1>4, <1>5, <1>6, <1>7, <1>8, <1>9, <1>10, <1>11 DEF Server

LEMMA InvHolds == Spec => []EInv
<1>1. EInv /\ Next => EInv'
  BY PageKeeps, ServerKeeps DEF Next
<1>2. EInv /\ UNCHANGED vars => EInv'
  BY DEF vars, history, EInv, TwoFactorTypeOK, TypedWasScanned, EnabledIsScanned
<1> QED BY InitHolds, <1>1, <1>2, PTL DEF Spec

(* The row, the requests and the pages have their shapes.                  *)
THEOREM TwoFactorTypes == Spec => []TwoFactorTypeOK
<1>1. EInv => TwoFactorTypeOK
  BY DEF EInv
<1> QED BY InvHolds, <1>1, PTL

(* While two-factor authentication is on, the stored secret was scanned.   *)
THEOREM SpecEnabledIsScanned == Spec => []EnabledIsScanned
<1>1. EInv => EnabledIsScanned
  BY DEF EInv
<1> QED BY InvHolds, <1>1, PTL

-----------------------------------------------------------------------------
(* Each step of a handler belongs to the operations that take it.          *)
StagesFit ==
  /\ last \subseteq Tabs
  /\ \A t \in Tabs :
       /\ request[t].at = "codes" => request[t].op \in {"enable", "regenerate"}
       /\ request[t].at = "activate" => request[t].op = "enable"
       /\ request[t].at \in {"erase", "forget"} => request[t].op = "disable"

(* A page that sets 2FA up believes it to be off.                          *)
FormsFit ==
  \A t \in Tabs :
    \/ tabs[t].open /\ tabs[t].step \in {"password", "scan"}
    \/ request[t].op = "setup"
    => ~tabs[t].enabled

(* The tab that wrote the row last shows it, or its answer will make it.   *)
Wrote(t) ==
  \/ request[t].at = "forget"
  \/ request[t].at = "answer" /\ request[t].ok /\ request[t].op \in {"setup", "enable", "disable"}
LastWillShow ==
  \A t \in last :
    IF Wrote(t) THEN user.enabled = (request[t].op = "enable")
    ELSE tabs[t].enabled = user.enabled

(* The codes in force were shown, or a request brings them.                *)
Brings(t) ==
  /\ request[t].got = user.codes
  /\ \/ request[t].at = "activate"
     \/ request[t].at = "answer" /\ request[t].ok /\ request[t].op \in {"enable", "regenerate"}
CodesOnTheWay ==
  /\ user.enabled => user.codes # 0
  /\ user.codes # 0 /\ ~shown => \E t \in Tabs : Brings(t)

HInv == EInv /\ StagesFit /\ (~mishap => FormsFit /\ LastWillShow /\ CodesOnTheWay)

LEMMA HistoryInit == Init => HInv
BY InitHolds DEF Init, HInv, StagesFit, FormsFit, LastWillShow, Wrote, CodesOnTheWay, NoRequest, Fresh

(* The user's acts: only the tab's own page and request change.            *)
LEMMA HistoryOfActs ==
  ASSUME HInv, EInv', NEW t \in Tabs,
         \/ \E s \in {"password", "disable", "regenerate"} : openTwoFactorModal(t, s)
         \/ closeModal(t) \/ scan(t) \/ back(t) \/ reload(t)
         \/ handle2FAPasswordSubmit(t) \/ handle2FAVerifyAndEnable(t) \/ handle2FADisable(t)
  PROVE  HInv'
<1> USE DEF HInv, EInv
<1> DEFINE Kept == /\ UNCHANGED <<user, shown, mishap>> /\ last' \subseteq last
                   /\ \A x \in Tabs : tabs'[x].enabled = tabs[x].enabled \/ x \notin last'
<1>1. ASSUME Kept, UNCHANGED request, FormsFit => FormsFit' PROVE HInv'
  BY <1>1 DEF StagesFit, LastWillShow, Wrote, CodesOnTheWay, Brings
<1>2. ASSUME NEW s \in {"password", "disable", "regenerate"}, openTwoFactorModal(t, s) PROVE HInv'
  BY <1>1, <1>2 DEF openTwoFactorModal, history, TwoFactorRow, TwoFactorTypeOK, Tab, FormsFit, StagesFit
<1>3. CASE closeModal(t)
  BY <1>1, <1>3 DEF closeModal, history, Shut, TwoFactorTypeOK, Tab, FormsFit, StagesFit
<1>4. CASE scan(t)
  BY <1>1, <1>4 DEF scan, FormsFit
<1>5. CASE back(t)
  BY <1>1, <1>5 DEF back, history, ScanForm, On, TwoFactorTypeOK, Tab, FormsFit, StagesFit
<1>6. CASE reload(t)
  BY <1>1, <1>6 DEF reload, Fresh, NoRequest, TwoFactorTypeOK, Tab, FormsFit, StagesFit
<1>7. ASSUME NEW op \in {"setup", "enable", "disable", "regenerate"}, NEW code \in Nat,
             request[t] = NoRequest, Sends(t, op, code),
             FormsFit /\ op = "setup" => ~tabs[t].enabled
      PROVE HInv'
  <2>1. StagesFit'
    BY <1>7 DEF Sends, Ask, history, StagesFit, TwoFactorTypeOK
  <2>2. FormsFit => FormsFit'
    BY <1>7 DEF Sends, Ask, history, FormsFit, TwoFactorTypeOK
  <2>3. LastWillShow => LastWillShow'
    BY <1>7 DEF Sends, Ask, history, LastWillShow, Wrote, NoRequest, TwoFactorTypeOK, StagesFit
  <2>4. CodesOnTheWay => CodesOnTheWay'
    BY <1>7 DEF Sends, Ask, history, CodesOnTheWay, Brings, NoRequest, TwoFactorTypeOK
  <2>5. mishap' = mishap
    BY <1>7 DEF Sends, history
  <2> QED BY <2>1, <2>2, <2>3, <2>4, <2>5
<1>8. CASE handle2FAPasswordSubmit(t)
  BY <1>7, <1>8 DEF handle2FAPasswordSubmit, PasswordForm, On, FormsFit
<1>9. CASE handle2FAVerifyAndEnable(t)
  BY <1>7, <1>9 DEF handle2FAVerifyAndEnable, ScanForm, On, TwoFactorTypeOK
<1>10. CASE handle2FADisable(t)
  BY <1>7, <1>10 DEF handle2FADisable, DisableForm, On, TwoFactorTypeOK
<1> QED BY <1>2, <1>3, <1>4, <1>5, <1>6, <1>8, <1>9, <1>10

(* The answers.  One that brings codes to an open modal shows them.        *)
LEMMA HistoryOfAnswers ==
  ASSUME HInv, EInv', NEW t \in Tabs, answered(t) \/ lost(t) \/ statusArrives(t)
  PROVE  HInv'
<1> USE DEF HInv, EInv
<1> DEFINE r == request[t]
<1>0. r \in Request /\ tabs[t] \in Tab
  BY DEF TwoFactorTypeOK
<1>1. CASE answered(t)
  <2>1. /\ request' = [request EXCEPT ![t] = NoRequest] /\ r.at = "answer"
        /\ tabs' = [tabs EXCEPT ![t] = after(r, @)]
        /\ UNCHANGED <<user, last>>
    BY <1>1 DEF answered
  <2>2. StagesFit'
    BY <2>1 DEF StagesFit, NoRequest, TwoFactorTypeOK
  <2> SUFFICES ASSUME ~mishap' PROVE FormsFit' /\ LastWillShow' /\ CodesOnTheWay'
    BY <2>2
  <2>3. ~mishap
    BY <1>1 DEF answered
  <2>4. /\ tabs'[t].enabled = IF r.ok /\ r.op = "enable" THEN TRUE
                              ELSE IF r.ok /\ r.op = "disable" THEN FALSE ELSE tabs[t].enabled
        /\ tabs'[t].open /\ tabs'[t].step \in {"password", "scan"} =>
             \/ r.ok /\ r.op = "setup"
             \/ tabs[t].open /\ tabs[t].step \in {"password", "scan"}
                /\ ~(r.ok /\ r.op \in {"enable", "disable"})
    BY <1>0, <2>1 DEF after, shows, Shut, Tab, TwoFactorTypeOK
  <2>5. FormsFit'
    BY <1>0, <2>1, <2>3, <2>4 DEF FormsFit, NoRequest, TwoFactorTypeOK
  <2>6. LastWillShow'
    <3> SUFFICES ASSUME NEW x \in last
                 PROVE  IF Wrote(x)' THEN user'.enabled = (request'[x].op = "enable")
                        ELSE tabs'[x].enabled = user'.enabled
      BY <2>1 DEF LastWillShow
    <3>1. x \in Tabs /\ LastWillShow /\ FormsFit
      BY <2>3 DEF StagesFit
    <3>2. CASE x # t
      BY <2>1, <3>1, <3>2 DEF LastWillShow, Wrote, TwoFactorTypeOK
    <3>3. CASE x = t
      <4>1. ~Wrote(x)'
        BY <2>1, <3>3 DEF Wrote, NoRequest, TwoFactorTypeOK
      <4>2. IF r.ok /\ r.op \in {"setup", "enable", "disable"} THEN user.enabled = (r.op = "enable")
            ELSE tabs[t].enabled = user.enabled
        BY <2>1, <3>1, <3>3 DEF LastWillShow, Wrote
      <4>3. r.op = "setup" => tabs[t].enabled = FALSE
        BY <1>0, <3>1 DEF FormsFit, Tab
      <4>4. tabs'[t].enabled = user.enabled
        BY <2>4, <4>2, <4>3
      <4> QED BY <2>1, <3>3, <4>1, <4>4
    <3> QED BY <3>2, <3>3
  <2>7. CodesOnTheWay'
    <3> SUFFICES ASSUME user.codes # 0, ~shown' PROVE \E x \in Tabs : Brings(x)'
      BY <2>1, <2>3 DEF CodesOnTheWay
    <3>1. ~shown
      BY <1>1 DEF answered
    <3>2. PICK x \in Tabs : Brings(x)
      BY <2>3, <3>1 DEF CodesOnTheWay
    <3>3. x # t
      BY <1>1, <2>1, <2>3, <3>2 DEF answered, Brings
    <3> QED BY <2>1, <3>2, <3>3 DEF Brings, TwoFactorTypeOK
  <2> QED BY <2>5, <2>6, <2>7
<1>2. CASE lost(t)
  BY <1>2 DEF lost, StagesFit, NoRequest, TwoFactorTypeOK
<1>3. CASE statusArrives(t)
  <2>1. /\ tabs' = [tabs EXCEPT ![t].status = "none", ![t].enabled = tabs'[t].enabled]
        /\ UNCHANGED <<user, request, shown, last>>
        /\ mishap' = (mishap \/ t \in last \/ tabs[t].open \/ request[t] # NoRequest)
    BY <1>3 DEF statusArrives, TwoFactorTypeOK
  <2>2. StagesFit'
    BY <2>1 DEF StagesFit
  <2>3. ~mishap' => FormsFit' /\ LastWillShow'
    <3> SUFFICES ASSUME ~mishap' PROVE FormsFit' /\ LastWillShow'
      OBVIOUS
    <3>1. /\ ~mishap /\ t \notin last /\ ~tabs[t].open /\ request[t] = NoRequest
          /\ tabs'[t].open = tabs[t].open
          /\ \A x \in Tabs \ {t} : tabs'[x] = tabs[x]
      BY <1>0, <2>1 DEF TwoFactorTypeOK, Tab
    <3>2. FormsFit'
      BY <2>1, <3>1 DEF FormsFit, NoRequest
    <3>3. LastWillShow'
      BY <2>1, <3>1 DEF LastWillShow, Wrote, StagesFit
    <3> QED BY <3>2, <3>3
  <2>4. ~mishap' => CodesOnTheWay'
    BY <2>1 DEF CodesOnTheWay, Brings
  <2> QED BY <2>2, <2>3, <2>4
<1> QED BY <1>1, <1>2, <1>3

(* The handlers.  What writes the row answers the tab that asked for it,   *)
(* and what replaces the codes is on its way to show them.                 *)
LEMMA HistoryOfServer ==
  ASSUME HInv, EInv', NEW t \in Tabs, Server(t)
  PROVE  HInv'
<1> USE DEF HInv, EInv
<1> DEFINE r == request[t]
<1>0. r \in Request /\ tabs[t] \in Tab /\ user \in [enabled : BOOLEAN, secret : Nat, codes : Nat]
  BY DEF TwoFactorTypeOK
<1>1. ASSUME NEW ok \in BOOLEAN, NEW got \in Nat, Answers(t, ok, got)
      PROVE /\ request'[t].op = IF ok THEN r.op ELSE "none"
            /\ request'[t].at = "answer" /\ request'[t].ok = ok /\ request'[t].got = got
            /\ \A x \in Tabs \ {t} : request'[x] = request[x]
  BY <1>1 DEF Answers, NoRequest, TwoFactorTypeOK
<1>2. CASE Get2FAStatus(t)
  <2>1. \A x \in Tabs : /\ tabs'[x].open = tabs[x].open /\ tabs'[x].step = tabs[x].step
                        /\ tabs'[x].enabled = tabs[x].enabled
    BY <1>2 DEF Get2FAStatus, TwoFactorTypeOK, Tab
  <2> QED BY <1>2, <2>1 DEF Get2FAStatus, history, StagesFit, FormsFit, LastWillShow, Wrote, CodesOnTheWay, Brings
<1>3. CASE Setup2FA(t)
  <2>1. /\ request'[t].op = "setup" /\ request'[t].at = "answer" /\ request'[t].ok
        /\ \A x \in Tabs \ {t} : request'[x] = request[x]
        /\ r.op = "setup" /\ r.at = "start" /\ last' = {t} /\ UNCHANGED <<tabs, shown, mishap>>
        /\ user' = [user EXCEPT !.enabled = FALSE, !.secret = made.secrets + 1]
    BY <1>1, <1>3 DEF Setup2FA, TwoFactorTypeOK
  <2> HIDE DEF r
  <2>2. StagesFit' /\ (FormsFit => FormsFit' /\ LastWillShow')
    BY <1>0, <2>1 DEF StagesFit, FormsFit, LastWillShow, Wrote, r
  <2>3. CodesOnTheWay => CodesOnTheWay'
    BY <1>0, <2>1 DEF CodesOnTheWay, Brings, r
  <2> QED BY <2>1, <2>2, <2>3
<1>4. ASSUME UNCHANGED <<user, tabs, shown, last>>, ~mishap' => ~mishap,
             \A x \in Tabs \ {t} : request'[x] = request[x],
             request'[t].op \in {r.op, "none"},
             request'[t].at \in {"codes", "erase"} \/ (request'[t].at = "answer" /\ ~request'[t].ok),
             request'[t].at = "codes" => request'[t].op \in {"enable", "regenerate"},
             request'[t].at = "erase" => request'[t].op = "disable",
             ~Wrote(t), mishap' \/ ~Brings(t)
      PROVE HInv'
  <2>1. StagesFit' /\ (FormsFit => FormsFit')
    BY <1>4 DEF StagesFit, FormsFit
  <2>2. LastWillShow => LastWillShow'
    BY <1>4 DEF LastWillShow, Wrote, StagesFit
  <2>3. ~mishap' /\ CodesOnTheWay => CodesOnTheWay'
    BY <1>4 DEF CodesOnTheWay, Brings
  <2> QED BY <1>4, <2>1, <2>2, <2>3
<1>5. CASE Enable2FA(t) \/ Disable2FA(t) \/ RegenerateRecoveryCodes(t)
  <2>1. r.at = "start" /\ r.op \in {"enable", "disable", "regenerate"}
        /\ UNCHANGED <<user, tabs, shown, last, mishap>>
    BY <1>5 DEF Enable2FA, Disable2FA, RegenerateRecoveryCodes, history
  <2>2. \/ /\ r.op \in {"enable", "regenerate"}
           /\ request' = [request EXCEPT ![t].at = "codes"]
        \/ /\ r.op = "disable"
           /\ request' = [request EXCEPT ![t].at = "erase", ![t].code = 0]
        \/ Answers(t, FALSE, 0)
    BY <1>5 DEF Enable2FA, Disable2FA, RegenerateRecoveryCodes, Goes
  <2>3. /\ \A x \in Tabs \ {t} : request'[x] = request[x]
        /\ request'[t].op \in {r.op, "none"}
        /\ request'[t].at \in {"codes", "erase"} \/ (request'[t].at = "answer" /\ ~request'[t].ok)
        /\ request'[t].at = "codes" => request'[t].op \in {"enable", "regenerate"}
        /\ request'[t].at = "erase" => request'[t].op = "disable"
    <3>1. CASE Answers(t, FALSE, 0)
      BY <1>1, <3>1
    <3>2. CASE r.op \in {"enable", "regenerate"} /\ request' = [request EXCEPT ![t].at = "codes"]
      BY <3>2 DEF TwoFactorTypeOK, Request
    <3>3. CASE r.op = "disable" /\ request' = [request EXCEPT ![t].at = "erase", ![t].code = 0]
      BY <3>3 DEF TwoFactorTypeOK, Request
    <3> QED BY <2>2, <3>1, <3>2, <3>3
  <2>4. ~Wrote(t) /\ ~Brings(t)
    BY <2>1 DEF Wrote, Brings
  <2> HIDE DEF r
  <2> QED BY <1>4, <2>1, <2>3, <2>4 DEF HInv
<1>6. CASE fails(t)
  <2>1. /\ ~request'[t].ok /\ request'[t].op = "none" /\ request'[t].at = "answer"
        /\ \A x \in Tabs \ {t} : request'[x] = request[x]
    BY <1>1, <1>6 DEF fails
  <2>2. ~Wrote(t) /\ (mishap' \/ ~Brings(t))
    BY <1>6 DEF fails, Wrote, Brings
  <2> QED BY <1>4, <1>6, <2>1, <2>2 DEF fails
<1>7. CASE saveCodes(t)
  <2>1. /\ r.at = "codes" /\ UNCHANGED <<tabs, last, mishap>> /\ ~shown'
        /\ user' = [user EXCEPT !.codes = made.codes + 1]
        /\ made.codes + 1 \in Nat /\ made.codes + 1 # 0
    BY <1>7 DEF saveCodes, TwoFactorTypeOK
  <2>2. /\ request'[t].got = made.codes + 1 /\ request'[t].op = r.op
        /\ \/ request'[t].at = "activate" /\ r.op = "enable"
           \/ request'[t].at = "answer" /\ request'[t].ok /\ r.op # "enable"
        /\ \A x \in Tabs \ {t} : request'[x] = request[x]
    <3>1. CASE r.op = "enable"
      BY <1>7, <3>1 DEF saveCodes, TwoFactorTypeOK, Request
    <3>2. CASE r.op # "enable"
      <4>1. Answers(t, TRUE, made.codes + 1)
        BY <1>7, <3>2 DEF saveCodes
      <4> QED BY <1>1, <2>1, <3>2, <4>1
    <3> QED BY <3>1, <3>2
  <2> HIDE DEF r
  <2>3. r.op \in {"enable", "regenerate"}
    BY <2>1 DEF StagesFit, r
  <2>4. StagesFit' /\ (FormsFit => FormsFit')
    BY <2>1, <2>2 DEF StagesFit, FormsFit, r
  <2>5. LastWillShow => LastWillShow'
    BY <1>0, <2>1, <2>2, <2>3 DEF LastWillShow, Wrote, StagesFit, r
  <2>6. CodesOnTheWay'
    BY <1>0, <2>1, <2>2, <2>3 DEF CodesOnTheWay, Brings
  <2> QED BY <2>1, <2>4, <2>5, <2>6
<1>8. CASE activate(t)
  <2>1. /\ r.at = "activate" /\ r.op = "enable" /\ UNCHANGED <<tabs, shown>> /\ last' = {t}
        /\ user' = [user EXCEPT !.enabled = TRUE, !.secret = r.code]
        /\ mishap' = (mishap \/ user.codes = 0)
    BY <1>8 DEF activate, StagesFit
  <2>2. /\ request'[t].got = r.got /\ request'[t].op = "enable"
        /\ request'[t].at = "answer" /\ request'[t].ok
        /\ \A x \in Tabs \ {t} : request'[x] = request[x]
    BY <1>0, <1>1, <1>8, <2>1 DEF activate, Request
  <2> HIDE DEF r
  <2>3. StagesFit' /\ LastWillShow' /\ (FormsFit => FormsFit')
    BY <1>0, <2>1, <2>2 DEF StagesFit, FormsFit, LastWillShow, Wrote, r
  <2>4. CodesOnTheWay /\ user.codes # 0 => CodesOnTheWay'
    BY <1>0, <2>1, <2>2 DEF CodesOnTheWay, Brings, r
  <2> QED BY <2>1, <2>3, <2>4
<1>9. CASE erase(t)
  <2>1. /\ r.at = "erase" /\ r.op = "disable" /\ UNCHANGED <<tabs, shown, mishap>> /\ last' = {t}
        /\ user' = [user EXCEPT !.enabled = FALSE, !.secret = 0]
        /\ request'[t].op = "disable" /\ request'[t].at = "forget"
        /\ \A x \in Tabs \ {t} : request'[x] = request[x]
    BY <1>9 DEF erase, Goes, StagesFit, TwoFactorTypeOK, Request
  <2> HIDE DEF r
  <2>2. StagesFit' /\ LastWillShow' /\ (FormsFit => FormsFit')
    BY <1>0, <2>1 DEF StagesFit, FormsFit, LastWillShow, Wrote, r
  <2>3. CodesOnTheWay => CodesOnTheWay'
    BY <1>0, <2>1 DEF CodesOnTheWay, Brings, r
  <2> QED BY <2>1, <2>2, <2>3
<1>10. CASE forget(t)
  <2>1. /\ r.at = "forget" /\ r.op = "disable" /\ UNCHANGED <<tabs, last>>
        /\ request'[t].op = "disable" /\ request'[t].at = "answer" /\ request'[t].ok
        /\ \A x \in Tabs \ {t} : request'[x] = request[x]
    BY <1>0, <1>1, <1>10 DEF forget, StagesFit
  <2>2. ~mishap' => ~mishap /\ ~user.enabled /\ user' = [user EXCEPT !.codes = 0]
    BY <1>10 DEF forget
  <2> HIDE DEF r
  <2>3. StagesFit' /\ (FormsFit => FormsFit')
    BY <1>0, <2>1 DEF StagesFit, FormsFit, r
  <2>4. ~mishap' => CodesOnTheWay'
    BY <1>0, <2>2 DEF CodesOnTheWay
  <2>5. ~mishap' => LastWillShow'
    <3> SUFFICES ASSUME ~mishap', NEW x \in last
                 PROVE  IF Wrote(x)' THEN user'.enabled = (request'[x].op = "enable")
                        ELSE tabs'[x].enabled = user'.enabled
      BY <2>1 DEF LastWillShow
    <3>1. x \in Tabs /\ user'.enabled = user.enabled /\ user.enabled = FALSE
      BY <1>0, <2>2 DEF StagesFit
    <3>2. LastWillShow
      BY <2>2
    <3>3. CASE x = t
      BY <2>1, <3>1, <3>3 DEF Wrote
    <3>4. CASE x # t
      BY <2>1, <3>1, <3>2, <3>4 DEF LastWillShow, Wrote
    <3> QED BY <3>3, <3>4
  <2> QED BY <2>2, <2>3, <2>4, <2>5
<1> QED BY <1>2, <1>3, <1>5, <1>6, <1>7, <1>8, <1>9, <1>10 DEF Server

LEMMA HistoryHolds == Spec => []HInv
<1>1. HInv /\ Next => HInv'
  <2> SUFFICES ASSUME HInv, NEW t \in Tabs, Page(t) \/ Server(t) PROVE HInv'
    BY DEF Next
  <2>1. EInv'
    BY PageKeeps, ServerKeeps DEF HInv
  <2>2. CASE Page(t)
    BY <2>1, <2>2, HistoryOfActs, HistoryOfAnswers DEF Page
  <2>3. CASE Server(t)
    BY <2>1, <2>3, HistoryOfServer
  <2> QED BY <2>2, <2>3
<1>2. HInv /\ UNCHANGED vars => HInv'
  BY DEF vars, history, HInv, EInv, TwoFactorTypeOK, TypedWasScanned, EnabledIsScanned, StagesFit,
         FormsFit, LastWillShow, Wrote, CodesOnTheWay, Brings
<1> QED BY HistoryInit, <1>1, <1>2, PTL DEF Spec

(* The recovery codes in force have been on screen when nothing is in      *)
(* flight, unless an answer was lost or a handler stopped half way: each   *)
(* set that is stored is on its way to a tab until it is shown.            *)
THEOREM SpecCodesWereShown == Spec => []CodesWereShown
<1>1. HInv => CodesWereShown
  BY DEF HInv, CodesWereShown, Quiet, CodesOnTheWay, Brings, NoRequest
<1> QED BY HistoryHolds, <1>1, PTL

(* The tab whose request last changed 2FA shows whether it is on, once     *)
(* nothing is in flight: what it does not show yet, its answer brings.     *)
THEOREM SpecStatusIsTrue == Spec => []StatusIsTrue
<1>1. HInv => StatusIsTrue
  <2> SUFFICES ASSUME HInv, Quiet, ~mishap, NEW t \in last PROVE tabs[t].enabled = user.enabled
    BY DEF StatusIsTrue
  <2>1. t \in Tabs /\ LastWillShow
    BY DEF HInv, StagesFit
  <2>2. ~Wrote(t)
    BY <2>1 DEF Quiet, Wrote, NoRequest
  <2> QED BY <2>1, <2>2 DEF LastWillShow
<1> QED BY HistoryHolds, <1>1, PTL
=============================================================================
