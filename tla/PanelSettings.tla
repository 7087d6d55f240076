---------------------------- MODULE PanelSettings ----------------------------
(***************************************************************************)
(* The panel's settings (apps/web/src/app/settings/page.tsx), one record   *)
(* of some forty fields that every open page holds whole.  A page fills    *)
(* its form when the record arrives; each switch, modal and Save sends the *)
(* WHOLE record as the page holds it, and the server replaces its own.     *)
(*                                                                         *)
(* Fields never read each other, so one of them, eye, is watched: a save   *)
(* of another field matters only by the value of eye it carries along.     *)
(* Not watched: the addresses, which the server resolves itself            *)
(* (server_ip, mail_server_*, detected_public_ip, server_time), the        *)
(* certificate's days and google_auth, which mirrors module TwoFactor.     *)
(***************************************************************************)
EXTENDS Naturals

CONSTANTS
  Tabs,     \* browser tabs that have the page open
  Slots,    \* bound: saves in flight at once, 1..n
  Watched   \* the fields of which one is watched

VARIABLES
  eye,      \* the field that is watched
  row,      \* system_settings has its row
  stored,   \* the field's value in it; the default while there is none
  tabs,     \* what each tab holds of it
  puts      \* the saves in flight

vars == <<eye, row, stored, tabs, puts>>

Switches == {"ssl_enabled", "dev_mode", "api_enabled", "close_panel", "ipv6_enabled",
             "offline_mode", "cdn_proxy", "home_bulletin", "site_monitor",
             "auto_fetch_favicon", "auto_backup_panel", "security_alarm", "basic_auth",
             "strong_password"}
Texts == {"panel_domain", "panel_port", "security_entrance", "authorized_ip", "api_key",
          "panel_user", "bound_account", "panel_theme", "panel_alias", "session_timeout",
          "default_site_folder", "timezone_city", "not_logged_in_response", "password_expire"}
\* The texts that start out empty in the form.
Blank == {"panel_domain", "authorized_ip"}
\* loadSettings leaves a field alone when it is stored empty ("if (s.x)").
Guarded == Texts \ {"panel_domain", "authorized_ip"}

ASSUME SettingsAssumption == Watched \subseteq Switches \cup Texts

ValuesOf(f) == IF f \in Switches THEN {"off", "on"} ELSE {"", "set"}
\* Bug: a switch starts out undefined.
InitialUndefined(f) == IF f \in Switches \cup Blank THEN "" ELSE "set"

\* What the form starts out with, and the server's defaultSystemSettings.
InitialOf(f) == IF f \in Switches THEN "off" ELSE IF f \in Blank THEN "" ELSE "set"

Values == ValuesOf(eye)

(* A tab.  stage: its record was asked for, was not found and is about to  *)
(* be written, was answered with snap, or is on screen; form: the field in *)
(* the form; faithful: what was read has not been changed on the server    *)
(* since, nor in the form by the user; synced: the record was put in the   *)
(* form, or the form has been stored, and nobody has saved since.          *)
Loading == [stage |-> "asked", snap |-> InitialOf(eye), form |-> InitialOf(eye),
            faithful |-> FALSE, synced |-> FALSE]

None == [stage |-> "none"]

Edited(c, value, touches) ==
  [c EXCEPT !.form = value, !.synced = FALSE,
            !.faithful = IF touches /\ c.stage = "open" THEN FALSE ELSE @]

-----------------------------------------------------------------------------
(* persistSettings: the record as the tab holds it with the one field that *)
(* is being saved.  alone: no other save, no typing and no loading crosses *)
(* it.  A held save waits for the answer to another request.               *)
persistSettings(t, value, touches, stage) ==
  \E n \in Slots :
    /\ puts[n] = None /\ \A k \in Slots : k < n => puts[k] # None
    /\ puts' = [k \in Slots |->
         IF k = n THEN [stage |-> stage, tab |-> t, value |-> value,
                        faithful |-> tabs[t].faithful /\ tabs[t].stage = "open" /\ ~touches,
                        alone |-> \A i \in Slots : puts[i] = None]
         ELSE IF puts[k] = None THEN None ELSE [puts[k] EXCEPT !.alone = FALSE]]
    /\ tabs' = [tabs EXCEPT ![t] = Edited(@, value, touches)]
    /\ UNCHANGED <<eye, row, stored>>

\* A switch is flipped and saved.
Toggle(t, f) ==
  IF f = eye THEN \E v \in Values \ {tabs[t].form} : persistSettings(t, v, TRUE, "sent")
  ELSE persistSettings(t, tabs[t].form, FALSE, "sent")

\* A text is replaced and saved.
Choose(t, f, stage) ==
  IF f = eye THEN \E v \in Values : persistSettings(t, v, TRUE, stage)
  ELSE persistSettings(t, tabs[t].form, FALSE, stage)

\* A text is changed in the form only.
Type(t, f) ==
  /\ f = eye
  /\ \E v \in Values \ {tabs[t].form} :
       tabs' = [tabs EXCEPT ![t] = Edited(@, v, TRUE)]
  /\ puts' = [n \in Slots |-> IF puts[n] # None /\ puts[n].tab = t
                              THEN [puts[n] EXCEPT !.alone = FALSE] ELSE puts[n]]
  /\ UNCHANGED <<eye, row, stored>>

\* Bug: the form's initial values are sent along.
SaveInitial(t, f) == persistSettings(t, InitialOf(eye), FALSE, "sent")

\* A text in the form is saved as it stands.
Save(t, f) == persistSettings(t, tabs[t].form, FALSE, "sent")

\* The two modals that first send a change of the account, and save with the
\* values of the render they were opened in when that has been answered.
handleModalSave(t, f) == Choose(t, f, IF f \in {"panel_user", "panel_pass"} THEN "held" ELSE "sent")

-----------------------------------------------------------------------------
(* The cards and rows of the page.                                         *)
NetworkCard(t) ==
  \/ Type(t, "panel_domain") \/ Save(t, "panel_domain")
  \/ handleModalSave(t, "panel_port") \/ handleModalSave(t, "security_entrance")
SslCard(t) == Toggle(t, "ssl_enabled")
AdvancedCard(t) ==
  \/ Toggle(t, "dev_mode") \/ Toggle(t, "api_enabled")
  \/ handleModalSave(t, "authorized_ip") \/ Choose(t, "api_key", "sent")
AuthCard(t) == handleModalSave(t, "panel_user") \/ handleModalSave(t, "panel_pass")
AccountCard(t) == handleModalSave(t, "bound_account") \/ Type(t, "bound_account")
AccessRows(t) == \E f \in {"close_panel", "ipv6_enabled", "offline_mode", "cdn_proxy"} : Toggle(t, f)
ContentRows(t) == \E f \in {"home_bulletin", "site_monitor", "auto_fetch_favicon"} : Toggle(t, f)
BackupRow(t) == Toggle(t, "auto_backup_panel")
\* They report that they are saved, and wait for another field's save.
AppearanceRows(t) == Type(t, "panel_theme") \/ Type(t, "panel_alias")
TimeoutRow(t) == handleModalSave(t, "session_timeout")
FolderRows(t) == Type(t, "default_site_folder") \/ Save(t, "default_site_folder")
AddressRows(t) == Save(t, "server_ip")
TimezoneRow(t) == Type(t, "timezone_city") \/ Save(t, "timezone_city")
AlarmRows(t) == Toggle(t, "security_alarm") \/ Toggle(t, "basic_auth")
PasswordRows(t) ==
  \/ Toggle(t, "strong_password")
  \/ Type(t, "authorized_ip") \/ Type(t, "password_expire")
  \/ handleModalSave(t, "not_logged_in_response")

Edits(t) ==
  \/ NetworkCard(t) \/ SslCard(t) \/ AdvancedCard(t) \/ AuthCard(t) \/ AccountCard(t)
  \/ AccessRows(t) \/ ContentRows(t) \/ BackupRow(t) \/ AppearanceRows(t) \/ TimeoutRow(t)
  \/ FolderRows(t) \/ AddressRows(t) \/ TimezoneRow(t)
  \/ AlarmRows(t) \/ PasswordRows(t)

-----------------------------------------------------------------------------
(* The server.  When the database does not answer, GetSystemSettings       *)
(* answers the defaults and UpdateSystemSettings keeps nothing, both       *)
(* without an error.                                                       *)
Get(t, ok) ==
  /\ tabs[t].stage = "asked"
  /\ tabs' = [tabs EXCEPT ![t].stage = IF ok /\ ~row THEN "seeding" ELSE "answered",
                          ![t].faithful = ok,
                          ![t].snap = IF ok THEN stored ELSE InitialOf(eye)]
  /\ UNCHANGED <<eye, row, stored, puts>>

\* Once a write has changed the field, what was read before is out of date.
StillFaithful(faithful, new) == faithful /\ new = stored

\* GetSystemSettings has found no row: it writes the defaults over whatever has
\* been saved by now, ON CONFLICT DO UPDATE, and drops the error of that write.
Seed(t) ==
  LET new == InitialOf(eye)
      carry(x) == [x EXCEPT !.synced = x.synced /\ new = stored] IN
  /\ tabs[t].stage = "seeding"
  /\ \/ /\ row' = TRUE /\ stored' = new
        /\ tabs' = [u \in Tabs |-> IF u = t
                      THEN [carry(tabs[t]) EXCEPT !.stage = "answered", !.faithful = TRUE]
                      ELSE [carry(tabs[u]) EXCEPT !.faithful = StillFaithful(@, new)]]
        /\ puts' = [k \in Slots |-> IF puts[k] = None THEN None ELSE
                      [puts[k] EXCEPT !.faithful = StillFaithful(@, new)]]
     \/ /\ tabs' = [tabs EXCEPT ![t].stage = "answered"]
        /\ UNCHANGED <<row, stored, puts>>
  /\ UNCHANGED eye

\* Bug: an empty value does not replace a stored one.
UpdateKeepsEmpty(n) ==
  LET p == puts[n]
      new == IF p.value = "" THEN stored ELSE p.value IN
  /\ p # None /\ p.stage = "sent"
  /\ row' = TRUE /\ stored' = new
  /\ tabs' = [t \in Tabs |-> [tabs[t] EXCEPT !.faithful = StillFaithful(@, new),
                                             !.synced = t = p.tab /\ p.alone]]
  /\ puts' = [k \in Slots |-> IF k = n \/ puts[k] = None THEN None
                              ELSE [puts[k] EXCEPT !.faithful = StillFaithful(@, new)]]
  /\ UNCHANGED eye

Update(n) ==
  LET p == puts[n] IN
  /\ p # None /\ p.stage = "sent"
  /\ row' = TRUE /\ stored' = p.value
  /\ tabs' = [t \in Tabs |-> [tabs[t] EXCEPT !.faithful = StillFaithful(@, p.value),
                                             !.synced = t = p.tab /\ p.alone]]
  /\ puts' = [k \in Slots |-> IF k = n \/ puts[k] = None THEN None
                              ELSE [puts[k] EXCEPT !.faithful = StillFaithful(@, p.value)]]
  /\ UNCHANGED eye

\* Refused, lost, or kept nowhere: the form is left as it is.
Drop(n) ==
  /\ puts[n] # None
  /\ puts' = [puts EXCEPT ![n] = None]
  /\ UNCHANGED <<eye, row, stored, tabs>>

-----------------------------------------------------------------------------
(* The page.                                                               *)
\* The record is put in the form, field by field, over what was typed; a text
\* that was answered empty is left out when it is guarded.
loadSettings(t) ==
  LET c == tabs[t]
      kept == eye \in Guarded /\ c.snap = "" IN
  /\ c.stage = "answered"
  /\ tabs' = [tabs EXCEPT ![t] =
       [Loading EXCEPT !.stage = "open", !.form = IF kept THEN c.form ELSE c.snap,
                       !.faithful = c.faithful, !.synced = c.faithful]]
  /\ puts' = [n \in Slots |-> IF puts[n] # None /\ puts[n].tab = t
                              THEN [puts[n] EXCEPT !.alone = FALSE] ELSE puts[n]]
  /\ UNCHANGED <<eye, row, stored>>

\* The request or its answer is lost: the page shows what the form holds, its
\* initial values, as the settings.
loadFails(t) ==
  /\ tabs[t].stage \in {"asked", "answered"}
  /\ tabs' = [tabs EXCEPT ![t] = [Loading EXCEPT !.stage = "open", !.form = tabs[t].form]]
  /\ UNCHANGED <<eye, row, stored, puts>>

Reload(t) ==
  /\ tabs[t].stage = "open"
  /\ tabs' = [tabs EXCEPT ![t] = Loading]
  /\ puts' = [n \in Slots |-> IF puts[n] # None /\ puts[n].tab = t
                              THEN [puts[n] EXCEPT !.alone = FALSE] ELSE puts[n]]
  /\ UNCHANGED <<eye, row, stored>>

\* The account has answered, the record follows.
Resume(n) ==
  /\ puts[n] # None /\ puts[n].stage = "held"
  /\ puts' = [puts EXCEPT ![n].stage = "sent"]
  /\ UNCHANGED <<eye, row, stored, tabs>>

Init ==
  /\ eye \in Watched
  /\ row \in BOOLEAN
  /\ stored \in IF row THEN Values ELSE {InitialOf(eye)}
  /\ tabs = [t \in Tabs |-> Loading]
  /\ puts = [n \in Slots |-> None]

Next ==
  \/ \E t \in Tabs : Edits(t) \/ loadSettings(t) \/ loadFails(t) \/ Reload(t)
                      \/ Get(t, TRUE) \/ Get(t, FALSE) \/ Seed(t)
  \/ \E n \in Slots : Update(n) \/ Drop(n) \/ Resume(n)

Spec == Init /\ [][Next]_vars

-----------------------------------------------------------------------------
(* A switch is on or off and a text empty or not, in every tab, every save *)
(* on its way and the store.                                               *)
SettingsTypeOK ==
  /\ eye \in Switches \cup Texts /\ row \in BOOLEAN /\ stored \in Values
  /\ tabs \in [Tabs -> [stage : {"asked", "seeding", "answered", "open"}, snap : Values,
                        form : Values, faithful : BOOLEAN, synced : BOOLEAN]]
  /\ puts \in [Slots -> {None} \cup
                 [stage : {"held", "sent"}, tab : Tabs, value : Values,
                  faithful : BOOLEAN, alone : BOOLEAN]]

(* loadSettings leaves a guarded text out that is stored empty             *)
(* (settings/page.tsx:261-298): the form keeps its own value of it.        *)
LeftOut == eye \in Guarded /\ stored = ""

(* A field that the user of a tab left alone is changed by no save of that *)
(* tab.  A tab that read the record after a field's last change stores it  *)
(* as it was, whatever else it saves, in whatever order saves and answers  *)
(* arrive, and whatever the other tabs do.  Two cases are excepted, in     *)
(* which the code itself undoes a change: a guarded text stored empty,     *)
(* which a tab that read it overwrites with the value it started with      *)
(* (LeftOut), and the defaults that GetSystemSettings writes when it found *)
(* no row (settings_store.go:94-97), over a save that came in between.  A  *)
(* tab out of date, loading, or whose load failed, undoes what the others  *)
(* have changed.                                                           *)
NobodyElseIsUndone ==
  [][stored' # stored =>
       \/ LeftOut
       \/ \E t \in Tabs : tabs[t].stage = "seeding" /\ tabs'[t].stage = "answered"
       \/ \E n \in Slots : puts[n] # None /\ puts'[n] = None /\ ~puts[n].faithful]_vars

(* What a page shows is what is stored, from the moment it is loaded, or   *)
(* one of its saves that nothing crossed has been carried out, until       *)
(* someone types or saves.  One case is excepted: a page that has loaded a *)
(* guarded text stored empty, and has not changed it, shows the value it   *)
(* started with (LeftOut).                                                 *)
SyncedIsStored ==
  \A t \in Tabs : tabs[t].synced =>
    \/ tabs[t].form = stored
    \/ LeftOut /\ tabs[t].faithful
=============================================================================
