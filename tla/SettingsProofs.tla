--------------------------- MODULE SettingsProofs ---------------------------
(***************************************************************************)
(* For any number of tabs and of saves in flight: a settings page shows    *)
(* what is stored when nothing has crossed it, and undoes no other tab's   *)
(* change that it has read.                                                *)
(***************************************************************************)
EXTENDS PanelSettings, TLAPS

Tab == [stage : {"asked", "seeding", "answered", "open"}, snap : Values,
        form : Values, faithful : BOOLEAN, synced : BOOLEAN]
SaveRec == [stage : {"held", "sent"}, tab : Tabs, value : Values,
            faithful : BOOLEAN, alone : BOOLEAN]

(* What a tab that is up to date has read is what is stored, but for a text *)
(* that was left out.                                                      *)
TabInv(x) ==
  /\ x.stage = "asked" => ~x.faithful
  /\ x.stage \in {"seeding", "answered"} /\ x.faithful => x.snap = stored
  /\ x.stage = "seeding" => x.snap = InitialOf(eye)
  /\ x.stage = "open" /\ x.faithful => x.form = stored \/ LeftOut
  /\ x.synced => x.form = stored \/ (LeftOut /\ x.faithful)

(* So is what a save of it carries; a save that nothing crossed carries    *)
(* what its tab shows.                                                     *)
PutInv(p) == p.faithful => p.value = stored \/ LeftOut
Uncrossed(p) == p.alone => p.value = tabs[p.tab].form

IInv ==
  /\ SettingsTypeOK
  /\ ~row => stored = InitialOf(eye)
  /\ \A t \in Tabs : TabInv(tabs[t])
  /\ \A n \in Slots : puts[n] # None => PutInv(puts[n]) /\ Uncrossed(puts[n])

LEMMA InitialIsValue == ASSUME eye \in Switches \cup Texts PROVE InitialOf(eye) \in Values
BY DEF InitialOf, Values, ValuesOf

LEMMA LoadingTab ==
  ASSUME eye \in Switches \cup Texts
  PROVE  /\ Loading \in [stage : {"asked", "seeding", "answered", "open"}, snap : Values,
                         form : Values, faithful : BOOLEAN, synced : BOOLEAN]
         /\ Loading.stage = "asked" /\ ~Loading.faithful /\ ~Loading.synced
BY InitialIsValue DEF Loading

(* Types are kept one tab and one save at a time.                          *)
LEMMA KeepsType ==
  ASSUME SettingsTypeOK, eye' = eye, row' \in BOOLEAN, stored' \in Values,
         tabs' = [t \in Tabs |-> tabs'[t]],
         puts' = [n \in Slots |-> puts'[n]],
         \A t \in Tabs : tabs'[t] \in Tab,
         \A n \in Slots : puts'[n] \in {None} \cup SaveRec
  PROVE  SettingsTypeOK'
<1>1. Values' = Values
  BY DEF Values
<1> QED BY <1>1 DEF SettingsTypeOK, Tab, SaveRec

(* Every edit is a save or a text typed in the form.                       *)
LEMMA EditsSaveOrType ==
  ASSUME IInv, NEW t \in Tabs, Edits(t)
  PROVE  \/ \E v \in Values, touches \in BOOLEAN, stage \in {"held", "sent"} :
              (touches \/ v = tabs[t].form) /\ persistSettings(t, v, touches, stage)
         \/ \E f \in Texts : Type(t, f)
<1>0. tabs[t].form \in Values
  BY DEF IInv, SettingsTypeOK
<1> DEFINE Saves == \E v \in Values, touches \in BOOLEAN, stage \in {"held", "sent"} :
                      (touches \/ v = tabs[t].form) /\ persistSettings(t, v, touches, stage)
<1>1. ASSUME NEW f, Toggle(t, f) PROVE Saves
  BY <1>0, <1>1 DEF Toggle
<1>2. ASSUME NEW f, NEW stage \in {"held", "sent"}, Choose(t, f, stage) PROVE Saves
  BY <1>0, <1>2 DEF Choose
<1>3. ASSUME NEW f, Save(t, f) PROVE Saves
  BY <1>0, <1>3 DEF Save
<1>4. ASSUME NEW f, handleModalSave(t, f) PROVE Saves
  BY <1>2, <1>4 DEF handleModalSave
<1> HIDE DEF Saves
<1>5. Saves \/ \E f \in Texts : Type(t, f)
  <2>1. CASE NetworkCard(t)
    BY <2>1, <1>3, <1>4 DEF NetworkCard, Texts
  <2>2. CASE SslCard(t) \/ AccessRows(t) \/ ContentRows(t) \/ BackupRow(t) \/ AlarmRows(t)
    BY <2>2, <1>1 DEF SslCard, AccessRows, ContentRows, BackupRow, AlarmRows
  <2>3. CASE AdvancedCard(t)
    BY <2>3, <1>1, <1>2, <1>4 DEF AdvancedCard
  <2>4. CASE AuthCard(t) \/ AccountCard(t) \/ TimeoutRow(t)
    BY <2>4, <1>4 DEF AuthCard, AccountCard, TimeoutRow, Texts
  <2>5. CASE AppearanceRows(t) \/ FolderRows(t) \/ AddressRows(t) \/ TimezoneRow(t)
    BY <2>5, <1>3 DEF AppearanceRows, FolderRows, AddressRows, TimezoneRow, Texts
  <2>6. CASE PasswordRows(t)
    BY <2>6, <1>1, <1>4 DEF PasswordRows, Texts
  <2> QED BY <2>1, <2>2, <2>3, <2>4, <2>5, <2>6 DEF Edits
<1> QED BY <1>5 DEF Saves

(* The record stays as it is: the parts of the invariant, one by one.      *)
LEMMA ReadingKeeps ==
  ASSUME IInv, UNCHANGED <<eye, row, stored>>,
         tabs' = [t \in Tabs |-> tabs'[t]],
         puts' = [n \in Slots |-> puts'[n]],
         \A t \in Tabs : tabs'[t] \in Tab /\ TabInv(tabs'[t]),
         \A n \in Slots : puts'[n] \in {None} \cup SaveRec,
         \A n \in Slots : puts'[n] # None =>
           /\ PutInv(puts'[n])
           /\ puts'[n].alone => puts'[n].value = tabs'[puts'[n].tab].form
  PROVE  IInv' /\ stored' = stored
<1>1. SettingsTypeOK'
  BY KeepsType DEF IInv, SettingsTypeOK
<1>2. \A t \in Tabs : TabInv(tabs[t])'
  BY DEF TabInv, LeftOut
<1>3. \A n \in Slots : puts'[n] # None => PutInv(puts[n])' /\ Uncrossed(puts[n])'
  BY DEF PutInv, Uncrossed, LeftOut
<1>4. (~row => stored = InitialOf(eye))'
  BY DEF IInv
<1> QED BY <1>1, <1>2, <1>3, <1>4 DEF IInv, None

LEMMA SaveKeeps ==
  ASSUME IInv, NEW t \in Tabs, NEW v \in Values, NEW touches \in BOOLEAN,
         NEW stage \in {"held", "sent"}, touches \/ v = tabs[t].form,
         persistSettings(t, v, touches, stage)
  PROVE  IInv' /\ stored' = stored
<1>1. PICK m \in Slots :
        /\ puts[m] = None
        /\ puts' = [k \in Slots |->
             IF k = m THEN [stage |-> stage, tab |-> t, value |-> v,
                            faithful |-> tabs[t].faithful /\ tabs[t].stage = "open" /\ ~touches,
                            alone |-> \A i \in Slots : puts[i] = None]
             ELSE IF puts[k] = None THEN None ELSE [puts[k] EXCEPT !.alone = FALSE]]
        /\ tabs' = [tabs EXCEPT ![t] = Edited(@, v, touches)]
        /\ UNCHANGED <<eye, row, stored>>
  BY DEF persistSettings
<1>2. \A x \in Tabs : tabs'[x] \in Tab /\ TabInv(tabs'[x])
  <2>1. /\ tabs[t] \in Tab /\ TabInv(tabs[t])
        /\ tabs'[t] = Edited(tabs[t], v, touches)
        /\ \A x \in Tabs \ {t} : tabs'[x] = tabs[x] /\ tabs[x] \in Tab /\ TabInv(tabs[x])
    BY <1>1 DEF IInv, SettingsTypeOK, Tab
  <2>2. /\ tabs'[t] \in Tab
        /\ tabs'[t].stage = tabs[t].stage /\ tabs'[t].snap = tabs[t].snap
        /\ tabs'[t].form = v /\ ~tabs'[t].synced
        /\ tabs'[t].faithful => tabs[t].faithful /\ (tabs[t].stage = "open" => ~touches)
    BY <2>1 DEF Edited, Tab
  <2>3. TabInv(tabs'[t])
    BY <2>1, <2>2 DEF TabInv
  <2> QED BY <2>1, <2>2, <2>3
<1>3. \A k \in Slots : puts'[k] \in {None} \cup SaveRec
  BY <1>1 DEF IInv, SettingsTypeOK, SaveRec, None
<1>4. ASSUME NEW k \in Slots, puts'[k] # None
      PROVE  /\ PutInv(puts'[k])
             /\ puts'[k].alone => puts'[k].value = tabs'[puts'[k].tab].form
  <2>1. CASE k = m
    <3>1. /\ puts'[m].value = v /\ puts'[m].tab = t
          /\ puts'[m].faithful => tabs[t].faithful /\ tabs[t].stage = "open" /\ v = tabs[t].form
      BY <1>1
    <3>2. tabs'[t].form = v
      BY <1>1 DEF Edited, IInv, SettingsTypeOK
    <3> QED BY <2>1, <3>1, <3>2 DEF IInv, TabInv, PutInv
  <2>2. CASE k # m
    <3>1. /\ puts[k] # None /\ ~puts'[k].alone /\ puts'[k].value = puts[k].value
          /\ puts'[k].faithful = puts[k].faithful
      BY <1>1, <1>4, <2>2 DEF IInv, SettingsTypeOK, None
    <3> QED BY <3>1 DEF IInv, PutInv
  <2> QED BY <2>1, <2>2
<1> QED BY <1>1, <1>2, <1>3, <1>4, ReadingKeeps DEF IInv, SettingsTypeOK

(* A tab's own record changes and the saves of it are crossed.             *)
LEMMA TabKeeps ==
  ASSUME IInv, NEW t \in Tabs, NEW y \in Tab, TabInv(y),
         tabs' = [tabs EXCEPT ![t] = y],
         \/ puts' = [n \in Slots |-> IF puts[n] # None /\ puts[n].tab = t
                                      THEN [puts[n] EXCEPT !.alone = FALSE] ELSE puts[n]]
         \/ puts' = puts /\ y.form = tabs[t].form,
         UNCHANGED <<eye, row, stored>>
  PROVE  IInv' /\ stored' = stored
<1>1. \A x \in Tabs : tabs'[x] \in Tab /\ TabInv(tabs'[x])
  BY DEF IInv, SettingsTypeOK, Tab
<1>2. tabs' = [x \in Tabs |-> tabs'[x]] /\ puts' = [n \in Slots |-> puts'[n]]
  BY DEF IInv, SettingsTypeOK
<1>3. ASSUME NEW k \in Slots PROVE puts'[k] \in {None} \cup SaveRec
  <2>1. puts[k] \in {None} \cup SaveRec
    BY DEF IInv, SettingsTypeOK, SaveRec
  <2>2. puts'[k] = puts[k] \/ (puts[k] # None /\ puts'[k] = [puts[k] EXCEPT !.alone = FALSE])
    OBVIOUS
  <2> QED BY <2>1, <2>2 DEF SaveRec
<1>4. ASSUME NEW k \in Slots, puts'[k] # None
      PROVE  /\ PutInv(puts'[k])
             /\ puts'[k].alone => puts'[k].value = tabs'[puts'[k].tab].form
  <2>1. /\ puts[k] # None /\ puts[k].tab \in Tabs
        /\ puts'[k].value = puts[k].value /\ puts'[k].tab = puts[k].tab
        /\ puts'[k].faithful = puts[k].faithful
        /\ puts'[k].alone => puts[k].alone /\ (puts[k].tab # t \/ y.form = tabs[t].form)
    BY <1>4 DEF IInv, SettingsTypeOK, None
  <2>2. PutInv(puts[k]) /\ Uncrossed(puts[k])
    BY <2>1 DEF IInv
  <2>3. tabs'[puts[k].tab].form = tabs[puts[k].tab].form \/ (puts[k].tab = t /\ tabs'[t] = y)
    BY <2>1 DEF IInv, SettingsTypeOK
  <2> QED BY <2>1, <2>2, <2>3 DEF PutInv, Uncrossed
<1> QED BY <1>1, <1>2, <1>3, <1>4, ReadingKeeps

LEMMA TypeKeeps ==
  ASSUME IInv, NEW t \in Tabs, NEW f \in Texts, Type(t, f)
  PROVE  IInv' /\ stored' = stored
<1>1. PICK v \in Values :
        /\ tabs' = [tabs EXCEPT ![t] = Edited(tabs[t], v, TRUE)]
        /\ puts' = [n \in Slots |-> IF puts[n] # None /\ puts[n].tab = t
                                    THEN [puts[n] EXCEPT !.alone = FALSE] ELSE puts[n]]
        /\ UNCHANGED <<eye, row, stored>>
  BY DEF Type
<1>2. tabs[t] \in Tab /\ TabInv(tabs[t])
  BY DEF IInv, SettingsTypeOK, Tab
<1>3. Edited(tabs[t], v, TRUE) \in Tab /\ TabInv(Edited(tabs[t], v, TRUE))
  BY <1>2 DEF Edited, Tab, TabInv
<1> QED BY <1>1, <1>3, TabKeeps

(* A write of value w: who has read the field is up to date only if it has *)
(* not changed.                                                            *)
LEMMA WriteKeeps ==
  ASSUME IInv, NEW w \in Values, eye' = eye, row' = TRUE, stored' = w,
         tabs' = [t \in Tabs |-> tabs'[t]],
         puts' = [n \in Slots |-> puts'[n]],
         \A t \in Tabs :
           /\ tabs'[t] \in Tab
           /\ tabs'[t].form = tabs[t].form
           /\ \/ /\ tabs'[t].stage = tabs[t].stage /\ tabs'[t].snap = tabs[t].snap
                 /\ tabs'[t].faithful => tabs[t].faithful /\ w = stored
              \/ tabs'[t].stage = "answered" /\ tabs'[t].snap = w
           /\ tabs'[t].synced => tabs[t].form = w
                \/ (tabs[t].synced /\ w = stored /\ (tabs[t].faithful => tabs'[t].faithful)),
         \A n \in Slots : puts'[n] \in {None} \cup SaveRec,
         \A n \in Slots : puts'[n] # None =>
           /\ puts[n] # None /\ puts'[n].value = puts[n].value
           /\ puts'[n].tab = puts[n].tab /\ puts'[n].alone = puts[n].alone
           /\ puts'[n].faithful => puts[n].faithful /\ w = stored
  PROVE  IInv'
<1>1. SettingsTypeOK'
  BY KeepsType DEF IInv, SettingsTypeOK
<1>2. w = stored => (LeftOut' <=> LeftOut)
  BY DEF LeftOut
<1>3. ASSUME NEW t \in Tabs PROVE TabInv(tabs[t])'
  <2>1. TabInv(tabs[t])
    BY DEF IInv
  <2> QED BY <1>2, <2>1 DEF TabInv
<1>4. ASSUME NEW n \in Slots, puts'[n] # None PROVE PutInv(puts[n])' /\ Uncrossed(puts[n])'
  <2>1. PutInv(puts[n]) /\ Uncrossed(puts[n])
    BY <1>4 DEF IInv
  <2>2. puts[n].tab \in Tabs
    BY <1>4 DEF IInv, SettingsTypeOK, None
  <2> QED BY <1>2, <1>4, <2>1, <2>2 DEF PutInv, Uncrossed
<1> QED BY <1>1, <1>3, <1>4 DEF IInv, None

LEMMA UpdateKeeps ==
  ASSUME IInv, NEW n \in Slots, Update(n)
  PROVE  IInv' /\ (stored' # stored => LeftOut \/ (puts'[n] = None /\ ~puts[n].faithful))
<1> DEFINE w == puts[n].value
<1>1. /\ puts[n] # None /\ w \in Values /\ puts[n].tab \in Tabs
      /\ PutInv(puts[n]) /\ Uncrossed(puts[n])
  BY DEF Update, IInv, SettingsTypeOK, None
<1>2. ASSUME NEW t \in Tabs
      PROVE  /\ tabs'[t] \in Tab
             /\ tabs'[t].form = tabs[t].form
             /\ tabs'[t].stage = tabs[t].stage /\ tabs'[t].snap = tabs[t].snap
             /\ tabs'[t].faithful => tabs[t].faithful /\ w = stored
             /\ tabs'[t].synced => tabs[t].form = w
  <2>1. /\ tabs[t] \in Tab
        /\ tabs'[t] = [tabs[t] EXCEPT !.faithful = StillFaithful(@, w),
                                      !.synced = t = puts[n].tab /\ puts[n].alone]
    BY DEF Update, IInv, SettingsTypeOK, Tab
  <2>2. /\ tabs'[t] \in Tab
        /\ tabs'[t].form = tabs[t].form
        /\ tabs'[t].stage = tabs[t].stage /\ tabs'[t].snap = tabs[t].snap
        /\ tabs'[t].faithful => tabs[t].faithful /\ w = stored
        /\ tabs'[t].synced => t = puts[n].tab /\ puts[n].alone
    BY <1>1, <2>1 DEF Tab, StillFaithful
  <2> QED BY <1>1, <2>2 DEF Uncrossed
<1>3. \A k \in Slots : puts'[k] \in {None} \cup SaveRec
  BY DEF Update, IInv, SettingsTypeOK, SaveRec, None, StillFaithful
<1>4. ASSUME NEW k \in Slots, puts'[k] # None
      PROVE  /\ puts[k] # None /\ puts'[k].value = puts[k].value
             /\ puts'[k].tab = puts[k].tab /\ puts'[k].alone = puts[k].alone
             /\ puts'[k].faithful => puts[k].faithful /\ w = stored
  BY <1>4 DEF Update, IInv, SettingsTypeOK, None, StillFaithful
<1>5. /\ eye' = eye /\ row' = TRUE /\ stored' = w /\ puts'[n] = None
      /\ tabs' = [t \in Tabs |-> tabs'[t]] /\ puts' = [k \in Slots |-> puts'[k]]
  BY DEF Update
<1>6. stored' # stored => LeftOut \/ ~puts[n].faithful
  BY <1>1, <1>5 DEF PutInv
<1> HIDE DEF w
<1>7. IInv'
  BY <1>1, <1>2, <1>3, <1>4, <1>5, WriteKeeps
<1> QED BY <1>5, <1>6, <1>7

LEMMA SeedKeeps ==
  ASSUME IInv, NEW t \in Tabs, Seed(t)
  PROVE  IInv' /\ tabs[t].stage = "seeding" /\ tabs'[t].stage = "answered"
<1> DEFINE w == InitialOf(eye)
<1>1. w \in Values /\ tabs[t] \in Tab /\ tabs[t].stage = "seeding" /\ tabs[t].snap = w
  BY InitialIsValue DEF Seed, IInv, SettingsTypeOK, Tab, TabInv
<1>2. CASE UNCHANGED <<row, stored, puts>> /\ tabs' = [tabs EXCEPT ![t].stage = "answered"]
  <2> DEFINE y == [tabs[t] EXCEPT !.stage = "answered"]
  <2>1. TabInv(tabs[t])
    BY DEF IInv
  <2>2. y \in Tab /\ TabInv(y) /\ y.form = tabs[t].form /\ y.stage = "answered"
    BY <1>1, <2>1 DEF Tab, TabInv
  <2>3. tabs' = [tabs EXCEPT ![t] = y] /\ UNCHANGED <<eye, row, stored, puts>>
    BY <1>2 DEF Seed
  <2> HIDE DEF y
  <2>4. IInv' /\ tabs'[t] = y
    BY <2>2, <2>3, TabKeeps DEF IInv, SettingsTypeOK
  <2> QED BY <1>1, <2>2, <2>4
<1>3. CASE ~(UNCHANGED <<row, stored, puts>> /\ tabs' = [tabs EXCEPT ![t].stage = "answered"])
  <2>1. /\ eye' = eye /\ row' = TRUE /\ stored' = w
        /\ tabs' = [x \in Tabs |-> tabs'[x]] /\ puts' = [k \in Slots |-> puts'[k]]
    BY <1>3 DEF Seed
  <2>2. ASSUME NEW x \in Tabs
        PROVE  /\ tabs'[x] \in Tab
               /\ tabs'[x].form = tabs[x].form
               /\ x # t => /\ tabs'[x].stage = tabs[x].stage /\ tabs'[x].snap = tabs[x].snap
                           /\ tabs'[x].faithful <=> tabs[x].faithful /\ w = stored
               /\ x = t => /\ tabs'[x].stage = "answered" /\ tabs'[x].snap = tabs[x].snap
                           /\ tabs'[x].faithful
               /\ tabs'[x].synced => tabs[x].synced /\ w = stored
    <3>1. /\ tabs[x] \in Tab
          /\ tabs'[x] = IF x = t
               THEN [[tabs[x] EXCEPT !.synced = @ /\ w = stored]
                       EXCEPT !.stage = "answered", !.faithful = TRUE]
               ELSE [[tabs[x] EXCEPT !.synced = @ /\ w = stored]
                       EXCEPT !.faithful = @ /\ w = stored]
      <4>1. tabs[x] \in Tab
        BY DEF IInv, SettingsTypeOK, Tab
      <4>2. tabs' = [u \in Tabs |-> IF u = t
               THEN [[tabs[u] EXCEPT !.synced = @ /\ w = stored]
                       EXCEPT !.stage = "answered", !.faithful = TRUE]
               ELSE [[tabs[u] EXCEPT !.synced = @ /\ w = stored]
                       EXCEPT !.faithful = @ /\ w = stored]]
        BY <1>3 DEF Seed, StillFaithful
      <4> QED BY <4>1, <4>2
    <3> QED BY <3>1 DEF Tab
  <2>3. \A k \in Slots : puts'[k] \in {None} \cup SaveRec
    <3>1. ASSUME NEW k \in Slots PROVE puts'[k] \in {None} \cup SaveRec
      <4>1. puts[k] \in {None} \cup SaveRec
        BY DEF IInv, SettingsTypeOK, SaveRec
      <4>2. puts'[k] = IF puts[k] = None THEN None
                       ELSE [puts[k] EXCEPT !.faithful = @ /\ w = stored]
        BY <1>3 DEF Seed, StillFaithful
      <4> QED BY <4>1, <4>2 DEF SaveRec
    <3> QED BY <3>1
  <2>4. ASSUME NEW k \in Slots, puts'[k] # None
        PROVE  /\ puts[k] # None /\ puts'[k].value = puts[k].value
               /\ puts'[k].tab = puts[k].tab /\ puts'[k].alone = puts[k].alone
               /\ puts'[k].faithful => puts[k].faithful /\ w = stored
    <3>1. puts[k] \in {None} \cup SaveRec
      BY DEF IInv, SettingsTypeOK, SaveRec
    <3>2. puts'[k] = IF puts[k] = None THEN None
                     ELSE [puts[k] EXCEPT !.faithful = @ /\ w = stored]
      BY <1>3 DEF Seed, StillFaithful
    <3> QED BY <2>4, <3>1, <3>2 DEF SaveRec
  <2> HIDE DEF w
  <2>5. IInv'
    BY <1>1, <2>1, <2>2, <2>3, <2>4, WriteKeeps
  <2> QED BY <1>1, <2>2, <2>5
<1> QED BY <1>2, <1>3

LEMMA LoadKeeps ==
  ASSUME IInv, NEW t \in Tabs, loadSettings(t)
  PROVE  IInv' /\ stored' = stored
<1> DEFINE c == tabs[t]
           kept == eye \in Guarded /\ c.snap = ""
           y == [Loading EXCEPT !.stage = "open", !.form = IF kept THEN c.form ELSE c.snap,
                                !.faithful = c.faithful, !.synced = c.faithful]
<1>1. /\ c \in Tab /\ TabInv(c) /\ c.stage = "answered" /\ InitialOf(eye) \in Values
  BY InitialIsValue DEF loadSettings, IInv, SettingsTypeOK, Tab
<1>2. /\ y \in Tab /\ y.stage = "open" /\ y.faithful = c.faithful /\ y.synced = c.faithful
      /\ y.form = IF kept THEN c.form ELSE c.snap
  BY <1>1 DEF Tab, Loading
<1>3. TabInv(y)
  BY <1>1, <1>2 DEF TabInv, LeftOut
<1>4. tabs' = [tabs EXCEPT ![t] = y]
  BY DEF loadSettings
<1> HIDE DEF y
<1> QED BY <1>2, <1>3, <1>4, TabKeeps DEF loadSettings

LEMMA PageKeeps ==
  ASSUME IInv, NEW t \in Tabs, Get(t, TRUE) \/ Get(t, FALSE) \/ loadFails(t) \/ Reload(t)
  PROVE  IInv' /\ stored' = stored
<1>1. /\ InitialOf(eye) \in Values /\ tabs[t] \in Tab /\ TabInv(tabs[t])
      /\ stored \in Values /\ (~row => stored = InitialOf(eye))
      /\ Loading = [stage |-> "asked", snap |-> InitialOf(eye), form |-> InitialOf(eye),
                    faithful |-> FALSE, synced |-> FALSE]
  BY InitialIsValue DEF IInv, SettingsTypeOK, Tab, Loading
<1>2. ASSUME NEW ok \in BOOLEAN, Get(t, ok) PROVE IInv' /\ stored' = stored
  <2> DEFINE y == [tabs[t] EXCEPT !.stage = IF ok /\ ~row THEN "seeding" ELSE "answered",
                                  !.faithful = ok,
                                  !.snap = IF ok THEN stored ELSE InitialOf(eye)]
  <2>1. y \in Tab /\ TabInv(y) /\ y.form = tabs[t].form
    <3>1. /\ y.form = tabs[t].form /\ y.faithful = ok /\ y.synced = tabs[t].synced
          /\ y.stage \in {"seeding", "answered"}
          /\ y.snap = IF ok THEN stored ELSE InitialOf(eye)
          /\ y.stage = "seeding" => ok /\ ~row
      BY <1>1 DEF Tab
    <3>2. y \in Tab
      BY <1>1 DEF Tab
    <3>3. ~tabs[t].faithful
      BY <1>1, <1>2 DEF Get, TabInv
    <3> HIDE DEF y
    <3>4. TabInv(y)
      BY <1>1, <3>1, <3>3 DEF TabInv
    <3> QED BY <3>1, <3>2, <3>4
  <2>2. tabs' = [tabs EXCEPT ![t] = y] /\ UNCHANGED <<eye, row, stored, puts>>
    BY <1>2 DEF Get, IInv, SettingsTypeOK
  <2> HIDE DEF y
  <2> QED BY <2>1, <2>2, TabKeeps
<1>3. CASE loadFails(t)
  <2> DEFINE y == [Loading EXCEPT !.stage = "open", !.form = tabs[t].form]
  <2>1. /\ y \in Tab /\ y.stage = "open" /\ ~y.faithful /\ ~y.synced
        /\ y.form = tabs[t].form
    BY <1>1 DEF Tab, Loading
  <2>2. TabInv(y)
    BY <2>1 DEF TabInv
  <2>3. tabs' = [tabs EXCEPT ![t] = y] /\ UNCHANGED <<eye, row, stored, puts>>
    BY <1>3 DEF loadFails
  <2> HIDE DEF y
  <2> QED BY <2>1, <2>2, <2>3, TabKeeps
<1>4. CASE Reload(t)
  <2>1. Loading \in Tab /\ TabInv(Loading)
    BY <1>1 DEF Tab, TabInv
  <2> QED BY <1>4, <2>1, TabKeeps DEF Reload
<1> QED BY <1>2, <1>3, <1>4

LEMMA PutKeeps ==
  ASSUME IInv, NEW n \in Slots, Drop(n) \/ Resume(n)
  PROVE  IInv' /\ stored' = stored
<1>1. \A t \in Tabs : tabs'[t] \in Tab /\ TabInv(tabs'[t])
  BY DEF Drop, Resume, IInv, SettingsTypeOK, Tab
<1>2. tabs' = [x \in Tabs |-> tabs'[x]] /\ puts' = [k \in Slots |-> puts'[k]]
  BY DEF Drop, Resume, IInv, SettingsTypeOK
<1>3. \A k \in Slots : puts'[k] \in {None} \cup SaveRec
  BY DEF Drop, Resume, IInv, SettingsTypeOK, SaveRec, None
<1>4. ASSUME NEW k \in Slots, puts'[k] # None
      PROVE  /\ PutInv(puts'[k])
             /\ puts'[k].alone => puts'[k].value = tabs'[puts'[k].tab].form
  <2>1. /\ puts[k] # None /\ puts'[k].value = puts[k].value /\ puts'[k].tab = puts[k].tab
        /\ puts'[k].faithful = puts[k].faithful /\ puts'[k].alone = puts[k].alone
    BY <1>4 DEF Drop, Resume, IInv, SettingsTypeOK, None
  <2>2. PutInv(puts[k]) /\ Uncrossed(puts[k]) /\ tabs' = tabs
    BY <2>1 DEF IInv, Drop, Resume
  <2> QED BY <2>1, <2>2 DEF PutInv, Uncrossed
<1>5. UNCHANGED <<eye, row, stored>>
  BY DEF Drop, Resume
<1> QED BY <1>1, <1>2, <1>3, <1>4, <1>5, ReadingKeeps

(* What a step may do: the inductive invariant is kept, and a field that   *)
(* changes is changed by a save that was not faithful to it, was left out  *)
(* of the form that changes it, or gets its default.                       *)
Undone ==
  \/ LeftOut
  \/ \E t \in Tabs : tabs[t].stage = "seeding" /\ tabs'[t].stage = "answered"
  \/ \E n \in Slots : puts[n] # None /\ puts'[n] = None /\ ~puts[n].faithful

LEMMA StepKeeps ==
  ASSUME IInv, Next
  PROVE  IInv' /\ (stored' # stored => Undone)
<1>1. ASSUME NEW t \in Tabs, Edits(t) PROVE IInv' /\ stored' = stored
  BY <1>1, EditsSaveOrType, SaveKeeps, TypeKeeps
<1>2. ASSUME NEW t \in Tabs, loadSettings(t) PROVE IInv' /\ stored' = stored
  BY <1>2, LoadKeeps
<1>3. ASSUME NEW n \in Slots, Update(n) PROVE IInv' /\ (stored' # stored => Undone)
  BY <1>3, UpdateKeeps DEF Update, Undone
<1>4. ASSUME NEW t \in Tabs, Get(t, TRUE) \/ Get(t, FALSE) \/ loadFails(t) \/ Reload(t)
      PROVE IInv' /\ stored' = stored
  BY <1>4, PageKeeps
<1>5. ASSUME NEW n \in Slots, Drop(n) \/ Resume(n) PROVE IInv' /\ stored' = stored
  BY <1>5, PutKeeps
<1>6. ASSUME NEW t \in Tabs, Seed(t) PROVE IInv' /\ Undone
  BY <1>6, SeedKeeps DEF Undone
<1> QED BY <1>1, <1>2, <1>3, <1>4, <1>5, <1>6 DEF Next

LEMMA InitHolds == Init => IInv
<1> SUFFICES ASSUME Init PROVE IInv
  OBVIOUS
<1>1. eye \in Switches \cup Texts /\ InitialOf(eye) \in Values
  BY SettingsAssumption, InitialIsValue DEF Init
<1>2. SettingsTypeOK
  BY <1>1, LoadingTab DEF Init, SettingsTypeOK
<1>3. \A t \in Tabs : TabInv(tabs[t])
  BY <1>1, LoadingTab DEF Init, TabInv
<1> QED BY <1>2, <1>3 DEF Init, IInv

LEMMA StutterKeeps == IInv /\ UNCHANGED vars => IInv' /\ stored' = stored
<1> SUFFICES ASSUME IInv, UNCHANGED vars PROVE IInv' /\ stored' = stored
  OBVIOUS
<1>1. \A t \in Tabs : tabs'[t] \in Tab /\ TabInv(tabs'[t])
  BY DEF vars, IInv, SettingsTypeOK, Tab
<1>2. \A n \in Slots : puts'[n] \in {None} \cup SaveRec
  BY DEF vars, IInv, SettingsTypeOK, SaveRec
<1>3. \A n \in Slots : puts'[n] # None =>
        PutInv(puts'[n]) /\ (puts'[n].alone => puts'[n].value = tabs'[puts'[n].tab].form)
  BY DEF vars, IInv, Uncrossed
<1>4. /\ UNCHANGED <<eye, row, stored>>
      /\ tabs' = [t \in Tabs |-> tabs'[t]] /\ puts' = [n \in Slots |-> puts'[n]]
  BY DEF vars, IInv, SettingsTypeOK
<1> QED BY <1>1, <1>2, <1>3, <1>4, ReadingKeeps

THEOREM Invariance == Spec => []IInv
<1>1. IInv /\ [Next]_vars => IInv'
  BY StepKeeps, StutterKeeps
<1> QED BY InitHolds, <1>1, PTL DEF Spec

(* Tabs, saves and the stored record keep their shapes.                    *)
THEOREM SettingsTypes == Spec => []SettingsTypeOK
<1>1. IInv => SettingsTypeOK
  BY DEF IInv
<1> QED BY Invariance, <1>1, PTL

(* A settings page shows what is stored while nothing crosses it, but for  *)
(* a text stored empty that loadSettings left out.                         *)
THEOREM SpecSyncedIsStored == Spec => []SyncedIsStored
<1>1. IInv => SyncedIsStored
  BY DEF IInv, TabInv, SyncedIsStored
<1> QED BY Invariance, <1>1, PTL

(* A save never takes back a change that its own tab has read, but for a   *)
(* text stored empty; and no read takes one back, but the one that found   *)
(* no row and writes the defaults.                                         *)
THEOREM SpecNobodyElseIsUndone == Spec => NobodyElseIsUndone
<1>1. IInv /\ [Next]_vars => [stored' # stored => Undone]_vars
  BY StepKeeps, StutterKeeps
<1>2. IInv /\ [Next]_vars =>
        [stored' # stored =>
           \/ LeftOut
           \/ \E t \in Tabs : tabs[t].stage = "seeding" /\ tabs'[t].stage = "answered"
           \/ \E n \in Slots : puts[n] # None /\ puts'[n] = None /\ ~puts[n].faithful]_vars
  BY <1>1 DEF Undone
<1> QED BY Invariance, <1>2, PTL DEF Spec, NobodyElseIsUndone
=============================================================================
