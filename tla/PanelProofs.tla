---------------------------- MODULE PanelProofs ----------------------------
(***************************************************************************)
(* For any things to select, and any number of changes and of fetches in   *)
(* flight: a page shows what is selected, with what the user has done.     *)
(***************************************************************************)
EXTENDS WebPanel, SequenceTheorems, TLAPS

(* Selections, and where a handler may lead.                               *)
Selections == Places \X Places
Goals == (Places \cup {"same"}) \X (Places \cup {"same"})

-----------------------------------------------------------------------------
(* Whether the page keeps the pane fresh at tab t, selection s and modal   *)
(* m: it fetches or clears the pane on every way there.  Other panes may   *)
(* be of another selection until they are shown again.                     *)
KeptByConsole(t, s) ==
  /\ s[1] # ""
  /\ \/ eye.name \in {"tree", "details"}
     \/ eye.name = t /\ t \in {"structure", "browse"} /\ s[2] # ""
     \/ eye.name = "aux" /\ t = "entities"
     \/ eye.name = "privileges" /\ t = "privileges"

KeptByEmail(t, s, m) ==
  \/ eye.name \in {"domains", "mailboxes", "servers"} \/ eye.name = t
  \/ eye.name = "rateControl" /\ t = "queue"
  \/ eye.name = "records" /\ m = "dns"
  \/ eye.name \in {"limits", "probe"} /\ m = eye.name
  \/ eye.name \in {"smtp", "health"} /\ s[1] = ""

WordPressPanes == {"details", "plugins", "themes", "popular"}

Kept(t, s, m) ==
  /\ page = "console" => KeptByConsole(t, s)
  /\ page = "email" => KeptByEmail(t, s, m)
  /\ page = "websites" /\ eye.name = "isolation" => m = "isolation"
  /\ page = "files" => eye.name # (IF t = "files" THEN "trash" ELSE "listing")
  /\ page = "backups" /\ eye.name = "tree" => m = "tree"
  /\ page = "backups" /\ eye.name = "policy" => m = "prune"
  /\ page = "tools" /\ eye.name \in WordPressPanes => t # "installed"
  /\ page = "domains" /\ eye.name \in {"nameservers", "lock", "epp"} => m = "manage"
  /\ page = "domains" /\ eye.name \in {"dns", "contacts"} => m = "manage" /\ s[2] = eye.name
  /\ page = "support" /\ eye.name = "thread" => m = "thread"
  /\ page = "webservers" /\ eye.name = "config" => t = "config" \/ s[1] = ""
Held == Kept(tab, sel, modal)

-----------------------------------------------------------------------------
(* The panes that an answer may be put in whole.                           *)
Wholes == page = "support" \/ (page = "domains" /\ eye.name # "nameservers")

(* What a handler may do to the pane.                                      *)
Mine(panes) == panes \subseteq {eye.name}
HandlerFits(h) ==
  /\ Mine(h.writes) /\ Mine(h.asks) /\ Mine(h.before) /\ Mine(h.after)
  /\ Mine(h.clears) /\ Mine(h.follows) /\ Mine(h.orElse)
  /\ h.visits \in Places /\ h.toSel \in Goals
  /\ "done" \in h.goesOn
  /\ page \notin {"console", "email"} => h.toSel = <<"same", "same">>
  /\ page \notin {"email", "servers", "lists"} => h.opens = "none"
  /\ page \in {"lists", "domains", "backups"} => h.toTab = "same"
  /\ page = "tools" => h.toTab \in {"same", "installed"}
  /\ page # "files" => h.visits = ""
  /\ h.before # {} => ~Wholes
  /\ h.whole /\ h.after # {} => Wholes
  /\ h.clears # {} => page = "email" /\ eye.name = "records" /\ h.toSel[1] \notin {"", "same"}
  /\ page = "email" =>
       /\ h.toSel[1] = "same" \/ (h.toSel[1] # "" /\ (eye.name \in {"smtp", "health"} \/ h.clears # {}))
       /\ h.opens = "dns" /\ eye.name = "records" => h.clears # {}
       /\ h.opens \in {"none", "verified", "dns"}
       /\ h.toTab \in {"same", "servers"}

Full(s) == \A i \in 1..eye.scope : s[i] # ""
IsChange(c) ==
  c \in [stage : {"sent", "done", "refused", "lost", "failed"}, at : Selections,
         from : {c.from}, moved : BOOLEAN, over : BOOLEAN, h : {c.h}]

(* Where a change that is done leads.                                      *)
Led(to, from) == IF to # "same" THEN to ELSE from
TabOn(h) == Led(h.toTab, tab)
SelOn(h) == <<Led(h.toSel[1], sel[1]), Led(h.toSel[2], sel[2])>>

(* The panes that no modal shows.                                          *)
WithoutModal ==
  page \in {"console", "files", "tools"} \/ (page = "email" /\ eye.name \in {"queue", "logs"})

(* A change that will be reported is fetched or patched, or leads to where *)
(* the pane is not shown.                                                  *)
Minds(h, s) ==
  h.minds /\ h.writes # {} =>
    \/ h.before # {} \/ h.after # {} \/ h.clears # {}
    \/ h.asks # {} /\ Full(s)
    \/ WithoutModal /\ ~Kept(TabOn(h), SelOn(h), "none")

ChangesFit ==
  /\ changes = [n \in Slots |-> changes[n]]
  /\ \A n \in Slots : changes[n] # Idle =>
       /\ IsChange(changes[n]) /\ HandlerFits(changes[n].h)
       /\ ~changes[n].moved => Minds(changes[n].h, changes[n].at)

-----------------------------------------------------------------------------
KeySet == [1..eye.scope -> Places]
Entry ==
  [of : KeySet, lacks : SUBSET Slots, behind : BOOLEAN, passed : {"none", "patch", "answer"},
   astray : BOOLEAN, leads : {"none", "here", "editor"}]
Copy ==
  [of : KeySet \cup {NoKey}, lacks : SUBSET Slots, claims : SUBSET Slots, behind : BOOLEAN,
   excuse : {"none", "kept", "late", "astray"}]

(* Only a folder and a thread are selected by the answer that brings them. *)
Leads == eye.scope = 1 /\ page \in {"files", "support"}

Shapes ==
  /\ page \in Pages
  /\ eye.scope \in 0..2 /\ eye.shuts \in {"none", "editor"}
  /\ sel \in Selections
  /\ copy \in Copy /\ busy \in BOOLEAN
  /\ queue \in Seq(Entry)
  /\ \A i \in 1..Len(queue) : Full(queue[i].of) /\ (queue[i].leads # "none" => Leads)
  /\ \A i \in 1..Len(queue) : queue[i].leads = "editor" => page = "files"
  /\ eye.leads => Leads

(* The facts of single pages, at tab t, selection s and modal m.           *)
Fits(t, s, m) ==
  /\ page = "domains" /\ m = "manage" => s[1] # ""
  /\ page = "websites" /\ m = "isolation" => s[1] # ""
  /\ page = "email" /\ m = "dns" /\ eye.name = "records" => Full(s)
  /\ page = "email" /\ m = "limits" /\ eye.name = "limits" => Full(s)
  /\ page \in {"php", "databases"} => Full(s)
  /\ page = "files" /\ eye.name = "listing" => Full(s) /\ eye.leads
  /\ page = "webservers" => s[2] # ""
  /\ page = "lists" => eye.name \in Lists!Lists(t)
  /\ page = "backups" => t \in Backups!Tabs
PageFits == Fits(tab, sel, modal)

(* What misses a change is about what the change is about.                 *)
Misses(x, n) ==
  /\ changes[n] # Idle /\ changes[n].stage # "sent" /\ changes[n].h.writes # {}
  /\ About(changes[n], x.of)
Books ==
  /\ \A n \in copy.claims : changes[n] # Idle /\ changes[n].stage = "sent"
  /\ \A n \in copy.lacks : Misses(copy, n)
  /\ \A i \in 1..Len(queue) : \A n \in queue[i].lacks : Misses(queue[i], n)

(* What the pane anticipates, its fetches cannot undo unseen.              *)
Claimed(n) ==
  /\ changes[n].stage = "sent" =>
       /\ \A i \in 1..Len(queue) : queue[i].passed # "none"
       /\ n \in copy.claims \/ copy.of = NoKey \/ copy.excuse \in {"late", "kept"}
  /\ \A i \in 1..Len(queue) : n \in queue[i].lacks => queue[i].passed # "none"
  /\ n \in copy.lacks => copy.excuse \in {"late", "kept"}
Claims == \A n \in Slots : changes[n] # Idle /\ changes[n].h.before # {} => Claimed(n)

Newest == queue[Len(queue)]
(* Once the newest fetch was answered, the others come late.               *)
Overtaken ==
  queue # <<>> /\ Newest.passed = "answer" => \A i \in 1..Len(queue) : queue[i].passed = "answer"

(* A pane that is kept fresh shows what is selected and what was done, or  *)
(* the newest of its fetches will, unless that was overtaken.              *)
Fresh ==
  /\ queue # <<>> /\ Newest.passed = "none" =>
       /\ ~Newest.behind
       /\ Newest.astray \/ Newest.leads # "none" \/ Newest.of = Key(sel)
  /\ queue = <<>> \/ Newest.passed = "answer" =>
       /\ copy.excuse = "none" => copy.of \in {NoKey, Key(sel)}
       /\ copy.excuse \in {"none", "astray"} => ~copy.behind

(* The pane is one of the page's.                                          *)
FlatPages == {"billing", "accounts", "tools", "site", "servers", "lists"}
DeepPages ==
  {"console", "websites", "email", "files", "backups", "databases", "domains", "php", "webservers", "support"}
Watched ==
  /\ page \in FlatPages \cup DeepPages
  /\ page = "console" => eye \in Console!Panes
  /\ page = "websites" => eye \in Websites!Panes
  /\ page = "email" => eye \in Email!Panes
  /\ page = "files" => eye \in FileManager!Panes
  /\ page = "backups" => eye \in Backups!Panes
  /\ page = "databases" => eye \in DatabasesP!Panes
  /\ page = "domains" => eye \in DomainsP!Panes
  /\ page = "php" => eye \in Php!Panes
  /\ page = "webservers" => eye \in WebServers!Panes
  /\ page = "support" => eye \in Support!Panes
  /\ page \in FlatPages => eye.scope = 0 /\ ~eye.leads

PInv == /\ Shapes /\ Watched /\ PageFits /\ ChangesFit /\ Books /\ Claims /\ Overtaken /\ (Held => Fresh)

-----------------------------------------------------------------------------
(* Selections, keys and sequences of fetches.                              *)
LEMMA SelectionParts ==
  ASSUME NEW s \in Selections
  PROVE  s[1] \in Places /\ s[2] \in Places /\ s = <<s[1], s[2]>> /\ DOMAIN s = {1, 2} /\ 1..2 = {1, 2}
BY DEF Selections

LEMMA SelectionExcept ==
  ASSUME NEW s \in Selections, NEW x \in Places
  PROVE  /\ [s EXCEPT ![1] = x] \in Selections
         /\ [s EXCEPT ![1] = x][1] = x /\ [s EXCEPT ![1] = x][2] = s[2]
<1>1. s = <<s[1], s[2]>> /\ s[2] \in Places
  BY SelectionParts
<1>2. \A u, v : [<<u, v>> EXCEPT ![1] = x] = <<x, v>>
  OBVIOUS
<1> QED
  BY <1>1, <1>2 DEF Selections

LEMMA KeyIs ==
  ASSUME eye.scope \in 0..2, NEW s \in Selections
  PROVE  /\ Key(s) \in KeySet
         /\ \A i \in 1..eye.scope : Key(s)[i] = s[i]
         /\ Full(Key(s)) <=> Full(s)
<1>1. Key(s) = [i \in 1..eye.scope |-> s[i]]
  BY DEF Key
<1>2. \A i \in 1..eye.scope : s[i] \in Places
  BY SelectionParts
<1> QED
  BY <1>1, <1>2 DEF KeySet, Full

LEMMA SameKey ==
  ASSUME eye.scope \in 0..2, NEW s \in Selections, NEW r \in Selections,
         \A i \in 1..eye.scope : s[i] = r[i]
  PROVE  Key(s) = Key(r)
BY DEF Key

LEMMA NoScope ==
  ASSUME eye.scope = 0, NEW s \in Selections, NEW r \in Selections
  PROVE  Key(s) = Key(r) /\ Full(s)
BY SameKey DEF Full

LEMMA Parts == 1..0 = {} /\ 1..1 = {1} /\ 1..2 = {1, 2}
OBVIOUS

LEMMA FullIs ==
  ASSUME NEW s
  PROVE  /\ eye.scope = 0 => Full(s)
         /\ eye.scope = 1 => (Full(s) <=> s[1] # "")
         /\ eye.scope = 2 => (Full(s) <=> s[1] # "" /\ s[2] # "")
BY Parts DEF Full

(* The sequence c is a followed by b.                                      *)
Joins(c, a, b) ==
  /\ c \in Seq(Entry) /\ Len(c) = Len(a) + Len(b) /\ Len(a) \in Nat /\ Len(b) \in Nat
  /\ \A i \in 1..Len(c) : \/ \E j \in 1..Len(a) : c[i] = a[j]
                          \/ \E j \in 1..Len(b) : c[i] = b[j]
  /\ \A i \in 1..Len(a) : c[i] = a[i]
  /\ b # <<>> => c # <<>> /\ c[Len(c)] = b[Len(b)] /\ Len(b) \in 1..Len(b)
  /\ b = <<>> => c = a

LEMMA Elements ==
  ASSUME NEW a \in Seq(Entry), NEW b \in Seq(Entry)
  PROVE  Joins(a \o b, a, b)
<1>1. a \o b \in Seq(Entry) /\ Len(a \o b) = Len(a) + Len(b) /\ Len(a) \in Nat /\ Len(b) \in Nat
  BY ConcatProperties, LenProperties
<1>2. \A i \in 1..Len(a) + Len(b) : (a \o b)[i] = IF i <= Len(a) THEN a[i] ELSE b[i - Len(a)]
  BY ConcatProperties
<1>3. \A i \in 1..Len(a) + Len(b) : i <= Len(a) \/ i - Len(a) \in 1..Len(b)
  BY <1>1
<1>4. b # <<>> => Len(b) \in 1..Len(b) /\ Len(a) + Len(b) \in 1..Len(a) + Len(b)
                  /\ ~(Len(a) + Len(b) <= Len(a)) /\ Len(a) + Len(b) - Len(a) = Len(b)
  BY <1>1, EmptySeq
<1>5. b = <<>> => a \o b = a
  BY ConcatEmptySeq
<1>6. b # <<>> => a \o b # <<>> /\ (a \o b)[Len(a \o b)] = b[Len(b)] /\ Len(b) \in 1..Len(b)
  BY <1>1, <1>2, <1>4, EmptySeq
<1> QED
  BY <1>1, <1>2, <1>3, <1>5, <1>6 DEF Joins

(* Answers to come that were just asked for, for a page at selection s.    *)
Fetched(new, s) ==
  /\ new \in Seq(Entry)
  /\ \A i \in 1..Len(new) :
       /\ new[i].lacks = {} /\ ~new[i].behind
       /\ new[i].passed = IF Anticipated THEN "patch" ELSE "none"
       /\ Full(new[i].of)
       /\ new[i].leads # "none" => Leads
       /\ new[i].leads = "editor" => page = "files"
       /\ new[i].astray \/ new[i].leads # "none" \/ new[i].of = Key(s)

LEMMA FetchFits ==
  ASSUME eye.scope \in 0..2, eye.leads => Leads, NEW panes, NEW s \in Selections, NEW r \in Selections, NEW astray \in BOOLEAN,
         eye.name \in panes => astray \/ eye.leads \/ Key(s) = Key(r)
  PROVE  /\ Fetched(Asked(panes, s, astray), r)
         /\ Asked(panes, s, astray) # <<>> <=> eye.name \in panes /\ Full(s)
<1>1. Key(s) \in KeySet /\ (Full(Key(s)) <=> Full(s))
  BY KeyIs
<1>2. Fetch(s, astray) \in Entry
  <2> DEFINE p == IF Anticipated THEN "patch" ELSE "none"
             l == IF eye.leads THEN "here" ELSE "none"
  <2>1. p \in {"none", "patch", "answer"} /\ l \in {"none", "here", "editor"}
    OBVIOUS
  <2> HIDE DEF p, l
  <2>2. [of |-> Key(s), lacks |-> {}, behind |-> FALSE, passed |-> p, astray |-> astray, leads |-> l] \in Entry
    BY <1>1, <2>1 DEF Entry
  <2> QED
    BY <2>2 DEF Fetch, p, l
<1>3. CASE eye.name \in panes /\ Full(s)
  <2>1. Asked(panes, s, astray) = <<Fetch(s, astray)>>
    BY <1>3 DEF Asked, Full
  <2>2. <<Fetch(s, astray)>> \in Seq(Entry) /\ Len(<<Fetch(s, astray)>>) = 1
        /\ \A i \in 1..1 : <<Fetch(s, astray)>>[i] = Fetch(s, astray)
    BY <1>2
  <2>3. Full(Key(s))
    BY <1>1, <1>3
  <2> QED
    BY <1>3, <2>1, <2>2, <2>3 DEF Fetched, Fetch
<1>4. CASE ~(eye.name \in panes /\ Full(s))
  <2>1. Asked(panes, s, astray) = <<>>
    BY <1>4 DEF Asked, Full
  <2> QED
    BY <1>4, <2>1, EmptySeq DEF Fetched
<1> QED
  BY <1>3, <1>4

LEMMA AskedFits ==
  ASSUME Shapes, NEW panes, NEW s \in Selections, NEW r \in Selections, NEW astray \in BOOLEAN,
         eye.name \in panes => astray \/ eye.leads \/ Key(s) = Key(r)
  PROVE  /\ Fetched(Asked(panes, s, astray), r)
         /\ Asked(panes, s, astray) # <<>> <=> eye.name \in panes /\ Full(s)
BY FetchFits DEF Shapes

LEMMA FetchedTogether ==
  ASSUME NEW s, NEW a, NEW b, Fetched(a, s), Fetched(b, s)
  PROVE  Fetched(a \o b, s) /\ (a \o b # <<>> <=> a # <<>> \/ b # <<>>)
<1>1. Fetched(a \o b, s)
  BY Elements DEF Fetched, Joins
<1> QED
  <2>1. a \in Seq(Entry) /\ b \in Seq(Entry)
    BY DEF Fetched
  <2>2. a \o b = <<>> => a = <<>> /\ b = <<>>
    BY <2>1, ConcatSimplifications
  <2>3. a = <<>> /\ b = <<>> => a \o b = <<>>
    BY <2>1, Elements DEF Joins
  <2> QED
    BY <1>1, <2>2, <2>3

-----------------------------------------------------------------------------
(* No step leaves the page or looks at another pane.                       *)
LEMMA SamePage ==
  ASSUME page' = page, eye' = eye
  PROVE  /\ \A h : HandlerFits(h)' <=> HandlerFits(h)
         /\ \A t, s, m : Kept(t, s, m)' <=> Kept(t, s, m)
         /\ \A t, s, m : Fits(t, s, m)' <=> Fits(t, s, m)
         /\ \A s : Full(s)' <=> Full(s)
         /\ \A s : Key(s)' = Key(s)
         /\ \A c, k : About(c, k)' <=> About(c, k)
         /\ KeySet' = KeySet /\ Entry' = Entry /\ Copy' = Copy /\ (Leads' <=> Leads)
         /\ WithoutModal' <=> WithoutModal
         /\ Watched' <=> Watched
<1>1. \A h : HandlerFits(h)' <=> HandlerFits(h)
  BY DEF HandlerFits, Mine, Wholes
<1>2. \A t, s, m : Kept(t, s, m)' <=> Kept(t, s, m)
  BY DEF Kept, KeptByConsole, KeptByEmail
<1>3. \A t, s, m : Fits(t, s, m)' <=> Fits(t, s, m)
  BY DEF Fits, Full
<1>4. \A s : (Full(s)' <=> Full(s)) /\ Key(s)' = Key(s)
  BY DEF Full, Key
<1>5. \A c, k : About(c, k)' <=> About(c, k)
  BY DEF About
<1>6. KeySet' = KeySet /\ Entry' = Entry /\ Copy' = Copy /\ (Leads' <=> Leads)
  BY DEF KeySet, Entry, Copy, Leads
<1>7. WithoutModal' <=> WithoutModal
  BY DEF WithoutModal
<1>8. Watched' <=> Watched
  BY DEF Watched, FlatPages, DeepPages, Console!Panes, Websites!Panes, Email!Panes,
         FileManager!Panes, Backups!Panes, DatabasesP!Panes, DomainsP!Panes, Php!Panes,
         WebServers!Panes, Support!Panes
<1> QED
  BY <1>1, <1>2, <1>3, <1>4, <1>5, <1>6, <1>7, <1>8

(* A change whose view is left, or whose pane changes, is marked, and is   *)
(* otherwise what it was.                                                  *)
Marked(c, d) ==
  /\ d = [c EXCEPT !.moved = d.moved, !.over = d.over]
  /\ d.moved \in BOOLEAN /\ d.over \in BOOLEAN /\ (c.moved => d.moved)

LEMMA MarkedChange ==
  ASSUME NEW c, NEW d, IsChange(c), Marked(c, d)
  PROVE  /\ IsChange(d) /\ d # Idle
         /\ d.stage = c.stage /\ d.at = c.at /\ d.h = c.h /\ d.from = c.from
         /\ ~d.moved => ~c.moved
<1>1. d = [stage |-> c.stage, at |-> c.at, from |-> c.from, moved |-> d.moved, over |-> d.over, h |-> c.h]
  BY DEF Marked, IsChange
<1>2. c.stage # "idle"
  BY DEF IsChange
<1>3. d.stage = c.stage /\ d.at = c.at /\ d.h = c.h /\ d.from = c.from /\ (~d.moved => ~c.moved)
  BY <1>1 DEF Marked
<1>4. IsChange(d)
  BY <1>1, <1>3 DEF IsChange, Marked
<1>5. d # Idle
  BY <1>2, <1>3 DEF Idle
<1> QED
  BY <1>3, <1>4, <1>5

LEMMA WhatIsMarked ==
  ASSUME ChangesFit, NEW t, NEW s, NEW changed, NEW n \in Slots
  PROVE  /\ changes[n] = Idle => Unaware(Leaving(t, s), changed)[n] = Idle
         /\ changes[n] # Idle =>
              /\ IsChange(changes[n]) /\ Marked(changes[n], Unaware(Leaving(t, s), changed)[n])
              /\ ~Unaware(Leaving(t, s), changed)[n].moved => t = tab /\ s = sel
<1> DEFINE c == changes[n]
           l == Leaving(t, s)[n]
           d == Unaware(Leaving(t, s), changed)[n]
<1>1. l = IF c = Idle \/ (t = tab /\ s = sel) THEN c ELSE [c EXCEPT !.moved = TRUE]
  BY DEF Leaving
<1>2. d = IF changed /\ l # Idle /\ l.h.rewrites THEN [l EXCEPT !.over = TRUE] ELSE l
  BY DEF Unaware
<1>3. c # Idle => IsChange(c)
  BY DEF ChangesFit
<1> HIDE DEF c, l, d
<1>4. c = Idle => d = Idle
  BY <1>1, <1>2
<1>5. ASSUME c # Idle
      PROVE  IsChange(l) /\ l = [c EXCEPT !.moved = l.moved] /\ (c.moved => l.moved) /\ l.over = c.over
             /\ (~l.moved => t = tab /\ s = sel)
  <2>1. IsChange(c)
    BY <1>3, <1>5
  <2>2. CASE t = tab /\ s = sel
    BY <1>1, <2>1, <2>2 DEF IsChange
  <2>3. CASE ~(t = tab /\ s = sel)
    <3>1. l = [c EXCEPT !.moved = TRUE]
      BY <1>1, <1>5, <2>3
    <3>2. l = [stage |-> c.stage, at |-> c.at, from |-> c.from, moved |-> TRUE, over |-> c.over, h |-> c.h]
      BY <2>1, <3>1 DEF IsChange
    <3> QED
      BY <2>1, <3>1, <3>2 DEF IsChange
  <2> QED
    BY <2>2, <2>3
<1>6. ASSUME c # Idle
      PROVE  Marked(c, d) /\ (~d.moved => t = tab /\ s = sel)
  <2>1. IsChange(c) /\ IsChange(l) /\ l = [c EXCEPT !.moved = l.moved] /\ (c.moved => l.moved)
        /\ (~l.moved => t = tab /\ s = sel) /\ l.over = c.over
    BY <1>3, <1>5, <1>6
  <2>2. d = [l EXCEPT !.over = d.over] /\ d.over \in BOOLEAN /\ d.moved = l.moved
    <3>1. CASE d = l
      BY <2>1, <3>1 DEF IsChange
    <3>2. CASE d = [l EXCEPT !.over = TRUE]
      BY <2>1, <3>2 DEF IsChange
    <3> QED
      BY <1>2, <3>1, <3>2
  <2>3. d = [c EXCEPT !.moved = d.moved, !.over = d.over]
    BY <2>1, <2>2 DEF IsChange
  <2>4. d.moved \in BOOLEAN
    BY <2>1, <2>2 DEF IsChange
  <2> QED
    BY <2>1, <2>2, <2>3, <2>4 DEF Marked
<1> QED
  BY <1>3, <1>4, <1>6 DEF c, d

(* A pane that stays as it is leaves no change unaware.                    *)
LEMMA NoneUnaware ==
  /\ \A t, s : Unaware(Leaving(t, s), FALSE) = Leaving(t, s)
  /\ ChangesFit => Leaving(tab, sel) = changes /\ Unaware(changes, FALSE) = changes
BY DEF Unaware, Leaving, ChangesFit

(* The changes, after a move that takes the page to tab t and selection s. *)
LEMMA MovedOn ==
  ASSUME ChangesFit, page' = page, eye' = eye, NEW changed,
         changes' = Unaware(Leaving(tab', sel'), changed)
  PROVE  /\ ChangesFit'
         /\ \A n \in Slots : changes'[n] = Idle <=> changes[n] = Idle
         /\ \A n \in Slots : changes[n] # Idle => Marked(changes[n], changes'[n])
<1>1. \A n \in Slots : changes[n] = Idle => changes'[n] = Idle
  BY WhatIsMarked
<1>2. \A n \in Slots : changes[n] # Idle =>
        /\ IsChange(changes[n]) /\ Marked(changes[n], changes'[n])
        /\ ~changes'[n].moved => tab' = tab /\ sel' = sel
  BY WhatIsMarked
<1>3. \A n \in Slots : changes[n] # Idle => changes'[n] # Idle
  BY <1>2, MarkedChange
<1>4. changes' = [n \in Slots |-> changes'[n]]
  BY DEF Unaware
<1>5. ASSUME NEW n \in Slots, changes'[n] # Idle
      PROVE  /\ IsChange(changes'[n]) /\ HandlerFits(changes[n].h)'
             /\ ~changes'[n].moved => Minds(changes[n].h, changes[n].at)'
  <2>1. changes[n] # Idle
    BY <1>1, <1>5
  <2>2. changes'[n].h = changes[n].h /\ changes'[n].at = changes[n].at /\ IsChange(changes'[n])
        /\ (~changes'[n].moved => ~changes[n].moved)
    BY <1>2, <2>1, MarkedChange
  <2>4. HandlerFits(changes[n].h)'
    BY <2>1, <2>2, SamePage DEF ChangesFit
  <2>5. ASSUME ~changes'[n].moved
        PROVE  Minds(changes[n].h, changes[n].at)'
    <3>1. tab' = tab /\ sel' = sel
      BY <1>2, <2>1, <2>5
    <3>2. Minds(changes[n].h, changes[n].at)
      BY <2>1, <2>2, <2>5 DEF ChangesFit
    <3> QED
      BY <2>2, <3>1, <3>2, SamePage DEF Minds, TabOn, SelOn, Led
  <2> QED
    BY <2>2, <2>4, <2>5
<1> QED
  BY <1>1, <1>2, <1>3, <1>4, <1>5 DEF ChangesFit

-----------------------------------------------------------------------------
(* The user, or an effect, moves to tab t, selection s and modal m: the    *)
(* pane may be cleared, and is fetched as new says.                        *)
Moves(t, s, m, clears, new) ==
  /\ tab' = t /\ sel' = s /\ modal' = m
  /\ queue' = (IF clears THEN Passed(queue) ELSE queue) \o new
  /\ copy' = (IF clears THEN Empty ELSE copy)
  /\ changes' = Unaware(Leaving(t, s), clears)
  /\ busy' \in BOOLEAN /\ page' = page /\ eye' = eye

(* A move is seen to: it leads to where the pane is fetched, cleared or    *)
(* not kept, or it leaves the pane's part of the selection alone.          *)
SeenTo(t, s, m, clears, new) ==
  /\ s \in Selections /\ Fetched(new, s) /\ Fits(t, s, m)
  /\ Kept(t, s, m) => new # <<>> \/ clears \/ (Held /\ Key(s) = Key(sel))

LEMMA QueueIs ==
  ASSUME Shapes
  PROVE  /\ queue \in Seq(Entry) /\ Len(queue) \in Nat /\ DOMAIN queue = 1..Len(queue)
         /\ queue # <<>> <=> Len(queue) # 0
         /\ \A i \in 1..Len(queue) :
              /\ queue[i] \in Entry /\ queue[i].lacks \subseteq Slots /\ queue[i].of \in KeySet
              /\ queue[i].behind \in BOOLEAN /\ queue[i].astray \in BOOLEAN
              /\ queue[i].passed \in {"none", "patch", "answer"}
              /\ queue[i].leads \in {"none", "here", "editor"}
<1>1. queue \in Seq(Entry) /\ Len(queue) \in Nat /\ DOMAIN queue = 1..Len(queue)
  BY LenProperties DEF Shapes
<1>2. queue # <<>> <=> Len(queue) # 0
  BY <1>1, EmptySeq
<1>3. \A i \in 1..Len(queue) : queue[i] \in Entry
  BY <1>1, ElementOfSeq
<1> QED
  BY <1>1, <1>2, <1>3 DEF Entry

LEMMA PassedIs ==
  ASSUME NEW q \in Seq(Entry)
  PROVE  /\ Passed(q) \in Seq(Entry) /\ Len(Passed(q)) = Len(q)
         /\ \A i \in 1..Len(q) :
              /\ Passed(q)[i].of = q[i].of /\ Passed(q)[i].leads = q[i].leads
              /\ Passed(q)[i].lacks = q[i].lacks /\ Passed(q)[i].behind = q[i].behind
              /\ Passed(q)[i].astray = q[i].astray
              /\ Passed(q)[i].passed = IF q[i].passed = "none" THEN "patch" ELSE q[i].passed
<1>1. Len(q) \in Nat /\ DOMAIN q = 1..Len(q) /\ \A i \in 1..Len(q) : q[i] \in Entry
  BY ElementOfSeq, LenProperties
<1>2. \A i \in 1..Len(q) :
        Passed(q)[i] = [q[i] EXCEPT !.passed = IF @ = "none" THEN "patch" ELSE @]
  BY <1>1 DEF Passed
<1>3. \A i \in 1..Len(q) : Passed(q)[i] \in Entry
  BY <1>1, <1>2 DEF Entry
<1>4. DOMAIN Passed(q) = 1..Len(q) /\ Passed(q) = [i \in 1..Len(q) |-> Passed(q)[i]]
  BY <1>1 DEF Passed
<1>5. Passed(q) \in [1..Len(q) -> Entry]
  BY <1>3, <1>4
<1>6. Passed(q) \in Seq(Entry) /\ Len(Passed(q)) = Len(q)
  BY <1>1, <1>4, <1>5
<1> QED
  BY <1>1, <1>2, <1>6 DEF Entry

LEMMA MoveKeeps ==
  ASSUME PInv, NEW t, NEW s, NEW m, NEW clears \in BOOLEAN, NEW new,
         SeenTo(t, s, m, clears, new), Moves(t, s, m, clears, new)
  PROVE  PInv'
<1> DEFINE q == IF clears THEN Passed(queue) ELSE queue
<1>1. page' = page /\ eye' = eye
  BY DEF Moves
<1>2. /\ ChangesFit'
      /\ \A n \in Slots : changes'[n] = Idle <=> changes[n] = Idle
      /\ \A n \in Slots : changes[n] # Idle => Marked(changes[n], changes'[n]) /\ IsChange(changes[n])
  BY <1>1, MovedOn DEF PInv, Moves, ChangesFit
<1>3. \A n \in Slots : changes[n] # Idle =>
         /\ changes'[n] # Idle /\ changes'[n].stage = changes[n].stage
         /\ changes'[n].h = changes[n].h /\ changes'[n].at = changes[n].at
  BY <1>2, MarkedChange
<1>4. /\ q \in Seq(Entry) /\ Len(q) = Len(queue) /\ Len(queue) \in Nat
      /\ \A i \in 1..Len(queue) :
           /\ q[i].of = queue[i].of /\ q[i].leads = queue[i].leads /\ q[i].astray = queue[i].astray
           /\ q[i].lacks = queue[i].lacks /\ q[i].behind = queue[i].behind
           /\ q[i].passed = queue[i].passed \/ (queue[i].passed = "none" /\ q[i].passed = "patch")
           /\ clears => q[i].passed # "none"
  BY PassedIs, LenProperties DEF PInv, Shapes
<1>5. new \in Seq(Entry)
  BY DEF SeenTo, Fetched
<1>6. /\ queue' = q \o new
      /\ queue' \in Seq(Entry) /\ Len(queue') = Len(queue) + Len(new)
      /\ \A i \in 1..Len(queue') : \/ \E j \in 1..Len(queue) : queue'[i] = q[j]
                                   \/ \E j \in 1..Len(new) : queue'[i] = new[j]
      /\ \A i \in 1..Len(queue) : queue'[i] = q[i]
      /\ new # <<>> => queue' # <<>> /\ queue'[Len(queue')] = new[Len(new)] /\ Len(new) \in 1..Len(new)
      /\ new = <<>> => queue' = q
  <2>1. queue' = q \o new
    BY DEF Moves
  <2> HIDE DEF q
  <2>2. Joins(queue', q, new)
    BY <1>4, <1>5, <2>1, Elements
  <2> QED
    BY <1>4, <2>1, <2>2 DEF Joins
<1> HIDE DEF q
<1>7. Shapes'
  <2>1. copy' \in Copy
    BY DEF Moves, PInv, Shapes, Copy, Empty
  <2>2. \A i \in 1..Len(queue') :
          /\ Full(queue'[i].of) /\ (queue'[i].leads # "none" => Leads)
          /\ queue'[i].leads = "editor" => page = "files"
    <3>1. \A j \in 1..Len(queue) : /\ Full(q[j].of) /\ (q[j].leads # "none" => Leads)
                                   /\ q[j].leads = "editor" => page = "files"
      BY <1>4 DEF PInv, Shapes
    <3>2. \A j \in 1..Len(new) : /\ Full(new[j].of) /\ (new[j].leads # "none" => Leads)
                                 /\ new[j].leads = "editor" => page = "files"
      BY DEF SeenTo, Fetched
    <3> QED
      BY <1>6, <3>1, <3>2
  <2> QED
    BY <1>1, <1>6, <2>1, <2>2, SamePage DEF PInv, Shapes, Moves, SeenTo
<1>8. PageFits'
  BY <1>1, SamePage DEF PageFits, Moves, SeenTo
<1>9. Books'
  <2>1. \A x, n : n \in Slots /\ Misses(x, n) =>
           changes'[n] # Idle /\ changes'[n].stage # "sent" /\ changes'[n].h.writes # {}
           /\ About(changes'[n], x.of)
    BY <1>3 DEF Misses, About
  <2>2. \A n \in copy'.claims : n \in copy.claims
    BY DEF Moves, Empty
  <2>3. \A n \in copy'.lacks : n \in copy.lacks /\ copy' = copy
    BY DEF Moves, Empty
  <2>4. \A i \in 1..Len(queue') : \A n \in queue'[i].lacks :
           \E j \in 1..Len(queue) : queue'[i].of = queue[j].of /\ n \in queue[j].lacks
    BY <1>4, <1>6 DEF SeenTo, Fetched
  <2>5. /\ copy.claims \subseteq Slots /\ copy.lacks \subseteq Slots
        /\ \A j \in 1..Len(queue) : queue[j].lacks \subseteq Slots
    <3>1. \A j \in 1..Len(queue) : queue[j] \in Entry
      BY ElementOfSeq DEF PInv, Shapes
    <3> QED
      BY <3>1 DEF PInv, Shapes, Copy, Entry
  <2>6. \A n \in copy'.claims : changes'[n] # Idle /\ changes'[n].stage = "sent"
    BY <1>3, <2>2, <2>5 DEF PInv, Books
  <2>7. \A n \in copy'.lacks : Misses(copy, n)'
    BY <1>1, <2>1, <2>3, <2>5, SamePage DEF PInv, Books, Misses
  <2>8. \A i \in 1..Len(queue') : \A n \in queue'[i].lacks : Misses(queue[i], n)'
    BY <1>1, <2>1, <2>4, <2>5, SamePage DEF PInv, Books, Misses
  <2> QED
    BY <2>6, <2>7, <2>8 DEF Books
<1>10. Claims'
  <2> SUFFICES ASSUME NEW n \in Slots, changes'[n] # Idle /\ changes'[n].h.before # {}
               PROVE  Claimed(n)'
    BY DEF Claims
  <2>1. changes[n] # Idle /\ changes[n].h.before # {} /\ Claimed(n)
        /\ changes'[n].stage = changes[n].stage
    BY <1>2, <1>3 DEF PInv, Claims
  <2>2. changes[n].stage = "sent" => \A i \in 1..Len(new) : new[i].passed # "none"
    BY <2>1 DEF SeenTo, Fetched, Anticipated
  <2>3. \A i \in 1..Len(new) : new[i].lacks = {}
    BY DEF SeenTo, Fetched
  <2>4. \A j \in 1..Len(queue) : queue[j].passed # "none" => q[j].passed # "none"
    BY <1>4
  <2>5. copy' = copy \/ (copy'.of = NoKey /\ copy'.lacks = {})
    BY DEF Moves, Empty
  <2> QED
    <3>1. ASSUME changes'[n].stage = "sent"
          PROVE  /\ \A i \in 1..Len(queue') : queue'[i].passed # "none"
                 /\ n \in copy'.claims \/ copy'.of = NoKey \/ copy'.excuse \in {"late", "kept"}
      BY <1>4, <1>6, <2>1, <2>2, <2>4, <2>5, <3>1 DEF Claimed
    <3>2. \A i \in 1..Len(queue') : n \in queue'[i].lacks => queue'[i].passed # "none"
      <4>1. \A j \in 1..Len(queue) : n \in q[j].lacks => q[j].passed # "none"
        BY <1>4, <2>1, <2>4 DEF Claimed
      <4> QED
        BY <1>6, <2>3, <4>1
    <3>3. n \in copy'.lacks => copy'.excuse \in {"late", "kept"}
      BY <2>1, <2>5 DEF Claimed
    <3> QED
      BY <3>1, <3>2, <3>3 DEF Claimed
<1>11. Overtaken'
  <2>1. CASE new = <<>>
    <3>1. queue # <<>> => Len(queue) \in 1..Len(queue)
      BY <1>4, EmptySeq DEF PInv, Shapes
    <3>2. queue = <<>> => queue' = <<>>
      BY <1>4, <1>6, <2>1, EmptySeq
    <3>3. Newest' = q[Len(queue)] /\ Len(queue') = Len(queue) /\ Newest = queue[Len(queue)]
      BY <1>4, <1>6, <2>1 DEF Newest
    <3>4. queue # <<>> /\ Newest.passed = "answer" => \A i \in 1..Len(queue) : queue[i].passed = "answer"
      BY DEF PInv, Overtaken
    <3>5. ASSUME queue' # <<>>, Newest'.passed = "answer", NEW i \in 1..Len(queue')
          PROVE  queue'[i].passed = "answer"
      <4>1. queue # <<>> /\ Len(queue) \in 1..Len(queue) /\ i \in 1..Len(queue)
        BY <3>1, <3>2, <3>3, <3>5
      <4>2. queue[Len(queue)].passed = "answer"
        BY <1>4, <3>3, <3>5, <4>1
      <4>3. queue[i].passed = "answer"
        BY <3>3, <3>4, <4>1, <4>2
      <4>4. q[i].passed = "answer"
        BY <1>4, <4>1, <4>3
      <4> QED
        BY <1>6, <2>1, <4>4
    <3> QED
      BY <3>5 DEF Overtaken
  <2>2. CASE new # <<>>
    BY <1>6, <2>2 DEF Overtaken, Newest, SeenTo, Fetched
  <2> QED
    BY <2>1, <2>2
<1>12. Held' => Fresh'
  <2> SUFFICES ASSUME Kept(t, s, m)
               PROVE  Fresh'
    BY <1>1, SamePage DEF Held, Moves
  <2>1. CASE new # <<>>
    BY <1>1, <1>6, <2>1, SamePage DEF Fresh, Newest, SeenTo, Fetched, Moves
  <2>2. CASE new = <<>>
    <3>1. queue # <<>> => Len(queue) \in 1..Len(queue)
      BY <1>4, EmptySeq DEF PInv, Shapes
    <3>2. queue = <<>> <=> queue' = <<>>
      BY <1>4, <1>6, <2>2, EmptySeq
    <3>3. queue # <<>> => Newest' = q[Len(queue)] /\ Newest = queue[Len(queue)]
      BY <1>4, <1>6, <2>2 DEF Newest
    <3>4. CASE clears
      BY <1>4, <3>1, <3>2, <3>3, <3>4 DEF Fresh, Moves, Empty
    <3>5. CASE ~clears
      <4>1. Held /\ Key(s) = Key(sel) /\ q = queue /\ copy' = copy /\ queue' = queue
        BY <1>6, <2>2, <3>5 DEF SeenTo, Moves, q
      <4> QED
        BY <1>1, <4>1, SamePage DEF PInv, Fresh, Newest, Moves
    <3> QED
      BY <3>4, <3>5
  <2> QED
    BY <2>1, <2>2
<1> QED
  BY <1>1, <1>2, <1>7, <1>8, <1>9, <1>10, <1>11, <1>12, SamePage DEF PInv

(* The moves of PanelPage.                                                 *)
LEMMA AskKeeps ==
  ASSUME PInv, NEW t, NEW s, NEW new, SeenTo(t, s, modal, FALSE, new), Ask(t, s, new)
  PROVE  PInv'
<1>1. busy' \in BOOLEAN
  BY DEF Ask
<1>2. Moves(t, s, modal, FALSE, new)
  BY <1>1, NoneUnaware DEF Moves, Ask
<1> QED
  BY <1>2, MoveKeeps

LEMMA LookKeeps ==
  ASSUME PInv, NEW t, NEW s \in Selections, NEW panes, Look(t, s, panes), Fits(t, s, modal),
         Kept(t, s, modal) => (eye.name \in panes /\ Full(s)) \/ (Held /\ Key(s) = Key(sel))
  PROVE  PInv'
<1>1. /\ Fetched(Asked(panes, s, FALSE), s)
      /\ Asked(panes, s, FALSE) # <<>> <=> eye.name \in panes /\ Full(s)
  BY AskedFits DEF PInv
<1>2. SeenTo(t, s, modal, FALSE, Asked(panes, s, FALSE))
  BY <1>1 DEF SeenTo
<1> QED
  BY <1>2, AskKeeps DEF Look

LEMMA NothingFetched == \A s : Fetched(<<>>, s)
BY EmptySeq DEF Fetched

LEMMA OpenForKeeps ==
  ASSUME PInv, NEW m, NEW s \in Selections, NEW clears, NEW panes, OpenFor(m, s, clears, panes),
         Fits(tab, s, m),
         Kept(tab, s, m) => \/ eye.name \in clears \/ (eye.name \in panes /\ Full(s))
                            \/ Held /\ Key(s) = Key(sel)
  PROVE  PInv'
<1> DEFINE c == eye.name \in clears
<1>1. /\ Fetched(Asked(panes, s, FALSE), s)
      /\ Asked(panes, s, FALSE) # <<>> <=> eye.name \in panes /\ Full(s)
  BY AskedFits DEF PInv
<1>2. c \in BOOLEAN
  OBVIOUS
<1>3. Kept(tab, s, m) => c \/ Asked(panes, s, FALSE) # <<>> \/ (Held /\ Key(s) = Key(sel))
  BY <1>1
<1>4. Moves(tab, s, m, c, Asked(panes, s, FALSE))
  BY DEF OpenFor, Moves
<1> HIDE DEF c
<1>5. SeenTo(tab, s, m, c, Asked(panes, s, FALSE))
  BY <1>1, <1>3 DEF SeenTo
<1> QED
  BY <1>2, <1>4, <1>5, MoveKeeps

(* A modal is opened or closed, and nothing else moves.                    *)
LEMMA ModalKeeps ==
  ASSUME PInv, NEW m, modal' = m, UNCHANGED <<page, eye, tab, sel, copy, busy, queue, changes>>,
         Fits(tab, sel, m), Kept(tab, sel, m) => Held
  PROVE  PInv'
<1>1. sel \in Selections /\ queue \in Seq(Entry) /\ busy \in BOOLEAN
  BY DEF PInv, Shapes
<1>2. SeenTo(tab, sel, m, FALSE, <<>>)
  BY <1>1, NothingFetched DEF SeenTo
<1>3. queue \o <<>> = queue
  BY <1>1, ConcatEmptySeq
<1>4. Moves(tab, sel, m, FALSE, <<>>)
  BY <1>1, <1>3, NoneUnaware DEF Moves, PInv
<1> QED
  BY <1>2, <1>4, MoveKeeps

LEMMA OpenKeeps ==
  ASSUME PInv, NEW m, Open(m), Fits(tab, sel, m), Kept(tab, sel, m) => Held
  PROVE  PInv'
BY ModalKeeps DEF Open

LEMMA NoModal ==
  ASSUME NEW t, NEW s, NEW m
  PROVE  (Kept(t, s, "none") => Kept(t, s, m)) /\ (Fits(t, s, m) => Fits(t, s, "none"))
BY DEF Kept, KeptByEmail, KeptByConsole, Fits

LEMMA CloseKeeps ==
  ASSUME PInv, Close
  PROVE  PInv'
BY ModalKeeps, NoModal DEF Close, Held, PInv, PageFits

-----------------------------------------------------------------------------
(* A change is sent.                                                       *)
Sendable(h, s) ==
  /\ s \in Selections /\ HandlerFits(Sent(h, s, modal).h) /\ Minds(Sent(h, s, modal).h, s)
  /\ Sent(h, s, modal).h.before = h.before \cap {eye.name}

(* A queue that was overtaken, or not.                                     *)
LEMMA StillInOrder ==
  ASSUME PInv, queue' = queue \/ queue' = Passed(queue), copy'.of = copy.of,
         copy'.behind = copy.behind, copy'.excuse = copy.excuse, sel' = sel, eye' = eye, page' = page
  PROVE  Overtaken' /\ (Fresh => Fresh')
<1>1. Len(queue) \in Nat /\ queue \in Seq(Entry) /\ (queue # <<>> => Len(queue) \in 1..Len(queue))
  BY LenProperties, EmptySeq DEF PInv, Shapes
<1>2. CASE queue' = queue
  BY <1>2, SamePage DEF PInv, Overtaken, Fresh, Newest
<1>3. CASE queue' = Passed(queue)
  <2>1. /\ Len(queue') = Len(queue) /\ queue' \in Seq(Entry)
        /\ \A i \in 1..Len(queue) : queue'[i].passed = IF queue[i].passed = "none" THEN "patch" ELSE queue[i].passed
    BY <1>3, PassedIs DEF PInv, Shapes
  <2>2. queue' = <<>> <=> queue = <<>>
    BY <1>1, <2>1, EmptySeq
  <2>3. queue # <<>> => /\ Newest'.passed = IF Newest.passed = "none" THEN "patch" ELSE Newest.passed
    BY <1>1, <2>1 DEF Newest
  <2>4. Overtaken'
    BY <1>1, <2>1, <2>2, <2>3 DEF PInv, Overtaken
  <2>5. Fresh => Fresh'
    BY <2>2, <2>3, SamePage DEF Fresh
  <2> QED
    BY <2>4, <2>5
<1> QED
  BY <1>2, <1>3

LEMMA SubmitKeeps ==
  ASSUME PInv, NEW h, NEW s, SubmitFor(h, s), Sendable(h, s)
  PROVE  PInv'
<1> DEFINE g == Sent(h, s, modal).h
<1>1. PICK n \in Slots :
        /\ changes[n] = Idle
        /\ changes' = [Unaware(changes, eye.name \in h.before) EXCEPT ![n] = Sent(h, s, modal)]
        /\ IF eye.name \in h.before
           THEN /\ copy' = [copy EXCEPT !.claims = @ \cup {n}]
                /\ queue' = Passed(queue)
           ELSE UNCHANGED <<copy, queue>>
        /\ UNCHANGED <<page, eye, view, busy>>
  BY DEF SubmitFor
<1>2. page' = page /\ eye' = eye /\ tab' = tab /\ sel' = sel /\ modal' = modal /\ busy' = busy
  BY <1>1 DEF view
<1>3. /\ copy' \in Copy /\ copy'.of = copy.of /\ copy'.behind = copy.behind /\ copy'.lacks = copy.lacks
      /\ copy'.excuse = copy.excuse /\ copy.claims \subseteq copy'.claims
      /\ copy'.claims \subseteq copy.claims \cup {n}
      /\ eye.name \in h.before => n \in copy'.claims
      /\ eye.name \notin h.before => copy' = copy
  BY <1>1 DEF PInv, Shapes, Copy
<1>4. /\ queue' = queue \/ queue' = Passed(queue)
      /\ queue' \in Seq(Entry) /\ Len(queue') = Len(queue)
      /\ \A i \in 1..Len(queue) :
           /\ queue'[i].of = queue[i].of /\ queue'[i].leads = queue[i].leads
           /\ queue'[i].lacks = queue[i].lacks
           /\ queue[i].passed # "none" => queue'[i].passed # "none"
           /\ eye.name \in h.before => queue'[i].passed # "none"
  BY <1>1, PassedIs DEF PInv, Shapes
<1>5. IsChange(Sent(h, s, modal)) /\ Sent(h, s, modal) # Idle /\ Sent(h, s, modal).stage = "sent"
      /\ Sent(h, s, modal).at = s /\ ~Sent(h, s, modal).moved
  BY DEF Sent, IsChange, Idle, Sendable
<1>6. /\ changes'[n] = Sent(h, s, modal)
      /\ \A k \in Slots : k # n /\ changes[k] = Idle => changes'[k] = Idle
      /\ \A k \in Slots : k # n /\ changes[k] # Idle =>
           /\ IsChange(changes'[k]) /\ changes'[k] # Idle /\ changes'[k].stage = changes[k].stage
           /\ changes'[k].at = changes[k].at /\ changes'[k].h = changes[k].h
           /\ ~changes'[k].moved => ~changes[k].moved
  <2>1. changes = Leaving(tab, sel)
    BY NoneUnaware DEF PInv
  <2>2. changes'[n] = Sent(h, s, modal)
        /\ \A k \in Slots : k # n => changes'[k] = Unaware(Leaving(tab, sel), eye.name \in h.before)[k]
    BY <1>1, <2>1 DEF Unaware
  <2>3. \A k \in Slots : k # n /\ changes[k] # Idle => IsChange(changes[k]) /\ Marked(changes[k], changes'[k])
    BY <2>2, WhatIsMarked DEF PInv
  <2> QED
    BY <2>2, <2>3, WhatIsMarked, MarkedChange DEF PInv
<1>7. ChangesFit'
  <2>1. changes' = [k \in Slots |-> changes'[k]]
    BY <1>1 DEF Unaware
  <2>2. ASSUME NEW k \in Slots, changes'[k] # Idle
        PROVE  /\ IsChange(changes'[k]) /\ HandlerFits(changes[k].h)'
               /\ ~changes'[k].moved => Minds(changes[k].h, changes[k].at)'
    <3>1. \A f, r : Minds(f, r)' <=> Minds(f, r)
      BY <1>2, SamePage DEF Minds, TabOn, SelOn, Led
    <3>2. CASE k = n
      BY <1>2, <1>5, <1>6, <3>1, <3>2, SamePage DEF Sendable
    <3>3. CASE k # n
      BY <1>2, <1>6, <2>2, <3>1, <3>3, SamePage DEF PInv, ChangesFit
    <3> QED
      BY <3>2, <3>3
  <2> QED
    BY <2>1, <2>2 DEF ChangesFit
<1>8. Shapes'
  BY <1>2, <1>3, <1>4, SamePage DEF PInv, Shapes
<1>9. PageFits'
  BY <1>2, SamePage DEF PInv, PageFits
<1>10. \A k \in copy.lacks : Misses(copy, k) /\ k # n
  BY <1>1 DEF PInv, Books, Misses
<1>11. \A i \in 1..Len(queue) : \A k \in queue[i].lacks : Misses(queue[i], k) /\ k # n
  BY <1>1 DEF PInv, Books, Misses
<1>12. \A i \in 1..Len(queue) : queue[i] \in Entry /\ queue[i].lacks \subseteq Slots
  BY QueueIs DEF PInv
<1>13. Books'
  <2>1. \A k \in copy'.claims : changes'[k] # Idle /\ changes'[k].stage = "sent"
    BY <1>1, <1>3, <1>5, <1>6 DEF PInv, Books, Shapes, Copy
  <2>2. \A x, k : k \in Slots /\ k # n /\ Misses(x, k) =>
           /\ changes'[k] # Idle /\ changes'[k].stage # "sent" /\ changes'[k].h.writes # {}
           /\ About(changes'[k], x.of)
    BY <1>6 DEF Misses, About
  <2>3. \A k \in copy'.lacks : Misses(copy, k)'
    <3>1. copy.lacks \subseteq Slots
      BY DEF PInv, Shapes, Copy
    <3> QED
      BY <1>2, <1>3, <1>10, <2>2, <3>1, SamePage DEF Misses
  <2>4. \A i \in 1..Len(queue') : \A k \in queue'[i].lacks : Misses(queue[i], k)'
    BY <1>2, <1>4, <1>11, <1>12, <2>2, SamePage DEF Misses
  <2> QED
    BY <2>1, <2>3, <2>4 DEF Books
<1>14. Claims'
  <2> SUFFICES ASSUME NEW k \in Slots, changes'[k] # Idle /\ changes'[k].h.before # {}
               PROVE  Claimed(k)'
    BY DEF Claims
  <2>1. CASE k = n
    <3>1. eye.name \in h.before
      BY <1>6, <2>1 DEF Sendable
    <3> QED
      BY <1>3, <1>4, <1>10, <1>11, <2>1, <3>1 DEF Claimed
  <2>2. CASE k # n
    <3>1. Claimed(k) /\ changes'[k].stage = changes[k].stage
      BY <1>6, <2>2 DEF PInv, Claims
    <3> QED
      BY <1>3, <1>4, <3>1 DEF Claimed
  <2> QED
    BY <2>1, <2>2
<1>15. Overtaken' /\ (Held' => Fresh')
  BY <1>2, <1>3, <1>4, StillInOrder, SamePage DEF PInv, Held
<1> QED
  BY <1>2, <1>7, <1>8, <1>9, <1>13, <1>14, <1>15, SamePage DEF PInv

-----------------------------------------------------------------------------
(* The server carries a change out, or does not.                           *)
LEMMA ServeKeeps ==
  ASSUME PInv, NEW n \in Slots, NEW o \in {"done", "refused", "lost", "failed"}, Serve(n, o)
  PROVE  PInv'
<1> DEFINE c == changes[n]
           hits == c.h.writes # {} /\ o \in {"done", "lost"}
<1>1. page' = page /\ eye' = eye /\ tab' = tab /\ sel' = sel /\ modal' = modal /\ busy' = busy
  BY DEF Serve, view
<1>2. c.stage = "sent" /\ c # Idle /\ IsChange(c)
  BY DEF Serve, PInv, ChangesFit, Idle
<1>3. /\ changes'[n] = [c EXCEPT !.stage = o] /\ \A k \in Slots : k # n => changes'[k] = changes[k]
      /\ changes' = [k \in Slots |-> changes'[k]]
  BY DEF Serve, PInv, ChangesFit
<1>4. /\ IsChange(changes'[n]) /\ changes'[n] # Idle /\ changes'[n].stage = o /\ changes'[n].at = c.at
      /\ changes'[n].h = c.h /\ changes'[n].moved = c.moved
  <2> HIDE DEF c
  <2>1. changes'[n] = [stage |-> o, at |-> c.at, from |-> c.from, moved |-> c.moved, over |-> c.over, h |-> c.h]
    BY <1>2, <1>3 DEF IsChange
  <2> QED
    BY <1>2, <2>1 DEF IsChange, Idle
<1>5. /\ copy' \in Copy /\ copy'.of = copy.of /\ copy'.behind = copy.behind /\ copy'.excuse = copy.excuse
      /\ copy'.claims = copy.claims \ {n}
      /\ \A k \in copy'.lacks : k \in copy.lacks \/ (k = n /\ hits /\ n \notin copy.claims /\ About(c, copy.of))
  <2>1. copy' = [copy EXCEPT
       !.claims = @ \ {n},
       !.lacks = IF hits /\ n \notin copy.claims /\ About(c, copy.of) THEN @ \cup {n} ELSE @]
    BY DEF Serve
  <2> HIDE DEF hits, c
  <2> QED
    BY <2>1 DEF PInv, Shapes, Copy
<1>6. /\ queue' \in Seq(Entry) /\ Len(queue') = Len(queue) /\ (queue' = <<>> <=> queue = <<>>)
      /\ \A i \in 1..Len(queue) :
           /\ queue'[i].of = queue[i].of /\ queue'[i].leads = queue[i].leads
           /\ queue'[i].behind = queue[i].behind /\ queue'[i].passed = queue[i].passed
           /\ queue'[i].astray = queue[i].astray
           /\ \A k \in queue'[i].lacks : k \in queue[i].lacks \/ (k = n /\ hits /\ About(c, queue[i].of))
  <2>1. PICK before \in SUBSET {i \in DOMAIN queue : hits /\ About(c, queue[i].of)} :
          queue' = [i \in DOMAIN queue |->
                      IF i \in before THEN [queue[i] EXCEPT !.lacks = @ \cup {n}] ELSE queue[i]]
    BY DEF Serve
  <2> HIDE DEF hits, c
  <2>2. queue' = [i \in 1..Len(queue) |-> queue'[i]]
    BY <2>1, QueueIs DEF PInv
  <2>3. \A i \in 1..Len(queue) :
           \/ queue'[i] = queue[i]
           \/ queue'[i] = [queue[i] EXCEPT !.lacks = @ \cup {n}] /\ hits /\ About(c, queue[i].of)
    BY <2>1, QueueIs DEF PInv
  <2>4. \A i \in 1..Len(queue) :
           /\ queue'[i] \in Entry
           /\ queue'[i].of = queue[i].of /\ queue'[i].leads = queue[i].leads
           /\ queue'[i].behind = queue[i].behind /\ queue'[i].passed = queue[i].passed
           /\ queue'[i].astray = queue[i].astray
           /\ \A k \in queue'[i].lacks : k \in queue[i].lacks \/ (k = n /\ hits /\ About(c, queue[i].of))
    <3> SUFFICES ASSUME NEW i \in 1..Len(queue)
                 PROVE  /\ queue'[i] \in Entry
                        /\ queue'[i].of = queue[i].of /\ queue'[i].leads = queue[i].leads
                        /\ queue'[i].behind = queue[i].behind /\ queue'[i].passed = queue[i].passed
                        /\ queue'[i].astray = queue[i].astray
                        /\ \A k \in queue'[i].lacks : \/ k \in queue[i].lacks
                                                      \/ k = n /\ hits /\ About(c, queue[i].of)
      OBVIOUS
    <3>1. queue[i] \in Entry
      BY QueueIs DEF PInv
    <3>2. CASE queue'[i] = queue[i]
      BY <3>1, <3>2
    <3>3. CASE queue'[i] = [queue[i] EXCEPT !.lacks = @ \cup {n}] /\ hits /\ About(c, queue[i].of)
      <4>1. [queue[i] EXCEPT !.lacks = @ \cup {n}] \in Entry
        BY <3>1 DEF Entry
      <4>2. \A k \in queue'[i].lacks : k \in queue[i].lacks \/ k = n
        BY <3>1, <3>3 DEF Entry
      <4> QED
        BY <3>1, <3>3, <4>1, <4>2 DEF Entry
    <3> QED
      BY <2>3, <3>2, <3>3
  <2>5. queue' \in [1..Len(queue) -> Entry]
    BY <2>2, <2>4
  <2>6. queue' \in Seq(Entry) /\ Len(queue') = Len(queue)
    BY <2>2, <2>5, QueueIs DEF PInv
  <2>7. queue' = <<>> <=> queue = <<>>
    BY <2>6, QueueIs, EmptySeq DEF PInv
  <2> QED
    BY <2>4, <2>6, <2>7
<1>7. ChangesFit'
  <2>1. \A f, r : Minds(f, r)' <=> Minds(f, r)
    BY <1>1, SamePage DEF Minds, TabOn, SelOn, Led
  <2>2. ASSUME NEW k \in Slots, changes'[k] # Idle
        PROVE  /\ IsChange(changes'[k]) /\ HandlerFits(changes[k].h)'
               /\ ~changes'[k].moved => Minds(changes[k].h, changes[k].at)'
    <3>1. changes[k] # Idle /\ changes'[k].h = changes[k].h /\ changes'[k].at = changes[k].at
          /\ changes'[k].moved = changes[k].moved /\ IsChange(changes'[k])
      BY <1>2, <1>3, <1>4, <2>2 DEF PInv, ChangesFit
    <3> QED
      BY <1>1, <2>1, <3>1, SamePage DEF PInv, ChangesFit
  <2> QED
    BY <1>3, <2>2 DEF ChangesFit
<1>8. Shapes' /\ PageFits'
  BY <1>1, <1>5, <1>6, SamePage DEF PInv, Shapes, PageFits
<1>9. /\ \A k \in copy.lacks : Misses(copy, k) /\ k # n /\ k \in Slots
      /\ \A i \in 1..Len(queue) : \A k \in queue[i].lacks : Misses(queue[i], k) /\ k # n /\ k \in Slots
      /\ \A k \in copy.claims : k \in Slots
  BY <1>2, QueueIs DEF PInv, Books, Misses, Shapes, Copy
<1>10. hits => changes'[n].stage # "sent" /\ changes'[n].h.writes # {}
  BY <1>4
<1>11. Books'
  <2>1. \A k \in copy'.claims : changes'[k] # Idle /\ changes'[k].stage = "sent"
    BY <1>3, <1>5, <1>9 DEF PInv, Books
  <2>2. \A x : About(c, x) => About(changes'[n], x)
    BY <1>4 DEF About
  <2> HIDE DEF c, hits
  <2>3. \A k \in copy'.lacks : Misses(copy, k)'
    <3> SUFFICES ASSUME NEW k \in copy'.lacks PROVE Misses(copy, k)'
      OBVIOUS
    <3>1. CASE k \in copy.lacks
      BY <1>1, <1>3, <1>5, <1>9, <3>1, SamePage DEF Misses
    <3>2. CASE k = n /\ hits /\ About(c, copy.of)
      BY <1>1, <1>4, <1>5, <1>10, <2>2, <3>2, SamePage DEF Misses
    <3> QED
      BY <1>5, <3>1, <3>2
  <2>4. \A i \in 1..Len(queue') : \A k \in queue'[i].lacks : Misses(queue[i], k)'
    <3> SUFFICES ASSUME NEW i \in 1..Len(queue), NEW k \in queue'[i].lacks PROVE Misses(queue[i], k)'
      BY <1>6
    <3>1. CASE k \in queue[i].lacks
      BY <1>1, <1>3, <1>6, <1>9, <3>1, SamePage DEF Misses
    <3>2. CASE k = n /\ hits /\ About(c, queue[i].of)
      BY <1>1, <1>4, <1>6, <1>10, <2>2, <3>2, SamePage DEF Misses
    <3> QED
      BY <1>6, <3>1, <3>2
  <2> QED
    BY <2>1, <2>3, <2>4 DEF Books
<1>12. Claims'
  <2> SUFFICES ASSUME NEW k \in Slots, changes'[k] # Idle /\ changes'[k].h.before # {}
               PROVE  Claimed(k)'
    BY DEF Claims
  <2>1. Claimed(k)
    BY <1>2, <1>3, <1>4 DEF PInv, Claims
  <2>2. CASE k = n
    <3>1. changes'[k].stage # "sent"
      BY <1>4, <2>2
    <3>2. \A i \in 1..Len(queue') : queue'[i].passed # "none"
      BY <1>2, <1>6, <2>1, <2>2 DEF Claimed
    <3>3. n \in copy'.lacks => copy'.excuse \in {"late", "kept"}
      BY <1>2, <1>5, <1>9, <2>1, <2>2 DEF Claimed, About
    <3> QED
      BY <2>2, <3>1, <3>2, <3>3 DEF Claimed
  <2>3. CASE k # n
    <3> HIDE DEF c, hits
    <3> QED
      BY <1>3, <1>5, <1>6, <2>1, <2>3 DEF Claimed
  <2> QED
    BY <2>2, <2>3
<1>13. Overtaken'
  BY <1>6, QueueIs DEF PInv, Overtaken, Newest
<1>14. Held' => Fresh'
  <2>1. Held' <=> Held
    BY <1>1, SamePage DEF Held
  <2>2. queue # <<>> => /\ Newest'.passed = Newest.passed /\ Newest'.behind = Newest.behind
                        /\ Newest'.astray = Newest.astray /\ Newest'.leads = Newest.leads
                        /\ Newest'.of = Newest.of
    BY <1>6, QueueIs DEF PInv, Newest
  <2>3. Fresh => Fresh'
    BY <1>1, <1>5, <1>6, <2>2, SamePage DEF Fresh
  <2> QED
    BY <2>1, <2>3 DEF PInv
<1> QED
  BY <1>1, <1>7, <1>8, <1>11, <1>12, <1>13, <1>14, SamePage DEF PInv

-----------------------------------------------------------------------------
(* The answer to a fetch is put in the pane.                               *)

(* The fetches that are left when fetch i was answered.                    *)
Before(i, j) == IF j < i THEN j ELSE j + 1
LeftOver(i, moved) ==
  /\ queue' \in Seq(Entry) /\ Len(queue') = Len(queue) - 1
  /\ \A j \in 1..Len(queue) - 1 :
       /\ Before(i, j) \in 1..Len(queue)
       /\ queue'[j].of = queue[Before(i, j)].of /\ queue'[j].lacks = queue[Before(i, j)].lacks
       /\ queue'[j].behind = queue[Before(i, j)].behind /\ queue'[j].leads = queue[Before(i, j)].leads
       /\ queue'[j].passed = (IF j < i THEN "answer" ELSE queue[Before(i, j)].passed)
       /\ queue'[j].astray <=>
            queue[Before(i, j)].astray \/ (moved /\ queue[Before(i, j)].of[1] # queue[i].of[1])

LEMMA WhatIsLeft ==
  ASSUME PInv, NEW i \in DOMAIN queue, NEW ok \in BOOLEAN, PutDown(i, ok)
  PROVE  i \in 1..Len(queue) /\ LeftOver(i, ok /\ queue[i].leads # "none")
<1> DEFINE a == queue[i]
           rest == [j \in 1..Len(queue) - 1 |->
                      IF j < i THEN [queue[j] EXCEPT !.passed = "answer"] ELSE queue[j + 1]]
           moves(b) == ok /\ a.leads # "none" /\ b.of[1] # a.of[1]
<1>1. i \in 1..Len(queue) /\ Len(queue) \in Nat /\ Len(queue) - 1 \in Nat
  BY QueueIs DEF PInv
<1>2. queue' = [j \in DOMAIN rest |-> [rest[j] EXCEPT !.astray = @ \/ moves(rest[j])]]
  BY DEF PutDown
<1>3. DOMAIN rest = 1..Len(queue) - 1
  OBVIOUS
<1>4. \A j \in 1..Len(queue) - 1 : Before(i, j) \in 1..Len(queue)
  BY <1>1 DEF Before
<1>5. ASSUME NEW j \in 1..Len(queue) - 1
      PROVE  /\ rest[j] \in Entry /\ rest[j].of = queue[Before(i, j)].of
             /\ rest[j].lacks = queue[Before(i, j)].lacks
             /\ rest[j].behind = queue[Before(i, j)].behind /\ rest[j].leads = queue[Before(i, j)].leads
             /\ rest[j].passed = (IF j < i THEN "answer" ELSE queue[Before(i, j)].passed)
             /\ rest[j].astray = queue[Before(i, j)].astray
  <2>1. queue[Before(i, j)] \in Entry
    BY <1>4, QueueIs DEF PInv
  <2>2. CASE j < i
    <3>1. rest[j] = [queue[Before(i, j)] EXCEPT !.passed = "answer"]
      BY <2>2 DEF Before
    <3> QED
      BY <2>1, <2>2, <3>1 DEF Entry
  <2>3. CASE ~(j < i)
    BY <2>1, <2>3 DEF Before
  <2> QED
    BY <2>2, <2>3
<1>6. ASSUME NEW j \in 1..Len(queue) - 1
      PROVE  /\ queue'[j] \in Entry
             /\ queue'[j].of = rest[j].of /\ queue'[j].lacks = rest[j].lacks
             /\ queue'[j].behind = rest[j].behind /\ queue'[j].leads = rest[j].leads
             /\ queue'[j].passed = rest[j].passed
             /\ queue'[j].astray <=> rest[j].astray \/ moves(rest[j])
  <2>1. queue'[j] = [rest[j] EXCEPT !.astray = @ \/ moves(rest[j])]
    BY <1>2, <1>3
  <2>2. rest[j] \in Entry
    BY <1>5
  <2> HIDE DEF rest, moves
  <2> QED
    BY <2>1, <2>2 DEF Entry
<1> HIDE DEF rest
<1>7. queue' = [j \in 1..Len(queue) - 1 |-> queue'[j]]
  BY <1>2, <1>3
<1>8. queue' \in [1..Len(queue) - 1 -> Entry]
  BY <1>6, <1>7
<1>9. queue' \in Seq(Entry) /\ Len(queue') = Len(queue) - 1
  BY <1>1, <1>7, <1>8
<1> QED
  BY <1>1, <1>4, <1>5, <1>6, <1>9 DEF LeftOver

LEMMA PutDownKeeps ==
  ASSUME PInv, NEW i \in DOMAIN queue, NEW ok \in BOOLEAN, PutDown(i, ok)
  PROVE  PInv'
<1> DEFINE a == queue[i]
           led == ok /\ a.leads # "none"
<1>1. page' = page /\ eye' = eye /\ tab' = tab /\ busy' = FALSE
  BY DEF PutDown
<1>2. i \in 1..Len(queue) /\ LeftOver(i, led)
  BY WhatIsLeft
<1>3. Len(queue) \in Nat /\ a \in Entry /\ a.lacks \subseteq Slots /\ a.of \in KeySet /\ Full(a.of)
      /\ a.passed \in {"none", "patch", "answer"} /\ a.behind \in BOOLEAN
      /\ (a.leads # "none" => Leads) /\ (a.leads = "editor" => page = "files")
      /\ a.leads \in {"none", "here", "editor"}
  BY <1>2, QueueIs DEF PInv, Shapes
<1>4. sel \in Selections /\ copy \in Copy /\ eye.scope \in 0..2
  BY DEF PInv, Shapes
<1>5. sel' = IF led THEN [sel EXCEPT ![1] = a.of[1]] ELSE sel
  BY DEF PutDown
<1>6. led => /\ sel'[1] = a.of[1] /\ sel'[2] = sel[2] /\ a.of[1] \in Places /\ a.of[1] # "" /\ Leads
             /\ Key(sel') = a.of
  <2> SUFFICES ASSUME led
               PROVE  /\ sel'[1] = a.of[1] /\ sel'[2] = sel[2] /\ a.of[1] \in Places /\ a.of[1] # "" /\ Leads
                      /\ Key(sel') = a.of
    OBVIOUS
  <2>1. Leads /\ eye.scope = 1 /\ 1 \in 1..eye.scope
    BY <1>3 DEF Leads
  <2>2. a.of[1] \in Places /\ a.of[1] # "" /\ a.of \in [1..1 -> Places]
    BY <1>3, <2>1 DEF KeySet, Full
  <2>3. sel'[1] = a.of[1] /\ sel'[2] = sel[2] /\ sel' \in Selections
    BY <1>4, <1>5, <2>2, SelectionExcept
  <2>4. Key(sel') \in [1..1 -> Places] /\ Key(sel')[1] = a.of[1]
    BY <1>4, <2>1, <2>3, KeyIs DEF KeySet
  <2>5. \A f, g \in [1..1 -> Places] : f[1] = g[1] => f = g
    OBVIOUS
  <2>6. Key(sel') = a.of
    BY <2>2, <2>4, <2>5
  <2> QED
    BY <2>1, <2>2, <2>3, <2>6
<1>7. sel' \in Selections
  BY <1>4, <1>5, <1>6, SelectionExcept
<1>8. modal' = modal \/ modal' = "none" \/ (page = "files" /\ modal' = "editor")
  BY <1>3 DEF PutDown, PInv, Shapes
<1>9. /\ ChangesFit'
      /\ \A n \in Slots : changes'[n] = Idle <=> changes[n] = Idle
      /\ \A n \in Slots : changes[n] # Idle => Marked(changes[n], changes'[n]) /\ IsChange(changes[n])
  <2>1. changes' = Unaware(Leaving(tab', sel'), ok \/ ~eye.keeps)
    BY <1>1 DEF PutDown
  <2> QED
    BY <1>1, <2>1, MovedOn DEF PInv, ChangesFit
<1>10. \A n \in Slots : changes[n] # Idle =>
         /\ changes'[n] # Idle /\ changes'[n].stage = changes[n].stage
         /\ changes'[n].h = changes[n].h /\ changes'[n].at = changes[n].at
  BY <1>9, MarkedChange
\* What the pane comes to hold.
<1>11. \/ /\ ok /\ copy'.of = a.of /\ copy'.lacks = a.lacks /\ copy'.behind = a.behind /\ copy'.claims = {}
          /\ copy'.excuse = IF a.passed # "none" THEN "late" ELSE IF a.astray THEN "astray" ELSE "none"
          /\ copy' \in Copy
       \/ /\ ~ok /\ copy' = Empty
       \/ /\ ~ok /\ copy' = copy /\ a.passed = "answer" /\ copy.of = a.of
       \/ /\ ~ok /\ copy' = [copy EXCEPT !.excuse = "kept"]
  <2>1. copy' = IF ok THEN [Empty EXCEPT !.of = a.of, !.lacks = a.lacks, !.behind = a.behind,
                           !.excuse = IF a.passed # "none" THEN "late"
                                      ELSE IF a.astray THEN "astray" ELSE "none"]
             ELSE IF ~eye.keeps THEN Empty
             ELSE IF a.passed = "answer" /\ copy.of = a.of THEN copy ELSE [copy EXCEPT !.excuse = "kept"]
    BY DEF PutDown
  <2>2. CASE ok
    <3> DEFINE e == IF a.passed # "none" THEN "late" ELSE IF a.astray THEN "astray" ELSE "none"
    <3>1. e \in {"none", "kept", "late", "astray"}
      OBVIOUS
    <3>2. copy' = [of |-> a.of, lacks |-> a.lacks, claims |-> {}, behind |-> a.behind, excuse |-> e]
      BY <2>1, <2>2 DEF Empty
    <3> HIDE DEF e
    <3>3. copy' \in Copy
      BY <1>3, <3>1, <3>2 DEF Copy
    <3> QED
      BY <2>2, <3>2, <3>3 DEF e
  <2>3. CASE ~ok
    BY <2>1, <2>3
  <2> QED
    BY <2>2, <2>3
<1>12. /\ copy' \in Copy
       /\ ~ok => \/ copy'.of = NoKey /\ copy'.lacks = {} /\ copy'.claims = {} /\ ~copy'.behind
                 \/ /\ copy'.of = copy.of /\ copy'.lacks = copy.lacks /\ copy'.claims = copy.claims
                    /\ copy'.excuse = "kept"
                 \/ copy' = copy /\ a.passed = "answer" /\ copy.of = a.of
  <2>1. CASE copy' = [copy EXCEPT !.excuse = "kept"]
    BY <1>4, <2>1 DEF Copy
  <2>2. CASE copy' = Empty
    BY <2>2 DEF Copy, Empty
  <2> QED
    BY <1>4, <1>11, <2>1, <2>2
<1> HIDE DEF a, led
<1>13. \A j \in 1..Len(queue) - 1 : queue'[j].passed = "answer" \/ queue'[j].passed = queue[Before(i, j)].passed
  BY <1>2 DEF LeftOver
<1>14. Shapes'
  <2>1. \A j \in 1..Len(queue') : /\ Full(queue'[j].of) /\ (queue'[j].leads # "none" => Leads)
                                  /\ queue'[j].leads = "editor" => page = "files"
    BY <1>2 DEF LeftOver, PInv, Shapes
  <2> QED
    BY <1>1, <1>2, <1>7, <1>12, <2>1, SamePage DEF LeftOver, PInv, Shapes
<1>15. PageFits'
  <2>1. Fits(tab, sel', modal)
    <3>1. ASSUME led
          PROVE  eye.scope = 1 /\ sel'[1] # "" /\ sel'[2] = sel[2]
      BY <1>6, <3>1 DEF Leads
    <3>2. Full(sel) => Full(sel')
      <4>1. CASE led
        <5>1. \A j \in 1..eye.scope : j = 1
          <6>1. eye.scope = 1
            BY <3>1, <4>1
          <6> QED
            BY <6>1
        <5> QED
          BY <3>1, <4>1, <5>1 DEF Full
      <4> QED
        BY <1>5, <4>1
    <3> QED
      BY <1>5, <3>1, <3>2 DEF PInv, PageFits, Fits
  <2>2. Fits(tab, sel', modal')
    BY <1>8, <2>1 DEF Fits
  <2> QED
    BY <1>1, <2>2, SamePage DEF PageFits
<1>16. Held' => Held
  <2>1. Kept(tab, sel', modal') => Kept(tab, sel', modal)
    BY <1>8, NoModal DEF Kept
  <2>2. Kept(tab, sel', modal) => Kept(tab, sel, modal)
    BY <1>5, <1>6 DEF Kept, Leads
  <2> QED
    BY <1>1, <2>1, <2>2, SamePage DEF Held
<1>17. \A x, n : n \in Slots /\ Misses(x, n) =>
           changes'[n] # Idle /\ changes'[n].stage # "sent" /\ changes'[n].h.writes # {}
           /\ About(changes'[n], x.of)
  BY <1>10 DEF Misses, About
<1>18. /\ \A n \in copy.lacks : n \in Slots /\ Misses(copy, n)
       /\ \A j \in 1..Len(queue) : \A n \in queue[j].lacks : n \in Slots /\ Misses(queue[j], n)
       /\ \A n \in copy.claims : n \in Slots /\ changes[n] # Idle /\ changes[n].stage = "sent"
  BY <1>4, QueueIs DEF PInv, Books, Copy
<1>19. Books'
  <2>1. \A n \in copy'.claims : changes'[n] # Idle /\ changes'[n].stage = "sent"
    BY <1>10, <1>11, <1>12, <1>18
  <2>2. ASSUME NEW n \in copy'.lacks
        PROVE  Misses(copy, n)'
    <3>1. CASE ok
      <4>1. copy'.of = queue[i].of /\ n \in queue[i].lacks
        BY <1>11, <3>1 DEF a
      <4>2. n \in Slots /\ Misses(queue[i], n)
        BY <1>2, <1>18, <4>1
      <4> QED
        BY <1>1, <1>17, <4>1, <4>2, SamePage DEF Misses
    <3>2. CASE ~ok
      <4>1. copy'.of = copy.of /\ n \in copy.lacks
        BY <1>12, <3>2
      <4> QED
        BY <1>1, <1>17, <1>18, <4>1, SamePage DEF Misses
    <3> QED
      BY <3>1, <3>2
  <2>3. ASSUME NEW j \in 1..Len(queue'), NEW n \in queue'[j].lacks
        PROVE  Misses(queue[j], n)'
    <3> DEFINE k == Before(i, j)
    <3>1. k \in 1..Len(queue) /\ queue'[j].of = queue[k].of /\ n \in queue[k].lacks
      BY <1>2 DEF LeftOver
    <3> HIDE DEF k
    <3>2. n \in Slots /\ Misses(queue[k], n)
      BY <1>18, <3>1
    <3> QED
      BY <1>1, <1>17, <3>1, <3>2, SamePage DEF Misses
  <2> QED
    BY <2>1, <2>2, <2>3 DEF Books
<1>20. Claims'
  <2> SUFFICES ASSUME NEW n \in Slots, changes'[n] # Idle /\ changes'[n].h.before # {}
               PROVE  Claimed(n)'
    BY DEF Claims
  <2>1. changes'[n].stage = changes[n].stage /\ Claimed(n)
    BY <1>9, <1>10 DEF PInv, Claims
  <2>2. \A j \in 1..Len(queue') : /\ Before(i, j) \in 1..Len(queue)
                                  /\ queue'[j].lacks = queue[Before(i, j)].lacks
                                  /\ queue[Before(i, j)].passed # "none" => queue'[j].passed # "none"
    BY <1>2, <1>13 DEF LeftOver
  <2>3. changes'[n].stage = "sent" =>
          /\ \A j \in 1..Len(queue') : queue'[j].passed # "none"
          /\ n \in copy'.claims \/ copy'.of = NoKey \/ copy'.excuse \in {"late", "kept"}
    <3> SUFFICES ASSUME changes'[n].stage = "sent"
                 PROVE  /\ \A j \in 1..Len(queue') : queue'[j].passed # "none"
                        /\ n \in copy'.claims \/ copy'.of = NoKey \/ copy'.excuse \in {"late", "kept"}
      OBVIOUS
    <3>1. a.passed # "none"
      BY <1>2, <2>1 DEF Claimed, a
    <3> QED
      BY <1>11, <1>12, <2>1, <2>2, <3>1 DEF Claimed
  <2>4. \A j \in 1..Len(queue') : n \in queue'[j].lacks => queue'[j].passed # "none"
    BY <2>1, <2>2 DEF Claimed
  <2>5. n \in copy'.lacks => copy'.excuse \in {"late", "kept"}
    <3>1. n \in a.lacks => a.passed # "none"
      BY <1>2, <2>1 DEF Claimed, a
    <3> QED
      BY <1>11, <1>12, <2>1, <3>1 DEF Claimed
  <2> QED
    BY <2>3, <2>4, <2>5 DEF Claimed
\* The newest fetch that is left is the newest there was, or was overtaken.
<1>21. CASE i = Len(queue)
  <2>1. \A j \in 1..Len(queue') : queue'[j].passed = "answer"
    BY <1>2, <1>3, <1>21 DEF LeftOver
  <2>2. Overtaken' /\ (queue' # <<>> => Newest'.passed = "answer")
    <3>1. queue' # <<>> => Len(queue') \in 1..Len(queue')
      BY <1>2, <1>3, EmptySeq DEF LeftOver
    <3> QED
      BY <2>1, <3>1 DEF Overtaken, Newest
  <2>3. a = Newest /\ queue # <<>>
    BY <1>2, <1>21, QueueIs DEF PInv, Newest, a
  <2>4. Held => Fresh'
    <3> SUFFICES ASSUME Fresh
                 PROVE  /\ copy'.excuse = "none" => copy'.of \in {NoKey, Key(sel')}
                        /\ copy'.excuse \in {"none", "astray"} => ~copy'.behind
      BY <1>1, <2>2, SamePage DEF PInv, Fresh
    <3>1. CASE ok
      <4>1. copy'.excuse \in {"none", "astray"} => a.passed = "none" /\ (copy'.excuse = "none" => ~a.astray)
        BY <1>11, <3>1
      <4>2. a.passed = "none" => ~a.behind /\ (a.astray \/ a.leads # "none" \/ a.of = Key(sel))
        BY <2>3 DEF Fresh
      <4>3. a.leads # "none" => a.of = Key(sel')
        BY <1>6, <3>1 DEF led
      <4>4. a.leads = "none" => sel' = sel
        BY <1>5, <3>1 DEF led
      <4>5. copy'.of = a.of /\ copy'.behind = a.behind
        BY <1>11, <3>1
      <4> QED
        BY <4>1, <4>2, <4>3, <4>4, <4>5
    <3>2. CASE ~ok
      <4>1. sel' = sel
        BY <1>5, <3>2 DEF led
      <4>2. a.passed = "answer" => /\ copy.excuse = "none" => copy.of \in {NoKey, Key(sel)}
                                   /\ copy.excuse \in {"none", "astray"} => ~copy.behind
        BY <2>3 DEF Fresh
      <4> QED
        BY <1>12, <3>2, <4>1, <4>2
    <3> QED
      BY <3>1, <3>2
  <2> QED
    BY <1>1, <1>9, <1>14, <1>15, <1>16, <1>19, <1>20, <2>2, <2>4, SamePage DEF PInv
<1>22. CASE i < Len(queue)
  <2> DEFINE z == queue[Len(queue)]
  <2>1. /\ queue' # <<>> /\ queue # <<>> /\ Newest = z
        /\ Newest'.of = z.of /\ Newest'.behind = z.behind /\ Newest'.leads = z.leads
        /\ Newest'.passed = z.passed
        /\ Newest'.astray <=> z.astray \/ (led /\ z.of[1] # a.of[1])
    <3>1. Len(queue) - 1 \in 1..Len(queue) - 1 /\ Before(i, Len(queue) - 1) = Len(queue)
          /\ ~(Len(queue) - 1 < i)
      BY <1>2, <1>3, <1>22 DEF Before
    <3>2. Len(queue') = Len(queue) - 1 /\ queue' \in Seq(Entry)
      BY <1>2 DEF LeftOver
    <3>3. queue' # <<>> /\ queue # <<>>
      BY <1>3, <3>1, <3>2, EmptySeq
    <3>4. Newest' = queue'[Len(queue) - 1] /\ Newest = z
      BY <3>2 DEF Newest
    <3> QED
      BY <1>2, <3>1, <3>3, <3>4 DEF LeftOver, a
  <2> HIDE DEF z
  <2>2. Overtaken'
    <3>1. z.passed = "answer" => \A j \in 1..Len(queue) : queue[j].passed = "answer"
      BY <2>1 DEF PInv, Overtaken
    <3>2. z.passed = "answer" => \A j \in 1..Len(queue') : queue'[j].passed = "answer"
      BY <1>2, <1>13, <3>1 DEF LeftOver
    <3> QED
      BY <2>1, <3>2 DEF Overtaken
  <2>3. Held => Fresh'
    <3> SUFFICES ASSUME Fresh
                 PROVE  Fresh'
      BY DEF PInv
    <3>1. ASSUME z.passed = "none"
          PROVE  ~Newest'.behind /\ (Newest'.astray \/ Newest'.leads # "none" \/ Newest'.of = Key(sel'))
      <4>1. ~z.behind /\ (z.astray \/ z.leads # "none" \/ z.of = Key(sel))
        BY <2>1, <3>1 DEF Fresh
      <4>2. CASE led
        <5>1. z.of \in [1..1 -> Places] /\ a.of \in [1..1 -> Places]
          <6>1. Len(queue) \in 1..Len(queue) /\ eye.scope = 1
            <7>1. eye.scope = 1
              BY <1>6, <4>2 DEF Leads
            <7> QED
              BY <1>2, <1>3, <7>1
          <6> QED
            BY <1>3, <6>1, QueueIs DEF PInv, KeySet, z
        <5>2. z.of[1] = a.of[1] => z.of = a.of
          BY <5>1
        <5> QED
          BY <1>6, <2>1, <4>1, <4>2, <5>2
      <4>3. CASE ~led
        BY <1>5, <2>1, <4>1, <4>3
      <4> QED
        BY <4>2, <4>3
    <3>2. ASSUME z.passed = "answer"
          PROVE  /\ copy'.excuse = "none" => copy'.of \in {NoKey, Key(sel')}
                 /\ copy'.excuse \in {"none", "astray"} => ~copy'.behind
      <4>1. a.passed = "answer"
        BY <1>2, <2>1, <3>2 DEF PInv, Overtaken, a
      <4>2. /\ copy.excuse = "none" => copy.of \in {NoKey, Key(sel)}
            /\ copy.excuse \in {"none", "astray"} => ~copy.behind
        BY <2>1, <3>2 DEF Fresh
      <4> QED
        BY <1>5, <1>11, <1>12, <4>1, <4>2 DEF led
    <3> QED
      BY <1>1, <2>1, <3>1, <3>2, SamePage DEF Fresh
  <2> QED
    BY <1>1, <1>9, <1>14, <1>15, <1>16, <1>19, <1>20, <2>2, <2>3, SamePage DEF PInv
<1> QED
  BY <1>2, <1>3, <1>21, <1>22

-----------------------------------------------------------------------------
(* An answer reaches its handler.                                          *)

(* Where the page is led, the pane is fetched, or it is the same place.    *)
Landing(c, panes) ==
  /\ Fits(TabAfter(c), SelAfter(c), modal')
  /\ Kept(TabAfter(c), SelAfter(c), modal') =>
       \/ eye.name \in panes \cup c.h.clears \cup c.h.follows /\ Full(SelAfter(c))
       \/ c.h.clears = {} /\ Held /\ Key(SelAfter(c)) = Key(sel)

LEMMA WhereItLeads ==
  ASSUME PInv, NEW c, IsChange(c), HandlerFits(c.h)
  PROVE  /\ SelAfter(c) \in Selections
         /\ On(c) => TabAfter(c) = TabOn(c.h) /\ SelAfter(c) = SelOn(c.h)
         /\ ~On(c) => TabAfter(c) = tab /\ SelAfter(c) = sel
<1>1. sel \in Selections /\ sel = <<sel[1], sel[2]>> /\ DOMAIN sel = {1, 2} /\ sel[1] \in Places /\ sel[2] \in Places
  BY SelectionParts DEF PInv, Shapes
<1>2. c.h.toSel[1] \in Places \cup {"same"} /\ c.h.toSel[2] \in Places \cup {"same"}
  BY DEF HandlerFits, Goals
<1> DEFINE x == IF On(c) /\ c.h.toSel[1] # "same" THEN c.h.toSel[1] ELSE sel[1]
           y == IF On(c) /\ c.h.toSel[2] # "same" THEN c.h.toSel[2] ELSE sel[2]
<1>3. SelAfter(c) = <<x, y>>
  BY <1>1 DEF SelAfter
<1>4. x \in Places /\ y \in Places
  BY <1>1, <1>2
<1>5. SelAfter(c) \in Selections
  BY <1>3, <1>4 DEF Selections
<1>6. On(c) => SelAfter(c) = SelOn(c.h)
  BY <1>3 DEF SelOn, Led
<1>7. ~On(c) => SelAfter(c) = sel
  BY <1>1, <1>3
<1> QED
  BY <1>5, <1>6, <1>7 DEF TabAfter, TabOn, Led

(* The changes, once one of them is answered.                              *)
LEMMA EndedOn ==
  ASSUME ChangesFit, page' = page, eye' = eye, NEW n \in Slots,
         NEW changed, changes' = [Unaware(Leaving(tab', sel'), changed) EXCEPT ![n] = Idle]
  PROVE  /\ ChangesFit' /\ changes'[n] = Idle
         /\ \A k \in Slots : changes'[k] # Idle =>
              /\ k # n /\ changes[k] # Idle /\ changes'[k].stage = changes[k].stage
              /\ changes'[k].h = changes[k].h /\ changes'[k].at = changes[k].at
         /\ \A k \in Slots : k # n /\ changes[k] # Idle => changes'[k] # Idle
<1>1. changes'[n] = Idle /\ changes' = [k \in Slots |-> changes'[k]]
      /\ \A k \in Slots : k # n => changes'[k] = Unaware(Leaving(tab', sel'), changed)[k]
  BY DEF Unaware
<1>2. \A k \in Slots : k # n /\ changes[k] = Idle => changes'[k] = Idle
  BY <1>1, WhatIsMarked
<1>3. \A k \in Slots : k # n /\ changes[k] # Idle =>
        /\ IsChange(changes[k]) /\ Marked(changes[k], changes'[k])
        /\ ~changes'[k].moved => tab' = tab /\ sel' = sel
  BY <1>1, WhatIsMarked
<1>4. ASSUME NEW k \in Slots, k # n, changes[k] # Idle
      PROVE  /\ changes'[k] # Idle /\ changes'[k].stage = changes[k].stage
             /\ changes'[k].h = changes[k].h /\ changes'[k].at = changes[k].at
             /\ IsChange(changes'[k]) /\ (~changes'[k].moved => ~changes[k].moved)
  BY <1>3, <1>4, MarkedChange
<1>5. ASSUME NEW k \in Slots, k # n, changes[k] # Idle, ~changes'[k].moved
      PROVE  tab' = tab /\ sel' = sel /\ ~changes[k].moved
  BY <1>3, <1>4, <1>5
<1>6. \A h, s : tab' = tab /\ sel' = sel /\ Minds(h, s) => Minds(h, s)'
  BY SamePage DEF Minds, TabOn, SelOn, Led
<1>7. ASSUME NEW k \in Slots, changes'[k] # Idle
      PROVE  /\ IsChange(changes'[k]) /\ HandlerFits(changes[k].h)'
             /\ ~changes'[k].moved => Minds(changes[k].h, changes[k].at)'
  <2>1. k # n /\ changes[k] # Idle
    BY <1>1, <1>2, <1>7
  <2>2. HandlerFits(changes[k].h)'
    BY <1>4, <2>1, SamePage DEF ChangesFit
  <2>3. ~changes'[k].moved => Minds(changes[k].h, changes[k].at)'
    BY <1>4, <1>5, <1>6, <2>1 DEF ChangesFit
  <2> QED
    BY <1>4, <2>1, <2>2, <2>3
<1>8. ChangesFit'
  BY <1>1, <1>7 DEF ChangesFit
<1> QED
  BY <1>1, <1>2, <1>4, <1>8

Rebooked(y, x, l, b) == y = [x EXCEPT !.lacks = l, !.behind = b]

LEMMA EntryRebooked ==
  ASSUME NEW x \in Entry, NEW l \in SUBSET Slots, NEW b \in BOOLEAN, NEW y, Rebooked(y, x, l, b)
  PROVE  /\ y \in Entry /\ y.of = x.of /\ y.leads = x.leads /\ y.passed = x.passed
         /\ y.astray = x.astray /\ y.lacks = l /\ y.behind = b
BY DEF Entry, Rebooked

LEMMA CopyRebooked ==
  ASSUME NEW x \in Copy, NEW l \in SUBSET Slots, NEW b \in BOOLEAN, NEW y, Rebooked(y, x, l, b)
  PROVE  /\ y \in Copy /\ y.of = x.of /\ y.claims = x.claims /\ y.excuse = x.excuse
         /\ y.lacks = l /\ y.behind = b
BY DEF Copy, Rebooked

(* The fetches on their way once change n is reported, here or not.        *)
LEMMA ReportedIs ==
  ASSUME PInv, NEW n \in Slots, NEW here \in BOOLEAN, NEW old,
         old = [i \in DOMAIN queue |-> Reported(queue[i], n, here)]
  PROVE  /\ old \in Seq(Entry) /\ Len(old) = Len(queue)
         /\ \A i \in 1..Len(queue) :
              /\ old[i].of = queue[i].of /\ old[i].leads = queue[i].leads
              /\ old[i].passed = queue[i].passed /\ old[i].astray = queue[i].astray
              /\ old[i].lacks = queue[i].lacks \ {n}
              /\ old[i].behind <=> queue[i].behind \/ (here /\ n \in queue[i].lacks)
<1>1. /\ Len(queue) \in Nat /\ DOMAIN queue = 1..Len(queue)
      /\ \A i \in 1..Len(queue) : queue[i] \in Entry /\ queue[i].behind \in BOOLEAN
  BY QueueIs DEF PInv
<1>2. ASSUME NEW i \in 1..Len(queue)
      PROVE  /\ old[i] \in Entry /\ old[i].of = queue[i].of /\ old[i].leads = queue[i].leads
             /\ old[i].passed = queue[i].passed /\ old[i].astray = queue[i].astray
             /\ old[i].lacks = queue[i].lacks \ {n}
             /\ old[i].behind <=> queue[i].behind \/ (here /\ n \in queue[i].lacks)
  <2> DEFINE b == queue[i].behind \/ (here /\ n \in queue[i].lacks)
             l == queue[i].lacks \ {n}
  <2>1. queue[i] \in Entry /\ b \in BOOLEAN /\ l \in SUBSET Slots
    BY <1>1 DEF Entry
  <2>2. Rebooked(old[i], queue[i], l, b)
    BY <1>1 DEF Reported, Rebooked
  <2> HIDE DEF b, l
  <2>3. /\ old[i] \in Entry /\ old[i].of = queue[i].of /\ old[i].leads = queue[i].leads
        /\ old[i].passed = queue[i].passed /\ old[i].astray = queue[i].astray
        /\ old[i].lacks = l /\ old[i].behind = b
    BY <2>1, <2>2, EntryRebooked
  <2>4. b <=> queue[i].behind \/ (here /\ n \in queue[i].lacks)
    BY DEF b
  <2>5. l = queue[i].lacks \ {n}
    BY DEF l
  <2> QED
    BY <2>3, <2>4, <2>5
<1>3. old = [i \in 1..Len(queue) |-> old[i]]
  BY <1>1
<1>4. old \in [1..Len(queue) -> Entry]
  BY <1>2, <1>3
<1>5. old \in Seq(Entry) /\ Len(old) = Len(queue)
  BY <1>1, <1>3, <1>4
<1> QED
  BY <1>2, <1>5

(* What the pane holds once change n is reported: what it held, the answer *)
(* put in whole, what the handler knew, or nothing.                        *)
Patches(c) == c.h.after # {} /\ On(c)
Here(c) == c.stage = "done" /\ c.h.minds /\ (c.moved => Renews(c))
Holds(c, n) ==
  /\ copy' \in Copy
  /\ \/ /\ On(c) /\ c.h.clears # {} /\ copy' = Empty
     \/ /\ Patches(c) /\ c.h.whole /\ copy'.lacks = {} /\ copy'.claims = {} /\ ~copy'.behind
        /\ copy'.excuse = "astray"
     \/ /\ copy'.lacks = {} /\ copy'.claims = {} /\ copy'.excuse = "late"
     \/ /\ copy'.of = copy.of /\ copy'.claims = copy.claims /\ copy'.excuse = copy.excuse
        /\ copy'.lacks = copy.lacks \ {n}
        /\ copy'.behind <=> copy.behind \/ (Here(c) /\ ~Patches(c) /\ n \in copy.lacks)

LEMMA HoldsThen ==
  ASSUME PInv, NEW n \in Slots, NEW panes, changes[n] # Idle, Answer(n, panes)
  PROVE  Holds(changes[n], n)
<1> DEFINE c == changes[n]
           p == IF Patches(c) /\ c.over THEN [Empty EXCEPT !.of = Key(c.at), !.excuse = "late"]
                ELSE IF Patches(c) /\ About(c, copy.of) THEN [copy EXCEPT !.lacks = @ \ {n}]
                ELSE IF Patches(c) /\ c.h.whole THEN [Empty EXCEPT !.of = Key(c.at), !.excuse = "astray"]
                ELSE copy
<1>1. IsChange(c) /\ c.at \in Selections /\ Here(c) \in BOOLEAN
  BY DEF PInv, ChangesFit, IsChange, Here
<1>2. copy' = IF On(c) /\ c.h.clears # {} THEN Empty ELSE Reported(p, n, Here(c))
  BY DEF Answer, Patches, Here
<1>3. Key(c.at) \in KeySet /\ copy \in Copy
  BY <1>1, KeyIs DEF PInv, Shapes
<1>4. n \in copy.lacks => About(c, copy.of)
  BY DEF PInv, Books, Misses
<1>5. CASE On(c) /\ c.h.clears # {}
  BY <1>2, <1>5 DEF Holds, Copy, Empty
<1>6. CASE ~(On(c) /\ c.h.clears # {})
  <2>1. copy' = Reported(p, n, Here(c))
    BY <1>2, <1>6
  <2> HIDE DEF c
  <2>2. CASE Patches(c) /\ About(c, copy.of) /\ ~c.over
    <3> DEFINE r == copy.lacks \ {n}
               b == copy.behind \/ (Here(c) /\ n \in r)
    <3>1. copy' = [copy EXCEPT !.lacks = r, !.behind = b]
      <4>1. p = [copy EXCEPT !.lacks = r]
        BY <2>2
      <4> HIDE DEF p
      <4>2. copy' = [p EXCEPT !.lacks = p.lacks \ {n}, !.behind = p.behind \/ (Here(c) /\ n \in p.lacks)]
        BY <2>1 DEF Reported
      <4>3. p \in Copy /\ p.lacks = r /\ p.behind = copy.behind
        BY <1>3, <4>1 DEF Copy
      <4>4. r \ {n} = r
        OBVIOUS
      <4> HIDE DEF r
      <4>5. copy' = [copy EXCEPT !.lacks = r, !.behind = b]
        BY <1>3, <4>1, <4>2, <4>3, <4>4 DEF Copy
      <4> QED
        BY <4>5
    <3>2. b <=> copy.behind
      OBVIOUS
    <3>3. b \in BOOLEAN /\ r \in SUBSET Slots
      BY <1>1, <1>3 DEF Copy
    <3> HIDE DEF b
    <3>4. Rebooked(copy', copy, r, b)
      BY <3>1 DEF Rebooked
    <3>5. /\ copy' \in Copy /\ copy'.of = copy.of /\ copy'.claims = copy.claims
          /\ copy'.excuse = copy.excuse /\ copy'.lacks = r /\ copy'.behind = b
      BY <1>3, <3>3, <3>4, CopyRebooked
    <3>6. copy'.behind <=> copy.behind
      BY <3>2, <3>5
    <3> QED
      BY <2>2, <3>5, <3>6 DEF Holds, c
  <2>3. CASE Patches(c) /\ ~About(c, copy.of) /\ c.h.whole /\ ~c.over
    <3>1. p = [of |-> Key(c.at), lacks |-> {}, claims |-> {}, behind |-> FALSE, excuse |-> "astray"]
      BY <2>3 DEF Empty
    <3> HIDE DEF p
    <3>2. copy' = [of |-> Key(c.at), lacks |-> {}, claims |-> {}, behind |-> FALSE, excuse |-> "astray"]
      BY <2>1, <3>1 DEF Reported
    <3>3. copy' \in Copy
      BY <1>3, <3>2 DEF Copy
    <3> QED
      BY <2>3, <3>2, <3>3 DEF Holds, c
  <2>4. CASE ~(Patches(c) /\ (About(c, copy.of) \/ c.h.whole \/ c.over))
    <3> DEFINE b == copy.behind \/ (Here(c) /\ n \in copy.lacks)
    <3>1. p = copy
      BY <2>4
    <3> HIDE DEF p
    <3>2. copy' = [copy EXCEPT !.lacks = @ \ {n}, !.behind = b]
      BY <2>1, <3>1 DEF Reported
    <3>3. b \in BOOLEAN
      BY <1>1, <1>3 DEF Copy
    <3>4. b <=> copy.behind \/ (Here(c) /\ ~Patches(c) /\ n \in copy.lacks)
      BY <1>4, <2>4 DEF c
    <3> HIDE DEF b
    <3>5. Rebooked(copy', copy, copy.lacks \ {n}, b) /\ copy.lacks \ {n} \in SUBSET Slots
      BY <1>3, <3>2 DEF Rebooked, Copy
    <3>6. /\ copy' \in Copy /\ copy'.of = copy.of /\ copy'.claims = copy.claims
          /\ copy'.excuse = copy.excuse /\ copy'.lacks = copy.lacks \ {n} /\ copy'.behind = b
      BY <1>3, <3>3, <3>5, CopyRebooked
    <3> QED
      BY <3>4, <3>6 DEF Holds, c
  <2>5. CASE Patches(c) /\ c.over
    <3>1. p = [of |-> Key(c.at), lacks |-> {}, claims |-> {}, behind |-> FALSE, excuse |-> "late"]
      BY <2>5 DEF Empty
    <3> HIDE DEF p
    <3>2. copy' = [of |-> Key(c.at), lacks |-> {}, claims |-> {}, behind |-> FALSE, excuse |-> "late"]
      BY <2>1, <3>1 DEF Reported
    <3>3. copy' \in Copy
      BY <1>3, <3>2 DEF Copy
    <3> QED
      BY <3>2, <3>3 DEF Holds
  <2> QED
    BY <2>2, <2>3, <2>4, <2>5
<1> QED
  BY <1>5, <1>6

(* What is fetched as the answer to c comes.                               *)
Refetched(c, panes) ==
  LET s == SelAfter(c) IN
  Asked(IF On(c) THEN c.h.asks ELSE c.h.orElse, c.at, Key(c.at) # Key(s))
    \o Asked(panes \cup (IF On(c) THEN c.h.clears \cup c.h.follows ELSE {}), s, FALSE)
    \o Asked(IF c.h.visits # "" /\ eye.leads THEN {eye.name} ELSE {}, <<c.h.visits, "">>, FALSE)

LEMMA RefetchedFits ==
  ASSUME PInv, NEW c, IsChange(c), HandlerFits(c.h), NEW panes
  PROVE  /\ Fetched(Refetched(c, panes), SelAfter(c))
         /\ On(c) /\ eye.name \in c.h.asks /\ Full(c.at) => Refetched(c, panes) # <<>>
         /\ On(c) /\ eye.name \in panes \cup c.h.clears \cup c.h.follows /\ Full(SelAfter(c)) =>
              Refetched(c, panes) # <<>>
<1> DEFINE s == SelAfter(c)
           again == IF On(c) THEN c.h.asks ELSE c.h.orElse
           astray == Key(c.at) # Key(s)
           more == panes \cup (IF On(c) THEN c.h.clears \cup c.h.follows ELSE {})
           visited == IF c.h.visits # "" /\ eye.leads THEN {eye.name} ELSE {}
           x == Asked(again, c.at, astray)
           y == Asked(more, s, FALSE)
           z == Asked(visited, <<c.h.visits, "">>, FALSE)
<1>1. Shapes /\ s \in Selections /\ c.at \in Selections
  BY WhereItLeads DEF PInv, IsChange
<1>2. <<c.h.visits, "">> \in Selections
  BY DEF HandlerFits, Selections, Places
<1>3. Fetched(x, s) /\ (x # <<>> <=> eye.name \in again /\ Full(c.at))
  <2>1. astray \in BOOLEAN /\ (eye.name \in again => astray \/ eye.leads \/ Key(c.at) = Key(s))
    OBVIOUS
  <2> HIDE DEF again, astray, s
  <2> QED
    BY <1>1, <2>1, AskedFits
<1>4. Fetched(y, s) /\ (y # <<>> <=> eye.name \in more /\ Full(s))
  <2> HIDE DEF more, s
  <2> QED
    BY <1>1, AskedFits
<1>5. Fetched(z, s)
  <2>1. eye.name \in visited => eye.leads
    OBVIOUS
  <2> HIDE DEF visited, s
  <2> QED
    BY <1>1, <1>2, <2>1, AskedFits
<1>6. Refetched(c, panes) = (x \o y) \o z
  BY DEF Refetched
<1> HIDE DEF x, y, z, s
<1>7. Fetched(x \o y, s) /\ (x # <<>> \/ y # <<>> => x \o y # <<>>)
  BY <1>3, <1>4, FetchedTogether
<1>8. Fetched((x \o y) \o z, s) /\ (x # <<>> \/ y # <<>> => (x \o y) \o z # <<>>)
  BY <1>5, <1>7, FetchedTogether
<1> QED
  BY <1>3, <1>4, <1>6, <1>8 DEF s

(* A change that is reported and missed will be fetched, or was minded.    *)
LEMMA NotMissed ==
  ASSUME PInv, NEW n \in Slots, changes[n] # Idle, Here(changes[n]), NEW m,
         NEW x, Misses(x, n),
         Kept(TabAfter(changes[n]), SelAfter(changes[n]), m)
  PROVE  \/ changes[n].h.before # {} \/ Patches(changes[n]) \/ changes[n].h.clears # {}
         \/ On(changes[n]) /\ eye.name \in changes[n].h.asks /\ Full(changes[n].at)
<1> DEFINE c == changes[n]
<1>1. /\ IsChange(c) /\ HandlerFits(c.h) /\ c.stage = "done"
      /\ IF c.moved THEN Renews(c) ELSE Minds(c.h, c.at)
  BY DEF PInv, ChangesFit, Here
<1>2. On(c)
  BY <1>1 DEF On, HandlerFits
<1>3. c.h.minds /\ c.h.writes # {}
  BY DEF Here, Misses
<1>4. c.h.asks # {} => eye.name \in c.h.asks
  BY <1>1 DEF HandlerFits, Mine
<1>5. TabAfter(c) = TabOn(c.h) /\ SelAfter(c) = SelOn(c.h)
  BY <1>1, <1>2, WhereItLeads
<1>6. \A t, s : WithoutModal /\ Kept(t, s, m) => Kept(t, s, "none")
  BY DEF WithoutModal, Kept, KeptByEmail, KeptByConsole
<1> HIDE DEF c
<1>7. ~(WithoutModal /\ ~Kept(TabOn(c.h), SelOn(c.h), "none"))
  BY <1>5, <1>6 DEF c
<1>8. \/ c.h.before # {} \/ c.h.after # {} \/ c.h.clears # {}
      \/ c.h.asks # {} /\ Full(c.at)
  <2>1. CASE c.moved
    BY <1>1, <2>1 DEF Renews, Full
  <2>2. CASE ~c.moved
    BY <1>1, <1>3, <1>7, <2>2 DEF Minds
  <2> QED
    BY <2>1, <2>2
<1> QED
  BY <1>2, <1>4, <1>8 DEF c, Patches

LEMMA AnswerKeeps ==
  ASSUME PInv, NEW n \in Slots, changes[n] # Idle, NEW panes, Answer(n, panes),
         On(changes[n]) => Landing(changes[n], panes)
  PROVE  PInv'
<1> DEFINE c == changes[n]
           s == SelAfter(c)
           new == Refetched(c, panes)
           here == Here(c)
           old == [i \in DOMAIN queue |-> Reported(queue[i], n, here)]
           q == IF Patches(c) THEN Passed(old) ELSE old
<1>1. IsChange(c) /\ HandlerFits(c.h) /\ c.stage # "sent" /\ here \in BOOLEAN
  BY DEF PInv, ChangesFit, Answer, Here, IsChange
<1>2. /\ page' = page /\ eye' = eye /\ tab' = TabAfter(c) /\ sel' = s
      /\ busy' = (busy \/ new # <<>>) /\ queue' = q \o new
      /\ changes' = [Unaware(Leaving(tab', sel'), Patches(c) \/ (On(c) /\ c.h.clears # {})) EXCEPT ![n] = Idle]
  BY DEF Answer, Refetched, Patches, Here
<1>3. s \in Selections
  BY <1>1, WhereItLeads
<1>4. ~On(c) => /\ tab' = tab /\ sel' = sel /\ (modal' = modal \/ modal' = "none") /\ ~here
  BY <1>1, <1>2, WhereItLeads DEF Answer, On, Here, HandlerFits
<1>5. Holds(c, n)
  BY HoldsThen
<1>6. /\ Fetched(new, s)
      /\ On(c) /\ eye.name \in c.h.asks /\ Full(c.at) => new # <<>>
      /\ On(c) /\ eye.name \in panes \cup c.h.clears \cup c.h.follows /\ Full(s) => new # <<>>
  BY <1>1, RefetchedFits
<1>7. /\ ChangesFit' /\ changes'[n] = Idle
      /\ \A k \in Slots : changes'[k] # Idle =>
           /\ k # n /\ changes[k] # Idle /\ changes'[k].stage = changes[k].stage
           /\ changes'[k].h = changes[k].h /\ changes'[k].at = changes[k].at
      /\ \A k \in Slots : k # n /\ changes[k] # Idle => changes'[k] # Idle
  BY <1>2, EndedOn DEF PInv
<1>8. /\ q \in Seq(Entry) /\ Len(q) = Len(queue) /\ Len(queue) \in Nat
      /\ \A i \in 1..Len(queue) :
           /\ q[i].of = queue[i].of /\ q[i].leads = queue[i].leads /\ q[i].astray = queue[i].astray
           /\ q[i].lacks = queue[i].lacks \ {n}
           /\ q[i].behind <=> queue[i].behind \/ (here /\ n \in queue[i].lacks)
           /\ q[i].passed = queue[i].passed \/ (queue[i].passed = "none" /\ q[i].passed = "patch")
           /\ Patches(c) => q[i].passed # "none"
  <2>1. /\ old \in Seq(Entry) /\ Len(old) = Len(queue)
        /\ \A i \in 1..Len(queue) :
             /\ old[i].of = queue[i].of /\ old[i].leads = queue[i].leads
             /\ old[i].passed = queue[i].passed /\ old[i].astray = queue[i].astray
             /\ old[i].lacks = queue[i].lacks \ {n}
             /\ old[i].behind <=> queue[i].behind \/ (here /\ n \in queue[i].lacks)
    BY <1>1, ReportedIs
  <2> HIDE DEF old, here, c
  <2>2. Len(queue) \in Nat
    BY QueueIs DEF PInv
  <2> QED
    BY <2>1, <2>2, PassedIs
<1> HIDE DEF q, old, here, new, s
<1>9. Joins(queue', q, new)
  BY <1>2, <1>6, <1>8, Elements DEF Fetched
<1>10. /\ queue' \in Seq(Entry) /\ Len(queue') = Len(queue) + Len(new)
       /\ \A i \in 1..Len(queue') : \/ \E j \in 1..Len(queue) : queue'[i] = q[j]
                                    \/ \E j \in 1..Len(new) : queue'[i] = new[j]
       /\ new # <<>> => queue' # <<>> /\ queue'[Len(queue')] = new[Len(new)] /\ Len(new) \in 1..Len(new)
       /\ new = <<>> => queue' = q
  BY <1>8, <1>9 DEF Joins
<1>11. Shapes'
  <2>1. \A i \in 1..Len(queue') : /\ Full(queue'[i].of) /\ (queue'[i].leads # "none" => Leads)
                                  /\ queue'[i].leads = "editor" => page = "files"
    <3>1. \A j \in 1..Len(queue) : /\ Full(q[j].of) /\ (q[j].leads # "none" => Leads)
                                   /\ q[j].leads = "editor" => page = "files"
      BY <1>8 DEF PInv, Shapes
    <3>2. \A j \in 1..Len(new) : /\ Full(new[j].of) /\ (new[j].leads # "none" => Leads)
                                 /\ new[j].leads = "editor" => page = "files"
      BY <1>6 DEF Fetched
    <3> QED
      BY <1>10, <3>1, <3>2
  <2>2. copy' \in Copy /\ busy' \in BOOLEAN /\ sel' \in Selections
    BY <1>2, <1>3, <1>5 DEF Holds
  <2> QED
    BY <1>2, <1>10, <2>1, <2>2, SamePage DEF PInv, Shapes
<1>12. PageFits'
  <2>1. CASE On(c)
    BY <1>2, <2>1, SamePage DEF Landing, PageFits, s
  <2>2. CASE ~On(c)
    BY <1>2, <1>4, <2>2, SamePage, NoModal DEF PInv, PageFits
  <2> QED
    BY <2>1, <2>2
<1>13. \A x, k : k \in Slots /\ k # n /\ Misses(x, k) =>
           changes'[k] # Idle /\ changes'[k].stage # "sent" /\ changes'[k].h.writes # {}
           /\ About(changes'[k], x.of)
  BY <1>7 DEF Misses, About
<1>14. /\ \A k \in copy.lacks : k \in Slots /\ Misses(copy, k)
       /\ \A j \in 1..Len(queue) : \A k \in queue[j].lacks : k \in Slots /\ Misses(queue[j], k)
       /\ \A k \in copy.claims : k \in Slots /\ changes[k] # Idle /\ changes[k].stage = "sent"
  BY QueueIs DEF PInv, Shapes, Books, Copy
<1>15. Books'
  <2>1. \A k \in copy'.claims : changes'[k] # Idle /\ changes'[k].stage = "sent"
    <3>1. copy'.claims \subseteq copy.claims /\ n \notin copy.claims
      BY <1>1, <1>5, <1>14 DEF Holds, Empty
    <3> QED
      BY <1>7, <1>14, <3>1
  <2>2. \A k \in copy'.lacks : Misses(copy, k)'
    <3>1. \A k \in copy'.lacks : k \in copy.lacks /\ k # n /\ copy'.of = copy.of
      BY <1>5 DEF Holds, Empty
    <3> QED
      BY <1>2, <1>13, <1>14, <3>1, SamePage DEF Misses
  <2>3. \A i \in 1..Len(queue') : \A k \in queue'[i].lacks :
           k # n /\ \E j \in 1..Len(queue) : queue'[i].of = queue[j].of /\ k \in queue[j].lacks
    <3>1. \A j \in 1..Len(new) : new[j].lacks = {}
      BY <1>6 DEF Fetched
    <3>2. \A j \in 1..Len(queue) : q[j].of = queue[j].of /\ q[j].lacks = queue[j].lacks \ {n}
      BY <1>8
    <3> QED
      BY <1>10, <3>1, <3>2
  <2>4. ASSUME NEW i \in 1..Len(queue'), NEW k \in queue'[i].lacks
        PROVE  Misses(queue[i], k)'
    <3>1. PICK j \in 1..Len(queue) : queue'[i].of = queue[j].of /\ k \in queue[j].lacks
      BY <2>3
    <3>2. k # n /\ k \in Slots /\ Misses(queue[j], k)
      BY <1>14, <2>3, <3>1
    <3> QED
      BY <1>2, <1>13, <3>1, <3>2, SamePage DEF Misses
  <2> QED
    BY <2>1, <2>2, <2>4 DEF Books
<1>16. Claims'
  <2> SUFFICES ASSUME NEW k \in Slots, changes'[k] # Idle /\ changes'[k].h.before # {}
               PROVE  Claimed(k)'
    BY DEF Claims
  <2>1. /\ k # n /\ changes[k] # Idle /\ changes[k].h.before # {} /\ Claimed(k)
        /\ changes'[k].stage = changes[k].stage
    BY <1>7 DEF PInv, Claims
  <2>2. ~(Patches(c) /\ c.h.whole)
    <3>1. ~Wholes
      BY <2>1 DEF PInv, ChangesFit, HandlerFits
    <3> QED
      BY <1>1, <3>1 DEF Patches, HandlerFits
  <2>3. \/ (copy'.of = NoKey \/ copy'.excuse = "late") /\ copy'.lacks = {}
        \/ /\ copy'.of = copy.of /\ copy'.claims = copy.claims /\ copy'.excuse = copy.excuse
           /\ copy'.lacks = copy.lacks \ {n}
    BY <1>5, <2>2 DEF Holds, Empty
  <2>4. changes[k].stage = "sent" => \A i \in 1..Len(new) : new[i].passed # "none"
    BY <1>6, <2>1 DEF Fetched, Anticipated
  <2>5. \A i \in 1..Len(new) : new[i].lacks = {}
    BY <1>6 DEF Fetched
  <2>6. \A j \in 1..Len(queue) : queue[j].passed # "none" => q[j].passed # "none"
    BY <1>8
  <2>7. ASSUME changes'[k].stage = "sent"
        PROVE  /\ \A i \in 1..Len(queue') : queue'[i].passed # "none"
               /\ k \in copy'.claims \/ copy'.of = NoKey \/ copy'.excuse \in {"late", "kept"}
    BY <1>10, <2>1, <2>3, <2>4, <2>6, <2>7 DEF Claimed
  <2>8. \A i \in 1..Len(queue') : k \in queue'[i].lacks => queue'[i].passed # "none"
    <3>1. \A j \in 1..Len(queue) : k \in q[j].lacks => q[j].passed # "none"
      BY <1>8, <2>1, <2>6 DEF Claimed
    <3> QED
      BY <1>10, <2>5, <3>1
  <2>9. k \in copy'.lacks => copy'.excuse \in {"late", "kept"}
    BY <2>1, <2>3 DEF Claimed
  <2> QED
    BY <2>7, <2>8, <2>9 DEF Claimed
\* The newest fetch, when nothing more was fetched.
<1>17. new = <<>> =>
         /\ queue' = q /\ (queue = <<>> <=> queue' = <<>>)
         /\ queue # <<>> => /\ Newest' = q[Len(queue)] /\ Newest = queue[Len(queue)]
                            /\ Len(queue) \in 1..Len(queue)
  <2> SUFFICES ASSUME new = <<>>
               PROVE  /\ queue' = q /\ (queue = <<>> <=> queue' = <<>>)
                      /\ queue # <<>> => /\ Newest' = q[Len(queue)] /\ Newest = queue[Len(queue)]
                                         /\ Len(queue) \in 1..Len(queue)
    OBVIOUS
  <2>1. queue' = q /\ queue \in Seq(Entry)
    BY <1>10 DEF PInv, Shapes
  <2>2. queue = <<>> <=> queue' = <<>>
    BY <1>8, <2>1, EmptySeq
  <2>3. queue # <<>> => Len(queue) \in 1..Len(queue)
    BY <1>8, <2>1, EmptySeq
  <2> QED
    BY <1>8, <2>1, <2>2, <2>3 DEF Newest
<1>18. Overtaken'
  <2>1. CASE new = <<>>
    <3>1. ASSUME queue' # <<>>, Newest'.passed = "answer", NEW i \in 1..Len(queue')
          PROVE  queue'[i].passed = "answer"
      <4>1. queue # <<>> /\ Len(queue) \in 1..Len(queue) /\ i \in 1..Len(queue)
            /\ queue[Len(queue)].passed = "answer"
        BY <1>8, <1>17, <2>1, <3>1
      <4>2. queue[i].passed = "answer"
        BY <1>17, <2>1, <4>1 DEF PInv, Overtaken
      <4> QED
        BY <1>8, <1>17, <2>1, <4>1, <4>2
    <3> QED
      BY <3>1 DEF Overtaken
  <2>2. CASE new # <<>>
    BY <1>6, <1>10, <2>2 DEF Overtaken, Newest, Fetched
  <2> QED
    BY <2>1, <2>2
<1>19. Held' => Fresh'
  <2> SUFFICES ASSUME Kept(TabAfter(c), s, modal')
               PROVE  Fresh'
    BY <1>2, SamePage DEF Held
  <2>1. CASE new # <<>>
    BY <1>2, <1>6, <1>10, <2>1, SamePage DEF Fresh, Newest, Fetched
  <2>2. CASE new = <<>>
    <3>1. On(c) => c.h.clears = {}
      BY <1>6, <2>2 DEF Landing, s
    <3>2. Held /\ Key(s) = Key(sel)
      <4>1. CASE On(c)
        BY <1>6, <2>2, <4>1 DEF Landing, s
      <4>2. CASE ~On(c)
        BY <1>2, <1>4, <4>2, NoModal DEF Held
      <4> QED
        BY <4>1, <4>2
    <3>3. Fresh
      BY <3>2 DEF PInv
    <3>4. \A x : here /\ ~Patches(c) /\ Misses(x, n) => c.h.before # {}
      <4> SUFFICES ASSUME NEW x, here, ~Patches(c), Misses(x, n)
                   PROVE  c.h.before # {}
        OBVIOUS
      <4>1. On(c)
        BY <1>4
      <4>2. Kept(TabAfter(changes[n]), SelAfter(changes[n]), modal')
        BY DEF s
      <4>3. \/ c.h.before # {} \/ Patches(c) \/ c.h.clears # {}
            \/ On(c) /\ eye.name \in c.h.asks /\ Full(c.at)
        BY <4>2, NotMissed DEF here
      <4> QED
        BY <1>6, <2>2, <3>1, <4>1, <4>3
    <3>5. c.h.before # {} => Claimed(n)
      BY DEF PInv, Claims
    <3>6. ASSUME queue' # <<>>, Newest'.passed = "none"
          PROVE  /\ ~Newest'.behind
                 /\ Newest'.astray \/ Newest'.leads # "none" \/ Newest'.of = Key(s)
      <4>1. /\ queue # <<>> /\ Newest.passed = "none" /\ ~Patches(c)
            /\ Newest'.behind <=> Newest.behind \/ (here /\ n \in Newest.lacks)
            /\ Newest'.astray = Newest.astray /\ Newest'.leads = Newest.leads /\ Newest'.of = Newest.of
        BY <1>8, <1>17, <2>2, <3>6
      <4>2. ~(here /\ n \in Newest.lacks)
        <5>1. n \in Newest.lacks => Misses(Newest, n)
          BY <1>14, <1>17, <2>2, <4>1
        <5>2. n \in Newest.lacks => ~Claimed(n)
          BY <1>17, <2>2, <4>1 DEF Claimed
        <5> QED
          BY <3>4, <3>5, <4>1, <5>1, <5>2
      <4> QED
        BY <3>2, <3>3, <4>1, <4>2 DEF Fresh
    <3>7. ASSUME queue' = <<>> \/ Newest'.passed = "answer"
          PROVE  /\ copy'.excuse = "none" => copy'.of \in {NoKey, Key(s)}
                 /\ copy'.excuse \in {"none", "astray"} => ~copy'.behind
      <4>1. queue = <<>> \/ Newest.passed = "answer"
        BY <1>8, <1>17, <2>2, <3>7
      <4>2. /\ copy.excuse = "none" => copy.of \in {NoKey, Key(sel)}
            /\ copy.excuse \in {"none", "astray"} => ~copy.behind
        BY <3>3, <4>1 DEF Fresh
      <4>3. here /\ ~Patches(c) /\ n \in copy.lacks => copy.excuse \in {"late", "kept"}
        BY <1>14, <3>4, <3>5 DEF Claimed
      <4> QED
        BY <1>5, <3>1, <3>2, <4>2, <4>3 DEF Holds, here
    <3> QED
      BY <1>2, <3>6, <3>7, SamePage DEF Fresh
  <2> QED
    BY <2>1, <2>2
<1> QED
  BY <1>2, <1>7, <1>11, <1>12, <1>15, <1>16, <1>18, <1>19, SamePage DEF PInv

-----------------------------------------------------------------------------
(* The handlers of the pages.                                              *)
HandlerFields ==
  {"writes", "goesOn", "asks", "before", "after", "clears", "follows", "orElse", "visits", "minds",
   "whole", "rewrites", "flag", "closes", "opens", "toTab", "toSel"}

(* A handler that stays where it is but for the tab.                       *)
Plain(h) ==
  /\ DOMAIN h = HandlerFields /\ "done" \in h.goesOn
  /\ h.visits = "" /\ h.clears = {} /\ h.toSel = <<"same", "same">>
  /\ h.opens = "none" \/ page \in {"servers", "lists"}
  /\ page = "email" => h.toTab \in {"same", "servers"}
  /\ eye.name \in h.before => ~Wholes
  /\ h.whole /\ eye.name \in h.after => Wholes

(* It patches what it changes, or fetches it again.                        *)
Minding(h) ==
  h.minds /\ eye.name \in h.writes => eye.name \in h.before \cup h.after \cup h.asks

(* What is sent of handler h: what it does to the watched pane.            *)
Trimmed(g, h) ==
  /\ g.writes = h.writes \cap {eye.name} /\ g.asks = h.asks \cap {eye.name}
  /\ g.orElse = h.orElse \cap {eye.name} /\ g.before = h.before \cap {eye.name}
  /\ g.after = h.after \cap {eye.name} /\ g.clears = h.clears \cap {eye.name}
  /\ g.follows = h.follows \cap {eye.name}
  /\ g.goesOn = h.goesOn /\ g.visits = h.visits /\ (g.minds <=> h.minds) /\ (g.whole <=> h.whole)
  /\ g.opens = h.opens /\ g.toTab = h.toTab /\ g.toSel = h.toSel

LEMMA SentIs ==
  ASSUME NEW h, NEW s, DOMAIN h = HandlerFields
  PROVE  Trimmed(Sent(h, s, modal).h, h)
BY DEF Sent, HandlerFields, Trimmed

LEMMA PairParts == \A x, y : <<x, y>>[1] = x /\ <<x, y>>[2] = y
OBVIOUS

LEMMA StaysPut ==
  \A x : x = <<"same", "same">> => x \in Goals /\ x[1] = "same" /\ x[2] = "same"
<1>1. <<"same", "same">> \in Goals
  BY DEF Goals, Places
<1>2. <<"same", "same">>[1] = "same" /\ <<"same", "same">>[2] = "same"
  OBVIOUS
<1> QED
  BY <1>1, <1>2

LEMMA PlainFits ==
  ASSUME NEW h, NEW s, Plain(h), page \in {"lists", "domains", "backups"} => h.toTab = "same",
         page = "tools" => h.toTab \in {"same", "installed"}
  PROVE  HandlerFits(Sent(h, s, modal).h)
<1> DEFINE g == Sent(h, s, modal).h
<1>1. Trimmed(g, h)
  BY SentIs DEF Plain
<1> HIDE DEF g
<1>2. Mine(g.writes) /\ Mine(g.asks) /\ Mine(g.before) /\ Mine(g.after) /\ Mine(g.clears)
      /\ Mine(g.follows) /\ Mine(g.orElse) /\ g.clears = {}
  BY <1>1 DEF Trimmed, Mine, Plain
<1>3. /\ g.visits = "" /\ "done" \in g.goesOn /\ "" \in Places
      /\ g.toSel = <<"same", "same">>
      /\ g.opens = "none" \/ page \in {"servers", "lists"}
      /\ page = "email" => g.toTab \in {"same", "servers"}
  BY <1>1 DEF Trimmed, Plain, Places
<1>4. g.toSel \in Goals /\ g.toSel[1] = "same"
  BY <1>3, StaysPut
<1>5. /\ g.before # {} => ~Wholes
      /\ g.whole /\ g.after # {} => Wholes
  BY <1>1 DEF Trimmed, Plain
<1>6. /\ page \in {"lists", "domains", "backups"} => g.toTab = "same"
      /\ page = "tools" => g.toTab \in {"same", "installed"}
  BY <1>1 DEF Trimmed
<1>7. HandlerFits(g)
  BY <1>2, <1>3, <1>4, <1>5, <1>6 DEF HandlerFits
<1> QED
  BY <1>7 DEF g

LEMMA PlainSendable ==
  ASSUME NEW h, NEW s \in Selections, Plain(h), Minding(h),
         h.minds /\ eye.name \in h.writes \cap h.asks => Full(s),
         page \in {"lists", "domains", "backups", "tools"} => h.toTab = "same"
  PROVE  Sendable(h, s)
<1>1. HandlerFits(Sent(h, s, modal).h)
  BY PlainFits
<1>2. Minds(Sent(h, s, modal).h, s) /\ Sent(h, s, modal).h.before = h.before \cap {eye.name}
  <2> DEFINE g == Sent(h, s, modal).h
  <2>1. Trimmed(g, h)
    BY SentIs DEF Plain
  <2> HIDE DEF g
  <2>2. Minds(g, s) /\ g.before = h.before \cap {eye.name}
    BY <2>1 DEF Trimmed, Minds, Minding
  <2> QED
    BY <2>2 DEF g
<1> QED
  BY <1>1, <1>2 DEF Sendable

-----------------------------------------------------------------------------

Good(h) == Plain(h) /\ Minding(h)

(* The pages whose panes depend on nothing that is selected.               *)
LEMMA FlatKeeps ==
  ASSUME PInv, page \in {"billing", "accounts", "site", "servers"}
  PROVE  /\ sel \in Selections
         /\ \A m : Open(m) => PInv'
         /\ \A t, panes : \A s \in Selections : Look(t, s, panes) => PInv'
         /\ \A h : Good(h) /\ Submit(h) => PInv'
<1>1. sel \in Selections /\ eye.scope = 0
  BY DEF PInv, Shapes, Watched, FlatPages
<1>2. \A t, s, m : Fits(t, s, m) /\ Kept(t, s, m)
  BY DEF Fits, Kept
<1>3. \A s \in Selections : Full(s) /\ Key(s) = Key(sel)
  BY <1>1, NoScope
<1>4. \A m : Open(m) => PInv'
  BY <1>2, OpenKeeps DEF Held
<1>5. \A t, panes : \A s \in Selections : Look(t, s, panes) => PInv'
  BY <1>2, <1>3, LookKeeps DEF Held
<1>6. \A h : Good(h) /\ Submit(h) => PInv'
  BY <1>1, <1>3, PlainSendable, SubmitKeeps DEF Good, Submit
<1> QED
  BY <1>1, <1>4, <1>5, <1>6

LEMMA BillingMoves ==
  /\ \A h, s : Billing!SubmitFor(h, s) => SubmitFor(h, s)
  /\ \A m : Billing!Open(m) => Open(m)
  /\ \A t, s, panes : Billing!Look(t, s, panes) => Look(t, s, panes)
<1>1. \A h, s : Billing!SubmitFor(h, s) => SubmitFor(h, s)
  BY DEF Billing!SubmitFor, SubmitFor, Billing!Unaware, Unaware, Billing!Idle, Idle, Billing!Room,
         Room, Billing!Sent, Sent, Billing!Passed, Passed, Billing!view, view
<1>2. \A m : Billing!Open(m) => Open(m)
  BY DEF Billing!Open, Open, Billing!Acts, Acts, Billing!Room, Room
<1>3. \A t, s, panes : Billing!Look(t, s, panes) => Look(t, s, panes)
  BY DEF Billing!Look, Look, Billing!Ask, Ask, Billing!Asked, Asked, Billing!Leaving, Leaving,
         Billing!Fetch, Fetch, Billing!Key, Key, Billing!Anticipated, Anticipated, Billing!Idle,
         Idle
<1> QED
  BY <1>1, <1>2, <1>3

LEMMA BillingKeeps ==
  ASSUME PInv, page = "billing", Billing!Acting
  PROVE  PInv'
<1>1. /\ \A h : Good(h) /\ Billing!Submit(h) => PInv'
      /\ \A m : Billing!Open(m) => PInv'
      /\ \A t, panes : \A s \in Selections : Billing!Look(t, s, panes) => PInv'
  BY BillingMoves, FlatKeeps DEF Billing!Submit, Submit
<1>2. /\ Good(Billing!handleCancelSubscription) /\ Good(Billing!handleRenewSubscription)
      /\ Good(Billing!handleSaveGateway) /\ Good(Billing!handleToggleGateway)
      /\ Good(Billing!handleSavePlan) /\ Good(Billing!handleDeletePlan)
      /\ Good(Billing!handleStartFreeTrial) /\ Good(Billing!handleSaveTrialSettings)
      /\ Good(Billing!handleConfirmExtendTrial) /\ Good(Billing!handleEndTrial)
      /\ Good(Billing!handleConvertTrial)
  BY DEF Good, Plain, Minding, HandlerFields, Wholes, Billing!Change, Billing!Rewriting,
         Billing!Unchecked, Billing!Optimistic, Billing!Local, Billing!Leading, Billing!loadData,
         Billing!ThenTab, Billing!All, Billing!handleCancelSubscription,
         Billing!handleRenewSubscription, Billing!handleSaveGateway, Billing!handleToggleGateway,
         Billing!handleSavePlan, Billing!handleDeletePlan, Billing!handleStartFreeTrial,
         Billing!handleSaveTrialSettings, Billing!handleConfirmExtendTrial, Billing!handleEndTrial,
         Billing!handleConvertTrial
<1>3. \A h \in Billing!handlePayInvoice : Good(h)
  <2>1. Good(Billing!Change({}, Billing!All)) /\ Good(Billing!Change({}, {}))
    BY DEF Good, Plain, Minding, HandlerFields, Billing!Change
  <2> QED
    BY <2>1 DEF Billing!handlePayInvoice
<1>4. \A h \in Billing!handleConfirmCheckout : Good(h)
  <2>1. \A t : Good(Billing!ThenTab(Billing!loadData({"subscriptions", "invoices"}), t))
    BY DEF Good, Plain, Minding, HandlerFields, Billing!Change, Billing!Rewriting, Billing!Leading,
           Billing!loadData, Billing!ThenTab, Billing!All
  <2> QED
    BY <2>1 DEF Billing!handleConfirmCheckout
<1>5. sel \in Selections
  BY DEF PInv, Shapes
<1> QED
  BY <1>1, <1>2, <1>3, <1>4, <1>5
  DEF Billing!Acting, Billing!Does, Billing!In, Billing!Go, Billing!TabBar, Billing!PlanCard,
      Billing!SubscriptionsEmpty, Billing!SubscriptionActions, Billing!InvoiceRow,
      Billing!GatewayCard, Billing!PlanManager, Billing!TrialPolicy, Billing!TrialTable,
      Billing!CheckoutModal, Billing!GatewayModal, Billing!PlanModal, Billing!ExtendModal

LEMMA AccountsMoves ==
  /\ \A h, s : Accounts!SubmitFor(h, s) => SubmitFor(h, s)
  /\ \A m : Accounts!Open(m) => Open(m)
  /\ \A t, s, panes : Accounts!Look(t, s, panes) => Look(t, s, panes)
<1>1. \A h, s : Accounts!SubmitFor(h, s) => SubmitFor(h, s)
  BY DEF Accounts!SubmitFor, SubmitFor, Accounts!Unaware, Unaware, Accounts!Idle, Idle,
         Accounts!Room, Room, Accounts!Sent, Sent, Accounts!Passed, Passed, Accounts!view, view
<1>2. \A m : Accounts!Open(m) => Open(m)
  BY DEF Accounts!Open, Open, Accounts!Acts, Acts, Accounts!Room, Room
<1>3. \A t, s, panes : Accounts!Look(t, s, panes) => Look(t, s, panes)
  BY DEF Accounts!Look, Look, Accounts!Ask, Ask, Accounts!Asked, Asked, Accounts!Leaving, Leaving,
         Accounts!Fetch, Fetch, Accounts!Key, Key, Accounts!Anticipated, Anticipated, Accounts!Idle,
         Idle
<1> QED
  BY <1>1, <1>2, <1>3

LEMMA AccountsKeeps ==
  ASSUME PInv, page = "accounts", Accounts!Acting
  PROVE  PInv'
<1>1. /\ \A h : Good(h) /\ Accounts!Submit(h) => PInv'
      /\ \A m : Accounts!Open(m) => PInv'
      /\ \A t, panes : \A s \in Selections : Accounts!Look(t, s, panes) => PInv'
  BY AccountsMoves, FlatKeeps DEF Accounts!Submit, Submit
<1>2. /\ Good(Accounts!handleCreateAccount) /\ Good(Accounts!handleConfirmSuspend)
      /\ Good(Accounts!handleUnsuspend) /\ Good(Accounts!handleSaveLimits)
      /\ Good(Accounts!handleSyncQuota) /\ Good(Accounts!handleSaveDetails)
      /\ Good(Accounts!handleConfirmMigrate) /\ Good(Accounts!handleConfirmTerminate)
      /\ Good(Accounts!handleRestoreAccount)
      /\ \A h \in Accounts!handleConfirmResetPassword : Good(h)
  BY DEF Good, Plain, Minding, HandlerFields, Wholes, Accounts!Change, Accounts!Flagged,
         Accounts!Staying, Accounts!loadData, Accounts!All, Accounts!handleCreateAccount,
         Accounts!handleConfirmSuspend, Accounts!handleUnsuspend, Accounts!handleSaveLimits,
         Accounts!handleSyncQuota, Accounts!handleSaveDetails, Accounts!handleConfirmMigrate,
         Accounts!handleConfirmTerminate, Accounts!handleRestoreAccount,
         Accounts!handleConfirmResetPassword
<1>3. sel \in Selections
  BY DEF PInv, Shapes
<1>4. sel[2] = "" => <<sel[1], "chosen">> \in Selections
  BY <1>3 DEF Selections, Places
<1> QED
  BY <1>1, <1>2, <1>3, <1>4
  DEF Accounts!Acting, Accounts!Does, Accounts!In, Accounts!TabBar, Accounts!Toolbar,
      Accounts!AccountRow, Accounts!CreateModal, Accounts!SuspendModal, Accounts!LimitsModal,
      Accounts!ResetModal, Accounts!DetailsModal, Accounts!MigrateModal, Accounts!TerminateModal,
      Accounts!chooseDefaults

LEMMA SiteMoves ==
  /\ \A h, s : Site!SubmitFor(h, s) => SubmitFor(h, s)
  /\ \A m : Site!Open(m) => Open(m)
  /\ \A t, s, panes : Site!Look(t, s, panes) => Look(t, s, panes)
<1>1. \A h, s : Site!SubmitFor(h, s) => SubmitFor(h, s)
  BY DEF Site!SubmitFor, SubmitFor, Site!Unaware, Unaware, Site!Idle, Idle, Site!Room, Room,
         Site!Sent, Sent, Site!Passed, Passed, Site!view, view
<1>2. \A m : Site!Open(m) => Open(m)
  BY DEF Site!Open, Open, Site!Acts, Acts, Site!Room, Room
<1>3. \A t, s, panes : Site!Look(t, s, panes) => Look(t, s, panes)
  BY DEF Site!Look, Look, Site!Ask, Ask, Site!Asked, Asked, Site!Leaving, Leaving, Site!Fetch,
         Fetch, Site!Key, Key, Site!Anticipated, Anticipated, Site!Idle, Idle
<1> QED
  BY <1>1, <1>2, <1>3

LEMMA SiteKeeps ==
  ASSUME PInv, page = "site", Site!Acting
  PROVE  PInv'
<1>1. /\ \A h : Good(h) /\ Site!Submit(h) => PInv'
      /\ \A m : Site!Open(m) => PInv'
      /\ \A t, panes : \A s \in Selections : Site!Look(t, s, panes) => PInv'
  BY SiteMoves, FlatKeeps DEF Site!Submit, Submit
<1>2. /\ Good(Site!handleSaveVhost) /\ Good(Site!handleSaveDirectorySettings)
      /\ Good(Site!handleSaveRewriteRules) /\ Good(Site!handleSaveDefaultDocs)
      /\ Good(Site!handleSaveAccessLimits) /\ Good(Site!handleSaveHotlink)
      /\ Good(Site!handleApplyLetsEncrypt) /\ Good(Site!handleDeployCustomCert)
      /\ Good(Site!handleSwitchPhp) /\ Good(Site!handleSaveWebServerSettings)
      /\ Good(Site!handleToggleMaintenanceMode)
  BY DEF Good, Plain, Minding, HandlerFields, Wholes, Site!Change, Site!Flagged, Site!Local,
         Site!Unchecked, Site!Patching, Site!saveConf, Site!saveWaf, Site!handleSaveVhost,
         Site!handleSaveDirectorySettings, Site!handleSaveRewriteRules, Site!handleSaveDefaultDocs,
         Site!handleSaveAccessLimits, Site!handleSaveHotlink, Site!handleApplyLetsEncrypt,
         Site!handleDeployCustomCert, Site!handleSwitchPhp, Site!handleSaveWebServerSettings,
         Site!handleToggleMaintenanceMode
<1>3. sel \in Selections
  BY DEF PInv, Shapes
<1> QED
  BY <1>1, <1>2, <1>3
  DEF Site!Acting, Site!Does, Site!Sidebar, Site!DirectoryTab, Site!LimitTab, Site!RewriteTab,
      Site!DefaultDocTab, Site!ConfigTab, Site!SslTab, Site!PhpTab, Site!WebServerTab,
      Site!HotlinkTab, Site!MaintenanceTab, Site!LogsTab, Site!poll

LEMMA ServersMoves ==
  /\ \A h, s : ServersP!SubmitFor(h, s) => SubmitFor(h, s)
  /\ \A m : ServersP!Open(m) => Open(m)
  /\ \A t, s, panes : ServersP!Look(t, s, panes) => Look(t, s, panes)
<1>1. \A h, s : ServersP!SubmitFor(h, s) => SubmitFor(h, s)
  BY DEF ServersP!SubmitFor, SubmitFor, ServersP!Unaware, Unaware, ServersP!Idle, Idle,
         ServersP!Room, Room, ServersP!Sent, Sent, ServersP!Passed, Passed, ServersP!view, view
<1>2. \A m : ServersP!Open(m) => Open(m)
  BY DEF ServersP!Open, Open, ServersP!Acts, Acts, ServersP!Room, Room
<1>3. \A t, s, panes : ServersP!Look(t, s, panes) => Look(t, s, panes)
  BY DEF ServersP!Look, Look, ServersP!Ask, Ask, ServersP!Asked, Asked, ServersP!Leaving, Leaving,
         ServersP!Fetch, Fetch, ServersP!Key, Key, ServersP!Anticipated, Anticipated, ServersP!Idle,
         Idle
<1> QED
  BY <1>1, <1>2, <1>3

LEMMA ServersKeeps ==
  ASSUME PInv, page = "servers", ServersP!Acting
  PROVE  PInv'
<1>1. /\ \A h : Good(h) /\ ServersP!Submit(h) => PInv'
      /\ \A m : ServersP!Open(m) => PInv'
      /\ \A t, panes : \A s \in Selections : ServersP!Look(t, s, panes) => PInv'
  BY ServersMoves, FlatKeeps DEF ServersP!Submit, Submit
<1>2. /\ Good(ServersP!handleToggleMaintenance) /\ Good(ServersP!handleExecuteDrain)
      /\ Good(ServersP!handleRotateKey) /\ Good(ServersP!handleDeleteServer)
      /\ Good(ServersP!handleRunPreflight) /\ Good(ServersP!handleStartMigration)
      /\ Good(ServersP!handleCutover) /\ Good(ServersP!handleRollback)
      /\ Good(ServersP!handleGenerateEnrollment)
  BY DEF Good, Plain, Minding, HandlerFields, Wholes, ServersP!Change, ServersP!Flagged,
         ServersP!Staying, ServersP!Leading, ServersP!Opening, ServersP!fetchFleetData,
         ServersP!All, ServersP!handleToggleMaintenance, ServersP!handleExecuteDrain,
         ServersP!handleRotateKey, ServersP!handleDeleteServer, ServersP!handleRunPreflight,
         ServersP!handleStartMigration, ServersP!handleCutover, ServersP!handleRollback,
         ServersP!handleGenerateEnrollment
<1>3. sel \in Selections
  BY DEF PInv, Shapes
<1>4. ASSUME ServersP!EnrollModal
      PROVE  PInv'
  <2>1. CASE ServersP!In("enroll", ServersP!handleGenerateEnrollment)
    BY <1>1, <1>2, <2>1 DEF ServersP!In
  <2>2. CASE /\ modal' = "none" /\ queue' = queue \o ServersP!Asked(ServersP!All, sel, FALSE)
             /\ busy' = (busy \/ ServersP!Asked(ServersP!All, sel, FALSE) # <<>>)
             /\ UNCHANGED <<page, eye, tab, sel, copy, changes>>
    <3>1. ServersP!Asked(ServersP!All, sel, FALSE) = Asked(ServersP!All, sel, FALSE)
      BY DEF ServersP!Asked, Asked, ServersP!Fetch, Fetch, ServersP!Key, Key, ServersP!Anticipated,
             Anticipated
    <3> DEFINE new == Asked(ServersP!All, sel, FALSE)
    <3>2. Moves(tab, sel, "none", FALSE, new)
      BY <2>2, <3>1, NoneUnaware DEF Moves, PInv
    <3>3. Fetched(new, sel)
      BY <1>3, AskedFits DEF PInv
    <3>4. Fits(tab, sel, "none") /\ Held
      BY DEF Fits, Held, Kept
    <3> HIDE DEF new
    <3>5. SeenTo(tab, sel, "none", FALSE, new)
      BY <1>3, <3>3, <3>4 DEF SeenTo
    <3> QED
      BY <3>2, <3>5, MoveKeeps
  <2> QED
    BY <1>4, <2>1, <2>2 DEF ServersP!EnrollModal
<1> QED
  BY <1>1, <1>2, <1>3, <1>4
  DEF ServersP!Acting, ServersP!Does, ServersP!In, ServersP!Header, ServersP!TabBar,
      ServersP!NodeCards, ServersP!MigrationCards, ServersP!MigrationModal, ServersP!DrainModal,
      ServersP!DeleteModal

LEMMA ListsMoves ==
  /\ \A h, s : Lists!SubmitFor(h, s) => SubmitFor(h, s)
  /\ \A m : Lists!Open(m) => Open(m)
  /\ \A t, s, panes : Lists!Look(t, s, panes) => Look(t, s, panes)
<1>1. \A h, s : Lists!SubmitFor(h, s) => SubmitFor(h, s)
  BY DEF Lists!SubmitFor, SubmitFor, Lists!Unaware, Unaware, Lists!Idle, Idle, Lists!Room, Room,
         Lists!Sent, Sent, Lists!Passed, Passed, Lists!view, view
<1>2. \A m : Lists!Open(m) => Open(m)
  BY DEF Lists!Open, Open, Lists!Acts, Acts, Lists!Room, Room
<1>3. \A t, s, panes : Lists!Look(t, s, panes) => Look(t, s, panes)
  BY DEF Lists!Look, Look, Lists!Ask, Ask, Lists!Asked, Asked, Lists!Leaving, Leaving, Lists!Fetch,
         Fetch, Lists!Key, Key, Lists!Anticipated, Anticipated, Lists!Idle, Idle
<1> QED
  BY <1>1, <1>2, <1>3

LEMMA ListsKeeps ==
  ASSUME PInv, page = "lists", Lists!Acting
  PROVE  PInv'
<1>1. sel \in Selections /\ eye.scope = 0 /\ eye.name \in Lists!Lists(tab)
  BY DEF PInv, Shapes, Watched, FlatPages, PageFits, Fits
<1>2. \A t, s, m : Kept(t, s, m) /\ (Fits(t, s, m) <=> eye.name \in Lists!Lists(t))
  BY DEF Fits, Kept
<1>3. \A s \in Selections : Full(s) /\ Key(s) = Key(sel)
  BY <1>1, NoScope
<1>4. \A m : Lists!Open(m) => PInv'
  BY <1>1, <1>2, OpenKeeps, ListsMoves DEF Held
<1>5. \A t, panes : eye.name \in Lists!Lists(t) /\ Lists!Look(t, sel, panes) => PInv'
  BY <1>1, <1>2, <1>3, LookKeeps, ListsMoves DEF Held
<1>6. \A h : Good(h) /\ h.toTab = "same" /\ Lists!Submit(h) => PInv'
  BY <1>1, <1>3, PlainSendable, SubmitKeeps, ListsMoves DEF Good, Lists!Submit
<1> DEFINE Fine(h) == Good(h) /\ h.toTab = "same"
<1>7. /\ Fine(Lists!handleVerifyManualChallenge) /\ Fine(Lists!handleCustomImport)
      /\ Fine(Lists!handleRenew) /\ Fine(Lists!handleAutoRenewScan)
      /\ Fine(Lists!handleDeleteCert)
  BY <1>1 DEF Good, Plain, Minding, HandlerFields, Wholes, Lists!Change, Lists!Flagged,
     Lists!Staying, Lists!Local, Lists!Opening, Lists!Reloading, Lists!handleVerifyManualChallenge,
     Lists!handleCustomImport, Lists!handleRenew, Lists!handleAutoRenewScan, Lists!handleDeleteCert
<1>8. /\ Fine(Lists!handleSavePlan) /\ Fine(Lists!handleSaveRole) /\ Fine(Lists!handleSaveEmail)
      /\ Fine(Lists!handleSavePassword) /\ Fine(Lists!handleSaveOverrides)
      /\ Fine(Lists!handleClearOverrides) /\ Fine(Lists!handleToggleStatus)
      /\ Fine(Lists!handleImpersonate)
  BY <1>1 DEF Good, Plain, Minding, HandlerFields, Wholes, Lists!Change, Lists!Flagged,
     Lists!Staying, Lists!Local, Lists!Opening, Lists!Reloading, Lists!handleSavePlan,
     Lists!handleSaveRole, Lists!handleSaveEmail, Lists!handleSavePassword,
     Lists!handleSaveOverrides, Lists!handleClearOverrides, Lists!handleToggleStatus,
     Lists!handleImpersonate
<1>9. /\ Fine(Lists!handleToggleFirewall) /\ Fine(Lists!handleAddRule)
      /\ Fine(Lists!handleDeleteRule) /\ Fine(Lists!handleBanIP) /\ Fine(Lists!handleUnbanIP)
  BY <1>1 DEF Good, Plain, Minding, HandlerFields, Wholes, Lists!Change, Lists!Flagged,
     Lists!Staying, Lists!Local, Lists!Opening, Lists!Reloading, Lists!handleToggleFirewall,
     Lists!handleAddRule, Lists!handleDeleteRule, Lists!handleBanIP, Lists!handleUnbanIP
<1>10. /\ Fine(Lists!handleCreateUser) /\ Fine(Lists!handleChangePassword)
       /\ Fine(Lists!handleUpdateUser) /\ Fine(Lists!handleToggleUser)
       /\ Fine(Lists!handleDeleteUser)
  BY <1>1 DEF Good, Plain, Minding, HandlerFields, Wholes, Lists!Change, Lists!Flagged,
     Lists!Staying, Lists!Local, Lists!Opening, Lists!Reloading, Lists!handleCreateUser,
     Lists!handleChangePassword, Lists!handleUpdateUser, Lists!handleToggleUser,
     Lists!handleDeleteUser
<1>11. /\ Fine(Lists!handleSubmitJob) /\ Fine(Lists!handleToggleJob)
       /\ Fine(Lists!handleDeleteJob) /\ Fine(Lists!handleRunNow)
  BY <1>1 DEF Good, Plain, Minding, HandlerFields, Wholes, Lists!Change, Lists!Flagged,
     Lists!Staying, Lists!Local, Lists!Opening, Lists!Reloading, Lists!handleSubmitJob,
     Lists!handleToggleJob, Lists!handleDeleteJob, Lists!handleRunNow
<1>12. /\ Fine(Lists!handleTestConnection) /\ Fine(Lists!handleReconciliation)
       /\ Fine(Lists!handleSavePrice) /\ Fine(Lists!handleRetryOrder)
  BY <1>1 DEF Good, Plain, Minding, HandlerFields, Wholes, Lists!Change, Lists!Flagged,
     Lists!Staying, Lists!Local, Lists!Opening, Lists!Reloading, Lists!handleTestConnection,
     Lists!handleReconciliation, Lists!handleSavePrice, Lists!handleRetryOrder
<1>13. \A h \in Lists!handleIssueSubmit : Fine(h)
  <2>1. /\ Fine(Lists!Flagged(Lists!Reloading({"certificates"}), "issuing"))
        /\ Fine(Lists!Staying(Lists!Flagged(Lists!Change({}, {}), "issuing")))
    BY <1>1 DEF Good, Plain, Minding, HandlerFields, Wholes, Lists!Change, Lists!Flagged,
       Lists!Staying, Lists!Reloading
  <2> QED
    BY <2>1 DEF Lists!handleIssueSubmit
<1> HIDE DEF Fine
<1>14. \A h : Fine(h) /\ Lists!Submit(h) => PInv'
  BY <1>6 DEF Fine
<1>15. CASE Lists!Certificates
  BY <1>4, <1>7, <1>13, <1>14, <1>15
  DEF Lists!Certificates, Lists!Does, Lists!In, Lists!CertHeader, Lists!CertTable, Lists!IssueModal,
      Lists!CustomModal, Lists!DeleteModal
<1>16. CASE Lists!Users
  BY <1>1, <1>4, <1>5, <1>8, <1>14, <1>16
  DEF Lists!Users, Lists!Does, Lists!In, Lists!Refresh, Lists!UserTable, Lists!PlanModal,
      Lists!OverrideModal, Lists!RoleModal, Lists!EmailModal, Lists!PasswordModal
<1>17. CASE Lists!FirewallPage
  <2>1. \A t : tab \in Lists!FirewallTabs /\ t \in Lists!FirewallTabs => Lists!Lists(t) = Lists!Lists(tab)
    BY DEF Lists!Lists, Lists!FirewallTabs
  <2>2. \A t : tab \in Lists!FirewallTabs /\ t \in Lists!FirewallTabs => eye.name \in Lists!Lists(t)
    BY <1>1, <2>1
  <2> QED
    BY <1>1, <1>4, <1>5, <1>9, <1>14, <1>17, <2>2
    DEF Lists!FirewallPage, Lists!Does, Lists!In, Lists!Refresh, Lists!FirewallHeader,
        Lists!FirewallTabBar, Lists!RulesTable, Lists!BannedTable, Lists!RuleModal, Lists!BanModal
<1>18. CASE Lists!FtpPage
  BY <1>1, <1>4, <1>5, <1>10, <1>14, <1>18
  DEF Lists!FtpPage, Lists!Does, Lists!In, Lists!Refresh, Lists!AccountTable, Lists!AddModal,
      Lists!FtpPasswordModal, Lists!EditModal
<1>19. CASE Lists!CronPage
  BY <1>1, <1>4, <1>5, <1>11, <1>14, <1>19
  DEF Lists!CronPage, Lists!Does, Lists!In, Lists!Refresh, Lists!JobTable, Lists!JobModal
<1>20. CASE Lists!RegistryPage
  <2>1. \A t : tab \in Lists!RegistryTabs /\ t \in Lists!RegistryTabs => Lists!Lists(t) = Lists!Lists(tab)
    BY DEF Lists!Lists, Lists!FirewallTabs, Lists!RegistryTabs
  <2>2. \A t : tab \in Lists!RegistryTabs /\ t \in Lists!RegistryTabs => eye.name \in Lists!Lists(t)
    BY <1>1, <2>1
  <2> QED
    BY <1>1, <1>4, <1>5, <1>12, <1>14, <1>20, <2>2
    DEF Lists!RegistryPage, Lists!Does, Lists!In, Lists!RegistryHeader, Lists!RegistryTabBar,
        Lists!PriceTable, Lists!OrderTable, Lists!PriceModal
<1> QED
  BY <1>15, <1>16, <1>17, <1>18, <1>19, <1>20 DEF Lists!Acting

LEMMA ToolsMoves ==
  /\ \A h, s : Tools!SubmitFor(h, s) => SubmitFor(h, s)
  /\ \A m : Tools!Open(m) => Open(m)
  /\ \A t, s, panes : Tools!Look(t, s, panes) => Look(t, s, panes)
<1>1. \A h, s : Tools!SubmitFor(h, s) => SubmitFor(h, s)
  BY DEF Tools!SubmitFor, SubmitFor, Tools!Unaware, Unaware, Tools!Idle, Idle, Tools!Room, Room,
         Tools!Sent, Sent, Tools!Passed, Passed, Tools!view, view
<1>2. \A m : Tools!Open(m) => Open(m)
  BY DEF Tools!Open, Open, Tools!Acts, Acts, Tools!Room, Room
<1>3. \A t, s, panes : Tools!Look(t, s, panes) => Look(t, s, panes)
  BY DEF Tools!Look, Look, Tools!Ask, Ask, Tools!Asked, Asked, Tools!Leaving, Leaving, Tools!Fetch,
         Fetch, Tools!Key, Key, Tools!Anticipated, Anticipated, Tools!Idle, Idle
<1> QED
  BY <1>1, <1>2, <1>3

LEMMA ToolsKeeps ==
  ASSUME PInv, page = "tools", Tools!Acting
  PROVE  PInv'
<1>1. sel \in Selections /\ eye.scope = 0
  BY DEF PInv, Shapes, Watched, FlatPages
<1>2. \A t, s, m : Fits(t, s, m) /\ (Kept(t, s, m) <=> (eye.name \in WordPressPanes => t # "installed"))
  BY DEF Fits, Kept
<1>3. \A s \in Selections : Full(s) /\ Key(s) = Key(sel)
  BY <1>1, NoScope
<1>4. \A m : Tools!Open(m) => PInv'
  BY <1>2, OpenKeeps, ToolsMoves DEF Held
<1>5. \A t, panes : (eye.name \in panes \/ tab # "installed" \/ t = tab \/ eye.name \notin WordPressPanes)
                   /\ Tools!Look(t, sel, panes) => PInv'
  BY <1>1, <1>2, <1>3, LookKeeps, ToolsMoves DEF Held
<1>6. \A h : Good(h) /\ h.toTab = "same" /\ Tools!Submit(h) => PInv'
  BY <1>1, <1>3, PlainSendable, SubmitKeeps, ToolsMoves DEF Good, Tools!Submit
<1> DEFINE Fine(h) == Good(h) /\ h.toTab = "same"
<1>7. /\ Fine(Tools!handleToggleMaintenance) /\ Fine(Tools!handleToggleDebug)
      /\ Fine(Tools!handleFlushCache) /\ Fine(Tools!handleOptimizeDB)
      /\ Fine(Tools!handleUpdateCore) /\ Fine(Tools!handleResetPassword)
  BY DEF Good, Plain, Minding, HandlerFields, Wholes, Tools!Change, Tools!Rewriting, Tools!Flagged,
         Tools!Local, Tools!loadAllData, Tools!Optimistic, Tools!Following, Tools!Patching,
         Tools!WordPress, Tools!Git, Tools!Cache, Tools!App, Tools!handleToggleMaintenance,
         Tools!handleToggleDebug, Tools!handleFlushCache, Tools!handleOptimizeDB,
         Tools!handleUpdateCore, Tools!handleResetPassword
<1>8. /\ Fine(Tools!handleTogglePlugin) /\ Fine(Tools!handleInstallPlugin)
      /\ Fine(Tools!handleDeletePlugin) /\ Fine(Tools!handleActivateTheme)
      /\ Fine(Tools!handleCreateStaging) /\ Fine(Tools!handleDeleteStaging)
  BY DEF Good, Plain, Minding, HandlerFields, Wholes, Tools!Change, Tools!Rewriting, Tools!Flagged,
         Tools!Local, Tools!loadAllData, Tools!Optimistic, Tools!Following, Tools!Patching,
         Tools!WordPress, Tools!Git, Tools!Cache, Tools!App, Tools!handleTogglePlugin,
         Tools!handleInstallPlugin, Tools!handleDeletePlugin, Tools!handleActivateTheme,
         Tools!handleCreateStaging, Tools!handleDeleteStaging
<1>9. /\ Fine(Tools!handleSaveRepo) /\ Fine(Tools!handleTriggerDeploy)
      /\ Fine(Tools!handleRollback) /\ Fine(Tools!handleDeleteRepo)
  BY DEF Good, Plain, Minding, HandlerFields, Wholes, Tools!Change, Tools!Rewriting, Tools!Flagged,
         Tools!Local, Tools!loadAllData, Tools!Optimistic, Tools!Following, Tools!Patching,
         Tools!WordPress, Tools!Git, Tools!Cache, Tools!App, Tools!handleSaveRepo,
         Tools!handleTriggerDeploy, Tools!handleRollback, Tools!handleDeleteRepo
<1>10. /\ Fine(Tools!handleSaveConfig) /\ Fine(Tools!handleDisableCache)
       /\ Fine(Tools!handleFlush) /\ Fine(Tools!handleBenchmark) /\ Fine(Tools!handleToggleWP)
  BY DEF Good, Plain, Minding, HandlerFields, Wholes, Tools!Change, Tools!Rewriting, Tools!Flagged,
         Tools!Local, Tools!loadAllData, Tools!Optimistic, Tools!Following, Tools!Patching,
         Tools!WordPress, Tools!Git, Tools!Cache, Tools!App, Tools!handleSaveConfig,
         Tools!handleDisableCache, Tools!handleFlush, Tools!handleBenchmark, Tools!handleToggleWP
<1>11. Fine(Tools!handleSaveApp) /\ Fine(Tools!handleControl) /\ Fine(Tools!handleDeleteApp)
  BY DEF Good, Plain, Minding, HandlerFields, Wholes, Tools!Change, Tools!Rewriting, Tools!Flagged,
         Tools!Local, Tools!loadAllData, Tools!Optimistic, Tools!Following, Tools!Patching,
         Tools!WordPress, Tools!Git, Tools!Cache, Tools!App, Tools!handleSaveApp,
         Tools!handleControl, Tools!handleDeleteApp
<1>12. Fine(Tools!handlePushToLive)
  <2>1. Fine(Tools!Flagged(Tools!Change({"staging"}, {"staging"}), "push"))
    BY DEF Good, Plain, Minding, HandlerFields, Tools!Change, Tools!Rewriting, Tools!Flagged
  <2>2. \A w : Fine(Tools!Flagged(Tools!Forgetting(Tools!Change(w, {})), "push"))
    BY DEF Good, Plain, Minding, HandlerFields, Tools!Change, Tools!Rewriting, Tools!Flagged,
           Tools!Forgetting
  <2> QED
    BY <2>1, <2>2 DEF Tools!handlePushToLive
<1> HIDE DEF Fine
<1>13. \A h : Fine(h) /\ Tools!Submit(h) => PInv'
  BY <1>6 DEF Fine
<1>14. Tools!Submit(Tools!handleInstallWordPress) => PInv'
  <2> DEFINE h == Tools!handleInstallWordPress
             g == Sent(h, sel, modal).h
  <2>1. /\ Plain(h) /\ h.toTab = "installed" /\ h.writes = Tools!WordPress \ {"popular"}
        /\ h.toSel = <<"same", "same">>
    BY DEF Plain, HandlerFields, Tools!Change, Tools!Rewriting, Tools!Flagged, Tools!Leading,
           Tools!handleInstallWordPress
  <2> HIDE DEF h
  <2>2. Trimmed(g, h)
    BY <2>1, SentIs DEF Plain
  <2>3. HandlerFits(g)
    BY <2>1, PlainFits
  <2> HIDE DEF g
  <2>4. Minds(g, sel)
    <3>1. g.writes # {} => eye.name \in WordPressPanes
      BY <2>1, <2>2 DEF Trimmed, Tools!WordPress, WordPressPanes
    <3>2. WithoutModal /\ TabOn(g) = "installed"
      BY <2>1, <2>2 DEF Trimmed, WithoutModal, TabOn, Led
    <3> QED
      BY <1>2, <3>1, <3>2 DEF Minds
  <2>5. Sendable(h, sel)
    BY <1>1, <2>2, <2>3, <2>4 DEF Trimmed, Sendable, g
  <2> QED
    BY <2>5, SubmitKeeps, ToolsMoves DEF Tools!Submit, h
<1>15. CASE Tools!Installer
  BY <1>14, <1>15 DEF Tools!Installer, Tools!Does
<1>16. CASE Tools!Installed \/ Tools!Header \/ Tools!poll
  <2>1. Tools!Installed => PInv'
    BY <1>5 DEF Tools!Installed, Tools!WordPress, WordPressPanes
  <2>2. Tools!Header => PInv'
    BY <1>5 DEF Tools!Header, Tools!WordPressShown, Tools!SubTabs
  <2>3. Tools!poll => PInv'
    BY <1>5 DEF Tools!poll
  <2> QED
    BY <1>16, <2>1, <2>2, <2>3
<1>17. CASE Tools!Overview \/ Tools!Plugins \/ Tools!Themes \/ Tools!Security \/ Tools!Staging \/ Tools!StagingModal
  BY <1>4, <1>7, <1>8, <1>12, <1>13, <1>17
  DEF Tools!Overview, Tools!Plugins, Tools!Themes, Tools!Security, Tools!Staging, Tools!StagingModal,
      Tools!Does, Tools!In
<1>18. CASE Tools!GitTab
  BY <1>5, <1>9, <1>13, <1>18 DEF Tools!GitTab, Tools!GitHeader, Tools!GitForm, Tools!Deployments,
     Tools!Does
<1>19. CASE Tools!CachingTab
  BY <1>5, <1>10, <1>13, <1>19 DEF Tools!CachingTab, Tools!Telemetry, Tools!ObjectCache,
     Tools!CacheForm, Tools!Does
<1>20. CASE Tools!RuntimeTab
  BY <1>11, <1>13, <1>20 DEF Tools!RuntimeTab, Tools!AppHeader, Tools!AppForm, Tools!Does
<1> QED
  BY <1>15, <1>16, <1>17, <1>18, <1>19, <1>20 DEF Tools!Acting

(* A handler that may lead to another selection, and patches nothing.      *)
Roaming(h) ==
  /\ DOMAIN h = HandlerFields /\ "done" \in h.goesOn
  /\ h.visits = "" /\ h.clears = {} /\ h.opens = "none" /\ h.before = {} /\ h.after = {}
  /\ h.toSel \in Goals

(* It stays, and fetches the panes it changes that are kept.               *)
Stays(h) ==
  /\ Roaming(h) /\ h.toTab = "same" /\ h.toSel = <<"same", "same">>
  /\ eye.name \in h.writes /\ KeptByConsole(tab, sel) => eye.name \in h.asks

LEMMA RoamingSendable ==
  ASSUME page = "console", sel \in Selections, NEW h, Roaming(h),
         eye.name \in h.writes =>
           (eye.name \in h.asks /\ Full(sel)) \/ ~KeptByConsole(TabOn(h), SelOn(h))
  PROVE  Sendable(h, sel)
<1> DEFINE g == Sent(h, sel, modal).h
<1>1. Trimmed(g, h)
  BY SentIs DEF Roaming
<1> HIDE DEF g
<1>2. HandlerFits(g)
  <2>1. Mine(g.writes) /\ Mine(g.asks) /\ Mine(g.before) /\ Mine(g.after) /\ Mine(g.clears)
        /\ Mine(g.follows) /\ Mine(g.orElse) /\ g.clears = {} /\ g.before = {} /\ g.after = {}
    BY <1>1 DEF Trimmed, Mine, Roaming
  <2>2. g.visits = "" /\ "done" \in g.goesOn /\ "" \in Places /\ g.opens = "none" /\ g.toSel \in Goals
    BY <1>1 DEF Trimmed, Roaming, Places
  <2> QED
    BY <2>1, <2>2 DEF HandlerFits
<1>3. TabOn(g) = TabOn(h) /\ SelOn(g) = SelOn(h)
  BY <1>1 DEF Trimmed, TabOn, SelOn
<1>4. \A t, s : Kept(t, s, "none") <=> KeptByConsole(t, s)
  BY DEF Kept
<1>5. Minds(g, sel)
  BY <1>1, <1>3, <1>4 DEF Trimmed, Minds, WithoutModal
<1> QED
  BY <1>1, <1>2, <1>5 DEF Sendable, Trimmed, g

(* A pane of the console that is kept has what it is fetched for.          *)
LEMMA ConsoleScopes ==
  ASSUME page = "console", Watched
  PROVE  /\ eye.scope \in 0..2
         /\ eye.name \in {"tree", "privileges"} => eye.scope = 0
         /\ eye.name \in {"details", "aux"} => eye.scope = 1
         /\ eye.name \in {"structure", "browse"} => eye.scope = 2
         /\ eye.name \in {"tree", "details", "structure", "browse", "aux", "privileges"}
BY DEF Watched, Console!Panes, Console!Pane

LEMMA ConsoleFull ==
  ASSUME page = "console", Watched, NEW t, NEW s \in Selections, KeptByConsole(t, s)
  PROVE  Full(s)
<1>1. \A i \in 1..eye.scope : i = 1 \/ (i = 2 /\ eye.scope = 2)
  BY ConsoleScopes
<1>2. eye.scope = 2 => eye.name \in {"structure", "browse"}
  BY ConsoleScopes
<1>3. s[1] # "" /\ (eye.name \in {"structure", "browse"} => s[2] # "")
  BY DEF KeptByConsole
<1> QED
  BY <1>1, <1>2, <1>3 DEF Full

(* The effects fetch what is kept, or it is what was on screen before.     *)
LEMMA ConsoleLands ==
  ASSUME page = "console", Watched, sel \in Selections, NEW t, NEW s \in Selections, KeptByConsole(t, s)
  PROVE  \/ eye.name \in Console!Effects(t, s) /\ Full(s)
         \/ KeptByConsole(tab, sel) /\ Key(s) = Key(sel)
<1>1. Full(s)
  BY ConsoleFull
<1>2. s = <<s[1], s[2]>> /\ sel = <<sel[1], sel[2]>>
  BY SelectionParts
<1>3. s[1] = sel[1] /\ eye.scope \in {0, 1} => Key(s) = Key(sel)
  BY SameKey
<1>4. eye.scope = 0 => Key(s) = Key(sel)
  BY SameKey
<1>5. CASE eye.name = "tree"
  <2>1. s[1] # sel[1] => eye.name \in Console!Effects(t, s)
    BY <1>5 DEF Console!Effects, Console!TreeEffect
  <2>2. s[1] = sel[1] => KeptByConsole(tab, sel)
    BY <1>5 DEF KeptByConsole
  <2> QED
    BY <1>1, <1>4, <1>5, <2>1, <2>2, ConsoleScopes
<1>6. CASE eye.name = "details"
  <2>1. s[1] # sel[1] => eye.name \in Console!Effects(t, s)
    BY <1>6 DEF KeptByConsole, Console!Effects, Console!DbEffect
  <2>2. s[1] = sel[1] => KeptByConsole(tab, sel)
    BY <1>6 DEF KeptByConsole
  <2> QED
    BY <1>1, <1>3, <1>6, <2>1, <2>2, ConsoleScopes
<1>7. CASE eye.name \in {"aux", "privileges"}
  BY <1>1, <1>3, <1>4, <1>7, ConsoleScopes DEF KeptByConsole, Console!Effects, Console!DbEffect
<1>8. CASE eye.name \in {"structure", "browse"}
  BY <1>1, <1>8 DEF KeptByConsole, Console!Effects, Console!TableEffect
<1> QED
  BY <1>5, <1>6, <1>7, <1>8, ConsoleScopes

LEMMA ConsoleMoves ==
  /\ \A h, s : Console!SubmitFor(h, s) => SubmitFor(h, s)
  /\ \A m : Console!Open(m) => Open(m)
  /\ \A t, s, panes : Console!Look(t, s, panes) => Look(t, s, panes)
<1>1. \A h, s : Console!SubmitFor(h, s) => SubmitFor(h, s)
  BY DEF Console!SubmitFor, SubmitFor, Console!Unaware, Unaware, Console!Idle, Idle, Console!Room,
         Room, Console!Sent, Sent, Console!Passed, Passed, Console!view, view
<1>2. \A m : Console!Open(m) => Open(m)
  BY DEF Console!Open, Open, Console!Acts, Acts, Console!Room, Room
<1>3. \A t, s, panes : Console!Look(t, s, panes) => Look(t, s, panes)
  BY DEF Console!Look, Look, Console!Ask, Ask, Console!Asked, Asked, Console!Leaving, Leaving,
         Console!Fetch, Fetch, Console!Key, Key, Console!Anticipated, Anticipated, Console!Idle,
         Idle
<1> QED
  BY <1>1, <1>2, <1>3

LEMMA ConsoleKeeps ==
  ASSUME PInv, page = "console", Console!Acting
  PROVE  PInv'
<1>1. sel \in Selections /\ Watched
  BY DEF PInv, Shapes
<1>2. \A t, s, m : Fits(t, s, m) /\ (Kept(t, s, m) <=> KeptByConsole(t, s))
  BY DEF Fits, Kept
<1>3. \A m : Console!Open(m) => PInv'
  BY <1>2, OpenKeeps, ConsoleMoves DEF Held
<1>4. \A panes : Console!Look(tab, sel, panes) => PInv'
  BY <1>1, <1>2, LookKeeps, ConsoleMoves DEF Held
<1>5. \A t : \A s \in Selections : Console!Look(t, s, Console!Effects(t, s)) => PInv'
  BY <1>1, <1>2, LookKeeps, ConsoleMoves, ConsoleLands DEF Held
<1>6. \A t : \A s \in Selections : Console!Go(t, s) => PInv'
  BY <1>5 DEF Console!Go
<1>7. \A h : Stays(h) /\ Console!Submit(h) => PInv'
  <2> SUFFICES ASSUME NEW h, Stays(h), Console!Submit(h)
               PROVE  PInv'
    OBVIOUS
  <2>1. TabOn(h) = tab
    BY DEF Stays, TabOn, Led
  <2>2. SelOn(h) = sel
    BY <1>1, SelectionParts, StaysPut DEF Stays, SelOn, Led
  <2>3. Sendable(h, sel)
    BY <1>1, <2>1, <2>2, RoamingSendable, ConsoleFull DEF Stays
  <2> QED
    BY <2>3, SubmitKeeps, ConsoleMoves DEF Console!Submit
<1>8. <<"same", "same">> \in Goals
  BY StaysPut
<1>9. /\ Stays(Console!handleDeleteRow) /\ Stays(Console!handleSubmitEditRow)
      /\ Stays(Console!handleSubmitInsertRow) /\ Stays(Console!handleDropColumn)
      /\ Stays(Console!handleAddColumnSubmit) /\ Stays(Console!handleModifyColumnSubmit)
      /\ Stays(Console!handleDropIndex) /\ Stays(Console!handleAddIndexSubmit)
  BY <1>8 DEF Stays, Roaming, HandlerFields, Console!Change, Console!Also, Console!Catalog,
         Console!OfTable, Console!handleDeleteRow, Console!handleSubmitEditRow,
         Console!handleSubmitInsertRow, Console!handleDropColumn, Console!handleAddColumnSubmit,
         Console!handleModifyColumnSubmit, Console!handleDropIndex, Console!handleAddIndexSubmit
<1>10. /\ Stays(Console!handleCreateRoutine) /\ Stays(Console!handleDropRoutine)
       /\ Stays(Console!handleCreateEvent) /\ Stays(Console!handleDropEvent)
       /\ Stays(Console!handleCreateTrigger) /\ Stays(Console!handleDropTrigger)
  BY <1>8 DEF Stays, Roaming, HandlerFields, Console!Change, Console!Also, Console!Catalog,
         Console!OfTable, Console!handleCreateRoutine, Console!handleDropRoutine,
         Console!handleCreateEvent, Console!handleDropEvent, Console!handleCreateTrigger,
         Console!handleDropTrigger
<1>11. /\ Stays(Console!handleOptimizeAllTables) /\ Stays(Console!handleRepairAllTables)
       /\ Stays(Console!DropView) /\ Stays(Console!DropUser) /\ Stays(Console!AddUser)
  BY <1>8 DEF Stays, Roaming, HandlerFields, Console!Change, Console!Also, Console!Catalog,
         Console!OfTable, Console!handleOptimizeAllTables, Console!handleRepairAllTables,
         Console!DropView, Console!DropUser, Console!AddUser
<1>12. Stays(Console!TableChange) /\ Stays(Console!Flagged(Console!TableChange, "op"))
  BY <1>8 DEF Stays, Roaming, HandlerFields, Console!Change, Console!Flagged, Console!TableChange
<1>13. tab \in {"sql", "import"} /\ KeptByConsole(tab, sel) => eye.name \in {"tree", "details"}
  BY DEF KeptByConsole
<1>14. Console!Overview /\ KeptByConsole(tab, sel) => eye.name \in {"tree", "details"}
  BY DEF KeptByConsole, Console!Overview
<1>15. tab = "sql" => Stays(Console!handleExecuteSql)
  BY <1>8, <1>13 DEF Stays, Roaming, HandlerFields, Console!Change, Console!Flagged,
     Console!Catalog, Console!handleExecuteSql
<1>16. tab = "import" => Stays(Console!handleStartImport)
  BY <1>8, <1>13 DEF Stays, Roaming, HandlerFields, Console!Change, Console!Flagged,
     Console!Catalog, Console!handleStartImport
<1>17. Console!Overview => /\ Stays(Console!handleEmptySelectedTables) /\ Stays(Console!handleDropSelectedTables)
                           /\ Stays(Console!EmptyPill) /\ Stays(Console!DropPill)
  BY <1>8, <1>14 DEF Stays, Roaming, HandlerFields, Console!Change, Console!Also, Console!Catalog,
                     Console!handleEmptySelectedTables, Console!handleDropSelectedTables,
                     Console!EmptyPill, Console!DropPill
<1>18. \A h : /\ Roaming(h) /\ Console!Submit(h)
              /\ eye.name \in h.writes =>
                   (eye.name \in h.asks /\ Full(sel)) \/ ~KeptByConsole(TabOn(h), SelOn(h))
              => PInv'
  BY <1>1, RoamingSendable, SubmitKeeps, ConsoleMoves DEF Console!Submit
<1>19. \A x \in Items \cup {"", "t", "mysql"} : x \in Places
  BY DEF Places
<1>20. eye.name = "tree" => Full(sel)
  BY <1>1, ConsoleScopes, NoScope
<1>21. \A t, y : eye.name \in {"tree", "details"} /\ KeptByConsole(t, <<sel[1], y>>) => Full(sel)
  BY <1>1, ConsoleFull DEF KeptByConsole
<1>22. \A d \in Items : Console!Submit(Console!handleCreateDatabase(d)) => PInv'
  <2> TAKE d \in Items
  <2> DEFINE h == Console!handleCreateDatabase(d)
  <2>1. <<d, "">> \in Goals
    BY <1>19 DEF Goals
  <2>2. Roaming(h) /\ h.writes = {"tree"} /\ h.asks = {"tree"}
    BY <2>1 DEF Roaming, HandlerFields, Console!Change, Console!Leading,
       Console!handleCreateDatabase
  <2> HIDE DEF h
  <2> QED
    BY <1>18, <1>20, <2>2 DEF h
<1>23. \A d \in Items : Console!Submit(Console!handleDropDatabase(d)) => PInv'
  <2> TAKE d \in Items
  <2> DEFINE h == Console!handleDropDatabase(d)
             g == IF d = sel[1] THEN <<Console!nextDb(d), "">> ELSE <<"same", "same">>
  <2>1. Console!nextDb(d) \in Places
    BY <1>19 DEF Console!nextDb
  <2>2. <<Console!nextDb(d), "">> \in Goals
    BY <1>19, <2>1 DEF Goals
  <2>3. g \in Goals
    BY <1>8, <2>2
  <2> HIDE DEF g
  <2>4. Roaming(h) /\ h.writes = {"tree"} /\ h.asks = {"tree"}
    BY <2>3 DEF Roaming, HandlerFields, Console!Change, Console!Leading, Console!handleDropDatabase,
       g
  <2> HIDE DEF h
  <2> QED
    BY <1>18, <1>20, <2>4 DEF h
<1>24. Console!Submit(Console!handleCreateTable("t")) => PInv'
  <2> DEFINE h == Console!handleCreateTable("t")
  <2>1. <<"same", "t">> \in Goals
    BY <1>19 DEF Goals
  <2>2. Roaming(h) /\ h.writes = {"tree", "details"} /\ h.asks = {"tree", "details"} /\ h.toSel = <<"same", "t">>
    BY <2>1 DEF Roaming, HandlerFields, Console!Change, Console!Leading, Console!Catalog,
       Console!handleCreateTable
  <2> HIDE DEF h
  <2>3. SelOn(h) = <<sel[1], "t">>
    BY <2>2 DEF SelOn, Led
  <2> QED
    BY <1>18, <1>21, <2>2, <2>3 DEF h
<1>25. tab = "operations" /\ Console!Submit(Console!Flagged(Console!TableRename("t"), "op")) => PInv'
  <2> DEFINE h == Console!Flagged(Console!TableRename("t"), "op")
  <2>1. <<"same", "t">> \in Goals
    BY <1>19 DEF Goals
  <2>2. /\ Roaming(h) /\ h.toTab = "same" /\ h.toSel = <<"same", "t">>
        /\ h.writes = {"tree", "details", "structure", "browse"} /\ h.asks = {"tree", "details", "structure", "browse"}
    BY <2>1 DEF Roaming, HandlerFields, Console!Change, Console!Leading, Console!Flagged,
       Console!Catalog, Console!OfTable, Console!TableRename
  <2> HIDE DEF h
  <2>3. SelOn(h) = <<sel[1], "t">>
    BY <2>2 DEF SelOn, Led
  <2>4. TabOn(h) = tab
    BY <2>2 DEF TabOn, Led
  <2>5. tab = "operations" /\ KeptByConsole(TabOn(h), SelOn(h)) =>
          eye.name \in {"tree", "details"} /\ Full(sel)
    BY <1>21, <2>3, <2>4 DEF KeptByConsole
  <2> QED
    BY <1>18, <2>2, <2>5 DEF h
<1>26. Console!Submit(Console!Flagged(Console!TableDrop, "op")) => PInv'
  <2> DEFINE h == Console!Flagged(Console!TableDrop, "op")
  <2>1. <<"same", "">> \in Goals
    BY <1>19 DEF Goals
  <2>2. /\ Roaming(h) /\ h.toTab = "structure" /\ h.toSel = <<"same", "">>
        /\ h.writes = {"tree", "details", "structure", "browse"} /\ h.asks = {"tree", "details"}
    BY <2>1 DEF Roaming, HandlerFields, Console!Change, Console!Leading, Console!Flagged,
       Console!Catalog, Console!OfTable, Console!TableDrop
  <2> HIDE DEF h
  <2>3. SelOn(h) = <<sel[1], "">>
    <3>1. h.toSel[1] = "same" /\ h.toSel[2] = ""
      <4>1. \A x : x = <<"same", "">> => x[1] = "same" /\ x[2] = ""
        BY PairParts
      <4> QED
        BY <2>2, <4>1
    <3> QED
      BY <3>1 DEF SelOn, Led
  <2>4. TabOn(h) = "structure"
    BY <2>2 DEF TabOn, Led
  <2>5. KeptByConsole(TabOn(h), SelOn(h)) => eye.name \notin {"structure", "browse"}
    <3>1. SelOn(h)[2] = ""
      BY <2>3, PairParts
    <3> QED
      BY <2>4, <3>1 DEF KeptByConsole
  <2>6. KeptByConsole(TabOn(h), SelOn(h)) /\ eye.name \in {"tree", "details"} => Full(sel)
    BY <1>21, <2>3
  <2> QED
    BY <1>18, <2>2, <2>5, <2>6 DEF h
<1>27. \A d \in Items : <<d, "">> \in Selections /\ <<d, "t">> \in Selections
  BY <1>19 DEF Selections
<1>28. <<sel[1], "t">> \in Selections /\ <<sel[1], sel[2]>> \in Selections
  BY <1>1, <1>19, SelectionParts DEF Selections
<1>29. CASE Console!fetchTree
  BY <1>5, <1>27, <1>29 DEF Console!fetchTree
<1>30. CASE Console!Header \/ Console!TabBar \/ Console!DropZone \/ Console!TreeHeader
  BY <1>1, <1>3, <1>4, <1>6, <1>7, <1>11, <1>27, <1>30
  DEF Console!handleSwitchDb, Console!Does, Console!Header, Console!TabBar, Console!DropZone,
      Console!TreeHeader
<1>31. CASE Console!TreeDatabases \/ Console!TreeEntries
  BY <1>1, <1>3, <1>6, <1>23, <1>27, <1>31
  DEF Console!handleSwitchDb, Console!Does, Console!TreeDatabases, Console!TreeEntries,
      Console!handleOpenTableBrowse, Console!handleOpenTableStructure
<1>32. CASE \/ Console!StructureTab \/ Console!OverviewTab \/ Console!BatchBar \/ Console!TableList
            \/ Console!TablePills
  BY <1>1, <1>3, <1>6, <1>7, <1>9, <1>11, <1>17, <1>23, <1>28, <1>32
  DEF Console!Does, Console!StructureTab, Console!OverviewTab, Console!BatchBar, Console!TableList,
      Console!TablePills, Console!handleOpenTableBrowse, Console!handleOpenTableStructure,
      Console!dropCurrentDb
<1>33. CASE Console!BrowseTab \/ Console!RowsFetched \/ Console!SqlTab \/ Console!ImportTab
  BY <1>1, <1>3, <1>4, <1>6, <1>7, <1>9, <1>15, <1>16, <1>28, <1>33
  DEF Console!Does, Console!BrowseTab, Console!RowsFetched, Console!SqlTab, Console!ImportTab,
      Console!handleOpenTableStructure
<1>34. CASE Console!CollationCard \/ Console!TableCards \/ Console!DangerZone
  BY <1>7, <1>12, <1>23, <1>25, <1>26, <1>34
  DEF Console!Does, Console!CollationCard, Console!TableCards, Console!DangerZone,
      Console!dropCurrentDb, Console!handleTableOperation
<1>35. CASE \/ Console!RoutinesTab \/ Console!EventsTab \/ Console!TriggersTab \/ Console!ViewsTab
            \/ Console!PrivilegesTab
  BY <1>1, <1>3, <1>6, <1>7, <1>10, <1>11, <1>28, <1>35
  DEF Console!Does, Console!RoutinesTab, Console!EventsTab, Console!TriggersTab, Console!ViewsTab,
      Console!PrivilegesTab, Console!handleOpenTableBrowse
<1>36. CASE \/ Console!CreateDatabaseModal \/ Console!CreateTableModal \/ Console!InsertRowModal
            \/ Console!EditRowModal \/ Console!AddColumnModal \/ Console!ModifyColumnModal
            \/ Console!AddIndexModal \/ Console!AddRoutineModal \/ Console!AddEventModal
            \/ Console!AddTriggerModal \/ Console!AddUserModal
  BY <1>7, <1>9, <1>10, <1>11, <1>22, <1>24, <1>36
  DEF Console!In, Console!Form, Console!CreateDatabaseModal, Console!CreateTableModal,
      Console!InsertRowModal, Console!EditRowModal, Console!AddColumnModal,
      Console!ModifyColumnModal, Console!AddIndexModal, Console!AddRoutineModal,
      Console!AddEventModal, Console!AddTriggerModal, Console!AddUserModal
<1> QED
  BY <1>29, <1>30, <1>31, <1>32, <1>33, <1>34, <1>35, <1>36 DEF Console!Acting

LEMMA FilesScopes ==
  ASSUME page = "files", Watched
  PROVE  /\ eye.name \in {"listing", "trash", "domains", "content"}
         /\ eye.scope = (IF eye.name \in {"listing", "content"} THEN 1 ELSE 0)
         /\ eye.leads <=> eye.name = "listing"
BY DEF Watched, FileManager!Panes, FileManager!Pane, FileManager!Leader, FileManager!Shutting

(* A handler of the file manager fetches what it changes, or leads to      *)
(* where that is not shown.                                                *)
Filing(h) ==
  /\ DOMAIN h = HandlerFields /\ "done" \in h.goesOn
  /\ h.visits \in Places /\ h.clears = {} /\ h.toSel = <<"same", "same">> /\ h.opens = "none"
  /\ h.before = {} /\ ~h.whole
  /\ h.minds /\ eye.name \in h.writes =>
       \/ eye.name \in h.after \/ (eye.name \in h.asks /\ eye.name # "content")
       \/ eye.name = "trash" /\ h.toTab = "files"
       \/ eye.name = "listing" /\ h.toTab = "trash"

LEMMA FilingSendable ==
  ASSUME PInv, page = "files", NEW h, Filing(h)
  PROVE  Sendable(h, sel)
<1> DEFINE g == Sent(h, sel, modal).h
<1>1. Trimmed(g, h)
  BY SentIs DEF Filing
<1> HIDE DEF g
<1>2. HandlerFits(g)
  <2>1. Mine(g.writes) /\ Mine(g.asks) /\ Mine(g.before) /\ Mine(g.after) /\ Mine(g.clears)
        /\ Mine(g.follows) /\ Mine(g.orElse) /\ g.clears = {} /\ g.before = {}
    BY <1>1 DEF Trimmed, Mine, Filing
  <2>2. g.visits \in Places /\ "done" \in g.goesOn /\ g.opens = "none" /\ ~g.whole /\ g.toSel = <<"same", "same">>
    BY <1>1 DEF Trimmed, Filing
  <2>3. g.toSel \in Goals
    BY <2>2, StaysPut
  <2> QED
    BY <2>1, <2>2, <2>3 DEF HandlerFits
<1>3. eye.name # "content" => Full(sel)
  BY FilesScopes, NoScope DEF PInv, Shapes, PageFits, Fits
<1>4. ~Kept("files", SelOn(g), "none") \/ eye.name # "trash"
  BY DEF Kept
<1>5. ~Kept("trash", SelOn(g), "none") \/ eye.name # "listing"
  BY DEF Kept
<1>6. g.toTab \in {"files", "trash"} => TabOn(g) = g.toTab
  BY DEF TabOn, Led
<1>7. Minds(g, sel)
  BY <1>1, <1>3, <1>4, <1>5, <1>6 DEF Trimmed, Minds, WithoutModal, Filing
<1> QED
  BY <1>1, <1>2, <1>7 DEF Sendable, Trimmed, g, PInv, Shapes

LEMMA FilesMoves ==
  /\ \A h, s : FileManager!SubmitFor(h, s) => SubmitFor(h, s)
  /\ \A m : FileManager!Open(m) => Open(m)
  /\ \A t, s, panes : FileManager!Look(t, s, panes) => Look(t, s, panes)
  /\ \A m, s, clears, panes : FileManager!OpenFor(m, s, clears, panes) => OpenFor(m, s, clears, panes)
  /\ \A t, s, new : FileManager!Ask(t, s, new) => Ask(t, s, new)
<1>1. \A h, s : FileManager!SubmitFor(h, s) => SubmitFor(h, s)
  BY DEF FileManager!SubmitFor, SubmitFor, FileManager!Unaware, Unaware, FileManager!Idle, Idle,
         FileManager!Room, Room, FileManager!Sent, Sent, FileManager!Passed, Passed,
         FileManager!view, view
<1>2. \A m : FileManager!Open(m) => Open(m)
  BY DEF FileManager!Open, Open, FileManager!Acts, Acts, FileManager!Room, Room
<1>3. \A t, s, panes : FileManager!Look(t, s, panes) => Look(t, s, panes)
  BY DEF FileManager!Look, Look, FileManager!Ask, Ask, FileManager!Asked, Asked,
         FileManager!Leaving, Leaving, FileManager!Fetch, Fetch, FileManager!Key, Key,
         FileManager!Anticipated, Anticipated, FileManager!Idle, Idle
<1>4. \A m, s, clears, panes : FileManager!OpenFor(m, s, clears, panes) => OpenFor(m, s, clears, panes)
  <2>1. \A cs, changed : FileManager!Unaware(cs, changed) = Unaware(cs, changed)
    BY DEF FileManager!Unaware, Unaware, FileManager!Idle, Idle
  <2>2. \A t, s : FileManager!Leaving(t, s) = Leaving(t, s)
    BY DEF FileManager!Leaving, Leaving, FileManager!Idle, Idle
  <2>3. \A panes, s, astray : FileManager!Asked(panes, s, astray) = Asked(panes, s, astray)
    BY DEF FileManager!Asked, Asked, FileManager!Fetch, Fetch, FileManager!Key, Key,
           FileManager!Anticipated, Anticipated
  <2>4. FileManager!Passed(queue) = Passed(queue) /\ FileManager!Empty = Empty /\ (FileManager!Acts <=> Acts)
    BY DEF FileManager!Passed, Passed, FileManager!Empty, Empty, FileManager!NoKey, NoKey,
           FileManager!Acts, Acts, FileManager!Room, Room
  <2> QED
    BY <2>1, <2>2, <2>3, <2>4 DEF FileManager!OpenFor, OpenFor
<1>5. \A t, s, new : FileManager!Ask(t, s, new) => Ask(t, s, new)
  BY DEF FileManager!Ask, Ask, FileManager!Leaving, Leaving, FileManager!Idle, Idle
<1> QED
  BY <1>1, <1>2, <1>3, <1>4, <1>5

LEMMA FilesAsked ==
  /\ \A panes, s, astray : FileManager!Asked(panes, s, astray) = Asked(panes, s, astray)
  /\ \A s, astray : FileManager!Fetch(s, astray) = Fetch(s, astray)
BY DEF FileManager!Asked, Asked, FileManager!Fetch, Fetch, FileManager!Key, Key,
       FileManager!Anticipated, Anticipated

LEMMA FilesKeeps ==
  ASSUME PInv, page = "files", FileManager!Acting
  PROVE  PInv'
<1>1. sel \in Selections /\ Watched /\ Shapes /\ Fits(tab, sel, modal)
  BY DEF PInv, Shapes, PageFits
<1>2. /\ \A t, s, m : Fits(t, s, m) <=> (eye.name = "listing" => Full(s) /\ eye.leads)
      /\ \A t, s, m : Kept(t, s, m) <=> eye.name # (IF t = "files" THEN "trash" ELSE "listing")
  BY DEF Fits, Kept
<1>3. \A m : FileManager!Open(m) => PInv'
  BY <1>1, <1>2, OpenKeeps, FilesMoves DEF Held
<1>4. /\ \A d \in Places : <<d, "">> \in Selections
      /\ \A d \in Items \cup {"home"} : d \in Places
  BY DEF Selections, Places
<1>5. \A h : Filing(h) /\ FileManager!Submit(h) => PInv'
  BY FilingSendable, SubmitKeeps, FilesMoves DEF FileManager!Submit
<1>6. \A d \in Places : Fetched(Asked({"listing"}, <<d, "">>, FALSE), sel)
  BY <1>1, <1>2, <1>4, AskedFits
<1>7. \A panes : /\ Fetched(Asked(panes, sel, FALSE), sel)
                 /\ Asked(panes, sel, FALSE) # <<>> <=> eye.name \in panes /\ Full(sel)
  BY <1>1, AskedFits
<1>8. eye.name = "trash" => Full(sel)
  BY <1>1, FilesScopes, NoScope
<1>9. \A t, new : Fetched(new, sel) /\ (Kept(t, sel, modal) => new # <<>> \/ Held) /\ FileManager!Ask(t, sel, new) => PInv'
  BY <1>1, <1>2, AskKeeps, FilesMoves DEF SeenTo
<1>10. \A d \in Places :
         FileManager!Ask("files", sel, Asked({"listing"}, <<d, "">>, FALSE) \o Asked({"listing"}, sel, FALSE)) => PInv'
  <2> TAKE d \in Places
  <2> DEFINE a == Asked({"listing"}, <<d, "">>, FALSE)
             b == Asked({"listing"}, sel, FALSE)
  <2>1. Fetched(a, sel)
    BY <1>6
  <2>2. Fetched(b, sel) /\ (eye.name = "listing" => b # <<>>)
    BY <1>1, <1>2, <1>7
  <2> HIDE DEF a, b
  <2>3. Fetched(a \o b, sel) /\ (eye.name = "listing" => a \o b # <<>>)
    BY <2>1, <2>2, FetchedTogether
  <2>4. Kept("files", sel, modal) => a \o b # <<>> \/ Held
    BY <1>2, <2>3 DEF Held
  <2> QED
    BY <1>9, <2>3, <2>4 DEF a, b
<1>11. \A d \in Places :
         FileManager!Ask("files", sel,
           Asked({"listing"}, <<d, "">>, FALSE) \o Asked(FileManager!Effects("files", sel), sel, FALSE)) => PInv'
  <2> TAKE d \in Places
  <2> DEFINE a == Asked({"listing"}, <<d, "">>, FALSE)
             b == Asked(FileManager!Effects("files", sel), sel, FALSE)
  <2>1. Fetched(a, sel)
    BY <1>6
  <2>2. Fetched(b, sel) /\ (tab # "files" /\ eye.name = "listing" => b # <<>>)
    BY <1>1, <1>2, <1>7 DEF FileManager!Effects
  <2> HIDE DEF a, b
  <2>3. Fetched(a \o b, sel) /\ (tab # "files" /\ eye.name = "listing" => a \o b # <<>>)
    BY <2>1, <2>2, FetchedTogether
  <2>4. Kept("files", sel, modal) => a \o b # <<>> \/ Held
    BY <1>2, <2>3 DEF Held
  <2> QED
    BY <1>9, <2>3, <2>4 DEF a, b
<1>12. FileManager!Ask("trash", sel,
         Asked({"trash"}, sel, FALSE) \o Asked(FileManager!Effects("trash", sel), sel, FALSE)) => PInv'
  <2> DEFINE a == Asked({"trash"}, sel, FALSE)
             b == Asked(FileManager!Effects("trash", sel), sel, FALSE)
  <2>1. Fetched(a, sel) /\ (eye.name = "trash" => a # <<>>)
    BY <1>7, <1>8
  <2>2. Fetched(b, sel)
    BY <1>7
  <2> HIDE DEF a, b
  <2>3. Fetched(a \o b, sel) /\ (eye.name = "trash" => a \o b # <<>>)
    BY <2>1, <2>2, FetchedTogether
  <2>4. Kept("trash", sel, modal) => a \o b # <<>> \/ Held
    BY <1>2, <2>3 DEF Held
  <2> QED
    BY <1>9, <2>3, <2>4 DEF a, b
<1>13. FileManager!onDomainChange => PInv'
  <2>1. \A panes : FileManager!Ask(tab, sel, Asked(panes, sel, FALSE)) => PInv'
    BY <1>7, <1>9 DEF Held
  <2> QED
    BY <2>1, FilesAsked DEF FileManager!onDomainChange, FileManager!DomainEffect
<1>14. \A d \in Places : FileManager!fetchDirectory(d) => PInv'
  BY <1>11, FilesAsked DEF FileManager!fetchDirectory, FileManager!ListingOf
<1>15. FileManager!fetchTrash => PInv'
  BY <1>12, FilesAsked DEF FileManager!fetchTrash
<1>16. FileManager!switchDomain => PInv'
  BY <1>4, <1>10, FilesAsked DEF FileManager!switchDomain, FileManager!ListingOf,
     FileManager!DomainEffect
<1>17. FileManager!navigateTo => PInv'
  BY <1>4, <1>14 DEF FileManager!navigateTo
<1>18. FileManager!navigateUp => PInv'
  BY <1>4, <1>14 DEF FileManager!navigateUp
<1>19. \A f \in Items : FileManager!openFileEditor(f) => PInv'
  <2> SUFFICES ASSUME NEW f \in Items, FileManager!openFileEditor(f)
               PROVE  PInv'
    OBVIOUS
  <2> DEFINE s == FileManager!Entry(f)
  <2>1. s \in Selections /\ (eye.name # "content" => s = sel)
    BY <1>1, <1>4 DEF FileManager!Entry
  <2>2. Fits(tab, s, "editor")
    <3>1. eye.name = "listing" => s = sel
      BY <2>1
    <3> QED
      BY <1>1, <1>2, <3>1
  <2>3. OpenFor("editor", s, {"content"}, {"content"})
    BY FilesMoves DEF FileManager!openFileEditor
  <2> HIDE DEF s
  <2>4. Kept(tab, s, "editor") => eye.name \in {"content"} \/ (Held /\ Key(s) = Key(sel))
    <3>1. CASE eye.name = "content"
      BY <3>1
    <3>2. CASE eye.name # "content"
      BY <1>2, <2>1, <3>2 DEF Held
    <3> QED
      BY <3>1, <3>2
  <2> QED
    BY <2>1, <2>2, <2>3, <2>4, OpenForKeeps
<1>20. FileManager!handleItemClick => PInv'
  BY <1>17, <1>19 DEF FileManager!handleItemClick
<1>21. FileManager!handleOpenQuickConfigFile => PInv'
  <2>1. ASSUME NEW f \in Items,
               FileManager!Ask(tab, sel,
                 [i \in DOMAIN Asked({"content"}, <<f, "">>, FALSE) |->
                    [Fetch(<<f, "">>, FALSE) EXCEPT !.leads = "editor"]])
        PROVE  PInv'
    <3> DEFINE a == Asked({"content"}, <<f, "">>, FALSE)
               e == [Fetch(<<f, "">>, FALSE) EXCEPT !.leads = "editor"]
               new == [i \in DOMAIN a |-> e]
    <3>1. ASSUME eye.name = "content"
          PROVE  Fetched(new, sel)
      <4>1. eye.scope = 1 /\ <<f, "">> \in Selections
        BY <1>1, <1>4, <3>1, FilesScopes
      <4>2. Fetched(a, <<f, "">>)
        BY <1>1, <4>1, AskedFits
      <4>3. a = <<Fetch(<<f, "">>, FALSE)>> \/ a = <<>>
        BY DEF Asked
      <4> HIDE DEF a
      <4>4. CASE a = <<>>
        <5>1. new = <<>>
          BY <4>4
        <5> HIDE DEF new
        <5> QED
          BY <5>1, NothingFetched
      <4>5. CASE a = <<Fetch(<<f, "">>, FALSE)>>
        <5>1. Fetch(<<f, "">>, FALSE) \in Entry /\ Full(Fetch(<<f, "">>, FALSE).of)
          <6> DEFINE x == Fetch(<<f, "">>, FALSE)
          <6> HIDE DEF x
          <6>1. a = <<x>> /\ <<x>> \in Seq(Entry)
            BY <4>2, <4>5 DEF x, Fetched
          <6>2. Len(<<x>>) = 1 /\ <<x>>[1] = x
            OBVIOUS
          <6>3. \A i \in 1..Len(a) : a[i] \in Entry /\ Full(a[i].of)
            BY <4>2, ElementOfSeq DEF Fetched
          <6>4. x \in Entry /\ Full(x.of)
            BY <6>1, <6>2, <6>3
          <6> QED
            BY <6>4 DEF x
        <5>2. e \in Entry /\ Full(e.of)
          BY <5>1 DEF Entry
        <5>3. new = <<e>>
          <6>1. \A x, y : [i \in DOMAIN <<x>> |-> y] = <<y>>
            OBVIOUS
          <6> HIDE DEF e
          <6> QED
            BY <4>5, <6>1
        <5> HIDE DEF new
        <5>4. e.lacks = {} /\ ~e.behind /\ e.passed = (IF Anticipated THEN "patch" ELSE "none") /\ e.leads = "editor"
          BY DEF Fetch
        <5>5. Leads
          BY <4>1 DEF Leads
        <5> HIDE DEF e
        <5>6. new \in Seq(Entry) /\ Len(new) = 1 /\ \A i \in 1..1 : new[i] = e
          BY <5>2, <5>3
        <5> QED
          BY <5>2, <5>4, <5>5, <5>6 DEF Fetched
      <4> QED
        BY <4>3, <4>4, <4>5
    <3>2. ASSUME eye.name # "content"
          PROVE  Fetched(new, sel)
      <4>1. a = <<>>
        BY <3>2 DEF Asked
      <4> HIDE DEF a
      <4>2. new = <<>>
        BY <4>1
      <4> HIDE DEF new
      <4> QED
        BY <4>2, NothingFetched
    <3> HIDE DEF a, e
    <3>3. Fetched(new, sel)
      BY <3>1, <3>2
    <3>4. FileManager!Ask(tab, sel, new)
      BY <2>1 DEF new, a, e
    <3> HIDE DEF new
    <3> QED
      BY <1>9, <3>3, <3>4 DEF Held
  <2> QED
    BY <1>19, <2>1, FilesAsked DEF FileManager!handleOpenQuickConfigFile
<1>22. "" \in Places /\ "home" \in Places
  BY DEF Places
<1>23. /\ Filing(FileManager!InFolder) /\ Filing(FileManager!handlePaste)
       /\ Filing(FileManager!undo) /\ Filing(FileManager!handleUploadFiles)
       /\ Filing(FileManager!onRetry) /\ Filing(FileManager!handleFixWebPermissions)
       /\ Filing(FileManager!onDuplicate)
  BY <1>22 DEF Filing, HandlerFields, FileManager!Change, FileManager!Flagged,
     FileManager!Unchecked, FileManager!Following, FileManager!Patching, FileManager!Staying,
     FileManager!Forgetting, FileManager!Leading, FileManager!ThenFiles, FileManager!ThenTrash,
     FileManager!InFolder, FileManager!InFolder, FileManager!handlePaste, FileManager!undo,
     FileManager!handleUploadFiles, FileManager!onRetry, FileManager!handleFixWebPermissions,
     FileManager!onDuplicate
<1>24. /\ Filing(FileManager!createFile) /\ Filing(FileManager!rename)
       /\ Filing(FileManager!chmod) /\ Filing(FileManager!extract) /\ Filing(FileManager!archive)
       /\ Filing(FileManager!moveCopy)
  BY <1>22 DEF Filing, HandlerFields, FileManager!Change, FileManager!Flagged,
     FileManager!Unchecked, FileManager!Following, FileManager!Patching, FileManager!Staying,
     FileManager!Forgetting, FileManager!Leading, FileManager!ThenFiles, FileManager!ThenTrash,
     FileManager!InFolder, FileManager!createFile, FileManager!rename, FileManager!chmod,
     FileManager!extract, FileManager!archive, FileManager!moveCopy
<1>25. /\ Filing(FileManager!handleSaveContent) /\ Filing(FileManager!handleMoveToTrash)
       /\ Filing(FileManager!restore) /\ Filing(FileManager!emptyTrash)
  BY <1>22 DEF Filing, HandlerFields, FileManager!Change, FileManager!Flagged,
     FileManager!Unchecked, FileManager!Following, FileManager!Patching, FileManager!Staying,
     FileManager!Forgetting, FileManager!Leading, FileManager!ThenFiles, FileManager!ThenTrash,
     FileManager!InFolder, FileManager!handleSaveContent, FileManager!handleMoveToTrash,
     FileManager!restore, FileManager!emptyTrash
<1>26. \A h \in FileManager!deleteFolder : Filing(h)
  <2>1. Filing(FileManager!Visiting(FileManager!handleMoveToTrash, "home"))
    BY <1>22 DEF Filing, HandlerFields, FileManager!Change, FileManager!Following,
       FileManager!Leading, FileManager!ThenFiles, FileManager!handleMoveToTrash,
       FileManager!Visiting
  <2> QED
    BY <1>25, <2>1 DEF FileManager!deleteFolder
<1>27. \A h \in FileManager!handleDropOnFolder : Filing(h)
  BY <1>23, <1>25 DEF FileManager!handleDropOnFolder
<1>28. CASE FileManager!Sidebar \/ FileManager!Toolbar
  BY <1>3, <1>5, <1>13, <1>15, <1>16, <1>17, <1>23, <1>27, <1>28
  DEF FileManager!Does, FileManager!Sidebar, FileManager!Toolbar
<1>29. CASE FileManager!Refresh
  BY <1>1, <1>4, <1>14, <1>15, <1>29, SelectionParts
  DEF FileManager!Refresh, FileManager!here
<1>30. CASE FileManager!FileHub \/ FileManager!PathBar
  BY <1>5, <1>16, <1>17, <1>18, <1>21, <1>23, <1>30
  DEF FileManager!Does, FileManager!FileHub, FileManager!PathBar
<1>31. CASE \/ FileManager!BulkBar \/ FileManager!UndoBanner \/ FileManager!DropTarget
            \/ FileManager!TrashView \/ FileManager!ListView \/ FileManager!GridView
  BY <1>3, <1>5, <1>19, <1>20, <1>23, <1>25, <1>27, <1>31
  DEF FileManager!Does, FileManager!BulkBar, FileManager!UndoBanner, FileManager!DropTarget,
      FileManager!TrashView, FileManager!ListView, FileManager!GridView
<1>32. CASE FileManager!PreviewPanel \/ FileManager!ContextMenu \/ FileManager!UploadDrawer
  BY <1>3, <1>5, <1>19, <1>20, <1>23, <1>25, <1>32
  DEF FileManager!Does, FileManager!PreviewPanel, FileManager!ContextMenu, FileManager!UploadDrawer
<1>33. CASE \/ FileManager!Editor \/ FileManager!CreateModal \/ FileManager!RenameModal
            \/ FileManager!PermModal \/ FileManager!ExtractModal \/ FileManager!ArchiveModal
            \/ FileManager!TrashModals \/ FileManager!MoveCopyModal
            \/ FileManager!FolderDeleteModal
  BY <1>5, <1>24, <1>25, <1>26, <1>33
  DEF FileManager!In, FileManager!Editor, FileManager!CreateModal, FileManager!RenameModal,
      FileManager!PermModal, FileManager!ExtractModal, FileManager!ArchiveModal,
      FileManager!TrashModals, FileManager!MoveCopyModal, FileManager!FolderDeleteModal
<1> QED
  BY <1>28, <1>29, <1>30, <1>31, <1>32, <1>33 DEF FileManager!Acting

LEMMA BackupsScopes ==
  ASSUME page = "backups", Watched
  PROVE  eye.scope = IF eye.name \in {"tree", "policy"} THEN 1 ELSE 0
BY DEF Watched, Backups!Panes, Backups!Pane, Backups!All

LEMMA BackupsMoves ==
  /\ \A h, s : Backups!SubmitFor(h, s) => SubmitFor(h, s)
  /\ \A m : Backups!Open(m) => Open(m)
  /\ \A t, s, panes : Backups!Look(t, s, panes) => Look(t, s, panes)
  /\ \A m, s, clears, panes : Backups!OpenFor(m, s, clears, panes) => OpenFor(m, s, clears, panes)
<1>1. \A h, s : Backups!SubmitFor(h, s) => SubmitFor(h, s)
  BY DEF Backups!SubmitFor, SubmitFor, Backups!Unaware, Unaware, Backups!Idle, Idle, Backups!Room,
         Room, Backups!Sent, Sent, Backups!Passed, Passed, Backups!view, view
<1>2. \A m : Backups!Open(m) => Open(m)
  BY DEF Backups!Open, Open, Backups!Acts, Acts, Backups!Room, Room
<1>3. \A t, s, panes : Backups!Look(t, s, panes) => Look(t, s, panes)
  BY DEF Backups!Look, Look, Backups!Ask, Ask, Backups!Asked, Asked, Backups!Leaving, Leaving,
         Backups!Fetch, Fetch, Backups!Key, Key, Backups!Anticipated, Anticipated, Backups!Idle,
         Idle
<1>4. \A m, s, clears, panes : Backups!OpenFor(m, s, clears, panes) => OpenFor(m, s, clears, panes)
  <2>1. \A cs, changed : Backups!Unaware(cs, changed) = Unaware(cs, changed)
    BY DEF Backups!Unaware, Unaware, Backups!Idle, Idle
  <2>2. \A t, s : Backups!Leaving(t, s) = Leaving(t, s)
    BY DEF Backups!Leaving, Leaving, Backups!Idle, Idle
  <2>3. \A panes, s, astray : Backups!Asked(panes, s, astray) = Asked(panes, s, astray)
    BY DEF Backups!Asked, Asked, Backups!Fetch, Fetch, Backups!Key, Key, Backups!Anticipated,
           Anticipated
  <2>4. Backups!Passed(queue) = Passed(queue) /\ Backups!Empty = Empty /\ (Backups!Acts <=> Acts)
    BY DEF Backups!Passed, Passed, Backups!Empty, Empty, Backups!NoKey, NoKey, Backups!Acts, Acts,
           Backups!Room, Room
  <2> QED
    BY <2>1, <2>2, <2>3, <2>4 DEF Backups!OpenFor, OpenFor
<1> QED
  BY <1>1, <1>2, <1>3, <1>4

LEMMA BackupsKeeps ==
  ASSUME PInv, page = "backups", Backups!Acting
  PROVE  PInv'
<1>1. sel \in Selections /\ Watched /\ sel = <<sel[1], sel[2]>> /\ sel[1] \in Places /\ sel[2] \in Places
  BY SelectionParts DEF PInv, Shapes
<1>2. /\ \A s, m : \A t \in Backups!Tabs : Fits(t, s, m)
      /\ tab \in Backups!Tabs
      /\ \A t, s, m : Kept(t, s, m) <=> /\ eye.name = "tree" => m = "tree"
                                        /\ eye.name = "policy" => m = "prune"
  BY DEF Fits, Kept, PInv, PageFits
<1>3. \A m : m \notin {"tree", "prune"} /\ Backups!Open(m) => PInv'
  BY <1>2, OpenKeeps, BackupsMoves DEF Held
<1>4. \A panes : \A t \in Backups!Tabs : Backups!Look(t, sel, panes) => PInv'
  BY <1>1, <1>2, LookKeeps, BackupsMoves DEF Held
<1>5. eye.name \notin {"tree", "policy"} => \A s \in Selections : Full(s) /\ Key(s) = Key(sel)
  BY <1>1, BackupsScopes, NoScope
<1>6. \A h : Good(h) /\ h.toTab = "same" /\ h.writes \cap {"tree", "policy"} = {} /\ Backups!Submit(h) => PInv'
  <2> SUFFICES ASSUME NEW h, Good(h), h.toTab = "same", h.writes \cap {"tree", "policy"} = {}, Backups!Submit(h)
               PROVE  PInv'
    OBVIOUS
  <2>1. eye.name \in h.writes \cap h.asks => Full(sel)
    BY <1>1, <1>5
  <2>2. Sendable(h, sel)
    BY <1>1, <2>1, PlainSendable DEF Good
  <2> QED
    BY <2>2, SubmitKeeps, BackupsMoves DEF Backups!Submit
<1> DEFINE Fine(h) == Good(h) /\ h.toTab = "same" /\ h.writes \cap {"tree", "policy"} = {}
<1>7. /\ Fine(Backups!handleCreateRepository) /\ Fine(Backups!handleCheckIntegrity)
      /\ Fine(Backups!handleToggleDeletionProtection)
      /\ Fine(Backups!handleCreateIncrementalSnapshot)
      /\ Fine(Backups!handleRestoreSelectedFiles) /\ Fine(Backups!handleExecuteFullRestore)
      /\ Fine(Backups!handleGenerateRunbook)
  BY DEF Good, Plain, Minding, HandlerFields, Wholes, Backups!Change, Backups!Flagged,
         Backups!Local, Backups!Staying, Backups!loadData, Backups!All,
         Backups!handleCreateRepository, Backups!handleCheckIntegrity,
         Backups!handleToggleDeletionProtection, Backups!handleCreateIncrementalSnapshot,
         Backups!handleRestoreSelectedFiles, Backups!handleExecuteFullRestore,
         Backups!handleGenerateRunbook
<1>8. Fine(Backups!handleDeleteRepository)
  <2>1. Fine(Backups!Local({"repositories"})) /\ Fine(Backups!Forgetting(Backups!Change({"snapshots"}, {})))
    BY DEF Good, Plain, Minding, HandlerFields, Wholes, Backups!Change, Backups!Local,
           Backups!Forgetting
  <2> QED
    BY <2>1 DEF Backups!handleDeleteRepository
<1>9. \A h \in Backups!handleExecutePrune : Fine(h)
  <2>1. /\ Fine(Backups!Staying(Backups!Flagged(Backups!loadData({"repositories", "snapshots"}), "prune")))
        /\ Fine(Backups!Staying(Backups!Flagged(Backups!Change({}, {}), "prune")))
    BY DEF Good, Plain, Minding, HandlerFields, Wholes, Backups!Change, Backups!Flagged,
           Backups!Staying, Backups!loadData, Backups!All
  <2> QED
    BY <2>1 DEF Backups!handleExecutePrune
<1> HIDE DEF Fine
<1>10. \A h : Fine(h) /\ Backups!Submit(h) => PInv'
  BY <1>6 DEF Fine
<1>11. CASE Backups!chooseRepository
  <2> DEFINE s == <<sel[1], "chosen">>
  <2>1. s \in Selections
    BY <1>1 DEF Selections, Places
  <2>2. Key(s) = Key(sel)
    <3>1. \A i \in 1..eye.scope : s[i] = sel[i]
      BY BackupsScopes, <1>1
    <3> QED
      BY <1>1, <2>1, <3>1, SameKey, BackupsScopes
  <2>3. Look(tab, s, Backups!All)
    BY <1>11, BackupsMoves DEF Backups!chooseRepository
  <2> HIDE DEF s
  <2> QED
    BY <1>2, <2>1, <2>2, <2>3, LookKeeps DEF Held
<1>12. ASSUME NEW r \in Items, NEW m, NEW pane,
              \/ m = "prune" /\ pane = "policy"
              \/ m = "tree" /\ pane = "tree",
              Backups!OpenFor(m, <<r, sel[2]>>, {}, {pane})
       PROVE  PInv'
  <2> DEFINE s == <<r, sel[2]>>
  <2>1. s \in Selections /\ s[1] # ""
    BY <1>1, ItemsAreNamed DEF Selections, Places
  <2>2. OpenFor(m, s, {}, {pane})
    BY <1>12, BackupsMoves
  <2> HIDE DEF s
  <2>3. eye.scope = 1 => Full(s)
    BY <2>1, FullIs
  <2>4. Kept(tab, s, m) => \/ eye.name \in {} \/ (eye.name \in {pane} /\ Full(s))
                           \/ Held /\ Key(s) = Key(sel)
    <3>1. CASE eye.name \in {"tree", "policy"}
      BY <1>1, <1>2, <1>12, <2>3, <3>1, BackupsScopes
    <3>2. CASE eye.name \notin {"tree", "policy"}
      BY <1>2, <1>5, <2>1, <3>2 DEF Held
    <3> QED
      BY <3>1, <3>2
  <2> QED
    BY <1>2, <2>1, <2>2, <2>4, OpenForKeeps
<1>13. CASE Backups!Header \/ Backups!TabBar \/ Backups!RunbookTab
  BY <1>2, <1>3, <1>4, <1>7, <1>10, <1>13
  DEF Backups!Does, Backups!Go, Backups!Header, Backups!TabBar, Backups!RunbookTab
<1>14. CASE Backups!SnapshotTable \/ Backups!RepositoryCards
  BY <1>3, <1>7, <1>8, <1>10, <1>12, <1>14
  DEF Backups!Does, Backups!SnapshotTable, Backups!RepositoryCards, Backups!handleOpenFileTree,
      Backups!handleOpenPruneModal
<1>15. CASE \/ Backups!FileTreeModal \/ Backups!FullRestoreModal \/ Backups!NewRepoModal
            \/ Backups!NewSnapModal \/ Backups!PruneModal
  BY <1>2, <1>4, <1>7, <1>9, <1>10, <1>15
  DEF Backups!In, Backups!FileTreeModal, Backups!FullRestoreModal, Backups!NewRepoModal,
      Backups!NewSnapModal, Backups!PruneModal
<1> QED
  BY <1>11, <1>13, <1>14, <1>15 DEF Backups!Acting

LEMMA DatabasesScopes ==
  ASSUME page = "databases", Watched
  PROVE  eye.name \in DatabasesP!All /\ eye.scope \in {0, 1}
BY DEF Watched, DatabasesP!Panes, DatabasesP!Pane, DatabasesP!All

LEMMA ItemSelected ==
  ASSUME NEW e \in Items
  PROVE  <<e, "">> \in Selections /\ (eye.scope \in {0, 1} => Full(<<e, "">>))
<1>1. <<e, "">>[1] = e /\ e # "" /\ <<e, "">> \in Selections
  BY ItemsAreNamed, PairParts DEF Selections, Places
<1> QED
  BY <1>1, FullIs

LEMMA DatabasesMoves ==
  /\ \A h, s : DatabasesP!SubmitFor(h, s) => SubmitFor(h, s)
  /\ \A m : DatabasesP!Open(m) => Open(m)
  /\ \A t, s, panes : DatabasesP!Look(t, s, panes) => Look(t, s, panes)
  /\ \A t, s, new : DatabasesP!Ask(t, s, new) => Ask(t, s, new)
<1>1. \A h, s : DatabasesP!SubmitFor(h, s) => SubmitFor(h, s)
  BY DEF DatabasesP!SubmitFor, SubmitFor, DatabasesP!Unaware, Unaware, DatabasesP!Idle, Idle,
         DatabasesP!Room, Room, DatabasesP!Sent, Sent, DatabasesP!Passed, Passed, DatabasesP!view,
         view
<1>2. \A m : DatabasesP!Open(m) => Open(m)
  BY DEF DatabasesP!Open, Open, DatabasesP!Acts, Acts, DatabasesP!Room, Room
<1>3. \A t, s, panes : DatabasesP!Look(t, s, panes) => Look(t, s, panes)
  BY DEF DatabasesP!Look, Look, DatabasesP!Ask, Ask, DatabasesP!Asked, Asked, DatabasesP!Leaving,
         Leaving, DatabasesP!Fetch, Fetch, DatabasesP!Key, Key, DatabasesP!Anticipated, Anticipated,
         DatabasesP!Idle, Idle
<1>4. \A t, s, new : DatabasesP!Ask(t, s, new) => Ask(t, s, new)
  BY DEF DatabasesP!Ask, Ask, DatabasesP!Leaving, Leaving, DatabasesP!Idle, Idle
<1> QED
  BY <1>1, <1>2, <1>3, <1>4

LEMMA DatabasesAsked ==
  \A panes, s, astray : DatabasesP!Asked(panes, s, astray) = Asked(panes, s, astray)
BY DEF DatabasesP!Asked, Asked, DatabasesP!Fetch, Fetch, DatabasesP!Key, Key,
       DatabasesP!Anticipated, Anticipated

LEMMA DatabasesKeeps ==
  ASSUME PInv, page = "databases", DatabasesP!Acting
  PROVE  PInv'
<1>1. sel \in Selections /\ Watched /\ Shapes /\ Full(sel)
  BY DEF PInv, Shapes, PageFits, Fits
<1>2. /\ \A t, s, m : Fits(t, s, m) <=> Full(s)
      /\ \A t, s, m : Kept(t, s, m)
  BY DEF Fits, Kept
<1>3. \A m : DatabasesP!Open(m) => PInv'
  BY <1>1, <1>2, OpenKeeps, DatabasesMoves DEF Held
<1>4. \A h : Good(h) /\ DatabasesP!Submit(h) => PInv'
  BY <1>1, PlainSendable, SubmitKeeps, DatabasesMoves DEF Good, DatabasesP!Submit
<1>5. ASSUME NEW e \in Items, DatabasesP!handleEngineChange(e)
      PROVE  PInv'
  <2> DEFINE s == <<e, "">>
             a == Asked({"status"}, s, FALSE)
             b == Asked(DatabasesP!All, s, FALSE)
  <2>1. s \in Selections /\ Full(s)
    BY <1>1, ItemSelected, DatabasesScopes
  <2>2. Ask(tab, s, a \o b)
    BY <1>5, DatabasesMoves, DatabasesAsked DEF DatabasesP!handleEngineChange
  <2> HIDE DEF s
  <2>3. Fetched(a, s)
    BY <1>1, <2>1, AskedFits
  <2>4. Fetched(b, s) /\ b # <<>>
    BY <1>1, <2>1, AskedFits, DatabasesScopes
  <2> HIDE DEF a, b
  <2>5. Fetched(a \o b, s) /\ a \o b # <<>>
    BY <2>3, <2>4, FetchedTogether
  <2>6. SeenTo(tab, s, modal, FALSE, a \o b)
    BY <1>2, <2>1, <2>5 DEF SeenTo
  <2> QED
    BY <2>2, <2>6, AskKeeps
<1>6. /\ Good(DatabasesP!handleToggleAutoBackup) /\ Good(DatabasesP!handleDeleteDatabase)
      /\ Good(DatabasesP!handleSaveNote) /\ Good(DatabasesP!handleRunTools)
      /\ Good(DatabasesP!handleChangePassword) /\ Good(DatabasesP!handleChangePermission)
  BY DEF Good, Plain, Minding, HandlerFields, Wholes, DatabasesP!Change, DatabasesP!Flagged,
         DatabasesP!Local, DatabasesP!Staying, DatabasesP!Unchecked, DatabasesP!Optimistic,
         DatabasesP!Forgetting, DatabasesP!Patches, DatabasesP!handleToggleAutoBackup,
         DatabasesP!handleDeleteDatabase, DatabasesP!handleSaveNote, DatabasesP!handleRunTools,
         DatabasesP!handleChangePassword, DatabasesP!handleChangePermission
<1>7. /\ Good(DatabasesP!handleImportSql) /\ Good(DatabasesP!handleSyncAll)
      /\ Good(DatabasesP!handleImmediateBackup) /\ Good(DatabasesP!handleChangeRootPassword)
      /\ Good(DatabasesP!applySetup)
  BY DEF Good, Plain, Minding, HandlerFields, Wholes, DatabasesP!Change, DatabasesP!Flagged,
         DatabasesP!Local, DatabasesP!Staying, DatabasesP!Unchecked, DatabasesP!Optimistic,
         DatabasesP!Forgetting, DatabasesP!Patches, DatabasesP!handleImportSql,
         DatabasesP!handleSyncAll, DatabasesP!handleImmediateBackup,
         DatabasesP!handleChangeRootPassword, DatabasesP!applySetup
<1>8. Good(DatabasesP!Staying(DatabasesP!handleRestoreDb)) /\ Good(DatabasesP!Staying(DatabasesP!handlePermanentDelete))
  BY DEF Good, Plain, Minding, HandlerFields, Wholes, DatabasesP!Change, DatabasesP!Local,
         DatabasesP!Staying, DatabasesP!Unchecked, DatabasesP!Patches, DatabasesP!handleRestoreDb,
         DatabasesP!handlePermanentDelete
<1>9. \A h \in DatabasesP!handleCreateDatabase : Good(h)
  <2>1. /\ Good(DatabasesP!Flagged(DatabasesP!Local({"databases"}), "create"))
        /\ Good(DatabasesP!Flagged(DatabasesP!Change({"databases"}, {"databases"}), "create"))
    BY DEF Good, Plain, Minding, HandlerFields, Wholes, DatabasesP!Change, DatabasesP!Local,
           DatabasesP!Flagged
  <2> QED
    BY <2>1 DEF DatabasesP!handleCreateDatabase
<1>10. \A h \in DatabasesP!handleExecuteBatch : Good(h)
  <2>1. /\ Good(DatabasesP!Flagged(DatabasesP!Patches({"databases"}), "batch"))
        /\ Good(DatabasesP!Flagged(DatabasesP!Unchecked(DatabasesP!Change({}, {})), "batch"))
    BY DEF Good, Plain, Minding, HandlerFields, Wholes, DatabasesP!Change, DatabasesP!Local,
           DatabasesP!Flagged, DatabasesP!Unchecked, DatabasesP!Patches
  <2> QED
    BY <2>1 DEF DatabasesP!handleExecuteBatch
<1>11. CASE \/ DatabasesP!EngineTabs \/ DatabasesP!AutoBackupCard \/ DatabasesP!Toolbar
            \/ DatabasesP!BackupCell \/ DatabasesP!NoteCell \/ DatabasesP!OperateCell
            \/ DatabasesP!BatchFooter
  BY <1>3, <1>4, <1>5, <1>6, <1>7, <1>10, <1>11
  DEF DatabasesP!Does, DatabasesP!EngineTabs, DatabasesP!AutoBackupCard, DatabasesP!Toolbar,
      DatabasesP!BackupCell, DatabasesP!NoteCell, DatabasesP!OperateCell, DatabasesP!BatchFooter
<1>12. CASE \/ DatabasesP!CreateModal \/ DatabasesP!RootPasswordModal \/ DatabasesP!PermissionModal
            \/ DatabasesP!ToolsModal \/ DatabasesP!PasswordModal \/ DatabasesP!ImportModal
            \/ DatabasesP!RecycleBinModal \/ DatabasesP!AdvancedSetupModal
  BY <1>4, <1>6, <1>7, <1>8, <1>9, <1>12
  DEF DatabasesP!In, DatabasesP!CreateModal, DatabasesP!RootPasswordModal,
      DatabasesP!PermissionModal, DatabasesP!ToolsModal, DatabasesP!PasswordModal,
      DatabasesP!ImportModal, DatabasesP!RecycleBinModal, DatabasesP!AdvancedSetupModal
<1> QED
  BY <1>11, <1>12 DEF DatabasesP!Acting

LEMMA PhpScopes ==
  ASSUME page = "php", Watched
  PROVE  /\ eye.name = "versions" \/ eye.name \in Php!PerVersion
         /\ eye.name = "versions" => eye.scope = 0
         /\ eye.scope \in {0, 1}
BY DEF Watched, Php!Panes, Php!Pane, Php!PerVersion

LEMMA PhpMoves ==
  /\ \A h, s : Php!SubmitFor(h, s) => SubmitFor(h, s)
  /\ \A m : Php!Open(m) => Open(m)
  /\ \A t, s, panes : Php!Look(t, s, panes) => Look(t, s, panes)
<1>1. \A h, s : Php!SubmitFor(h, s) => SubmitFor(h, s)
  BY DEF Php!SubmitFor, SubmitFor, Php!Unaware, Unaware, Php!Idle, Idle, Php!Room, Room, Php!Sent,
         Sent, Php!Passed, Passed, Php!view, view
<1>2. \A m : Php!Open(m) => Open(m)
  BY DEF Php!Open, Open, Php!Acts, Acts, Php!Room, Room
<1>3. \A t, s, panes : Php!Look(t, s, panes) => Look(t, s, panes)
  BY DEF Php!Look, Look, Php!Ask, Ask, Php!Asked, Asked, Php!Leaving, Leaving, Php!Fetch, Fetch,
         Php!Key, Key, Php!Anticipated, Anticipated, Php!Idle, Idle
<1> QED
  BY <1>1, <1>2, <1>3

LEMMA PhpKeeps ==
  ASSUME PInv, page = "php", Php!Acting
  PROVE  PInv'
<1>1. sel \in Selections /\ Watched /\ Shapes /\ Full(sel)
  BY DEF PInv, Shapes, PageFits, Fits
<1>2. /\ \A t, s, m : Fits(t, s, m) <=> Full(s)
      /\ \A t, s, m : Kept(t, s, m)
  BY DEF Fits, Kept
<1>3. \A t, panes : Php!Look(t, sel, panes) => PInv'
  BY <1>1, <1>2, LookKeeps, PhpMoves DEF Held
<1>4. \A h : \A s \in Selections : Good(h) /\ Full(s) /\ Php!SubmitFor(h, s) => PInv'
  BY PlainSendable, SubmitKeeps, PhpMoves DEF Good
<1>5. \A h : Good(h) /\ Php!Submit(h) => PInv'
  BY <1>1, <1>4 DEF Php!Submit
<1>6. \A v \in Items : <<v, "">> \in Selections /\ Full(<<v, "">>)
  BY <1>1, ItemSelected, PhpScopes
<1>7. ASSUME Php!selectVersion
      PROVE  PInv'
  <2>1. PICK v \in Items : Php!Look(tab, <<v, "">>, Php!PerVersion)
    BY <1>7 DEF Php!selectVersion
  <2> DEFINE s == <<v, "">>
  <2>2. s \in Selections /\ Full(s)
    BY <1>6
  <2>3. Look(tab, s, Php!PerVersion)
    BY <2>1, PhpMoves
  <2> HIDE DEF s
  <2>4. eye.name \in Php!PerVersion \/ Key(s) = Key(sel)
    BY <1>1, <2>2, NoScope, PhpScopes
  <2> QED
    BY <1>2, <2>2, <2>3, <2>4, LookKeeps DEF Held
<1>8. /\ Good(Php!handleSetDefaultCLI) /\ Good(Php!handleToggleExtension)
      /\ Good(Php!handleInstallExtension)
  BY DEF Good, Plain, Minding, HandlerFields, Wholes, Php!Change, Php!Flagged, Php!OfVersions,
         Php!handleSetDefaultCLI, Php!handleToggleExtension, Php!handleInstallExtension
<1>9. \A w, f : Good(Php!Flagged(Php!Forgetting(Php!Change(w, {})), f)) /\ Good(Php!Forgetting(Php!Change(w, {})))
  BY DEF Good, Plain, Minding, HandlerFields, Wholes, Php!Change, Php!Flagged, Php!Forgetting
<1>10. \A w, f : Good(Php!Flagged(Php!Change(w, w), f))
  BY DEF Good, Plain, Minding, HandlerFields, Wholes, Php!Change, Php!Flagged
<1>11. \A w, f : Good(Php!Flagged(Php!Optimistic(w), f)) /\ Good(Php!Optimistic(w))
  BY DEF Good, Plain, Minding, HandlerFields, Wholes, Php!Change, Php!Flagged, Php!Optimistic
<1>12. Good(Php!handleInstallVersion) /\ Good(Php!handleRemoveVersion)
  BY <1>9, <1>10 DEF Php!handleInstallVersion, Php!handleRemoveVersion, Php!OfVersions
<1>13. Good(Php!handleFpmAction) /\ Good(Php!saveDirective) /\ Good(Php!saveRaw)
  BY <1>9, <1>10, <1>11 DEF Php!handleFpmAction, Php!saveDirective, Php!saveRaw
<1>14. CASE Php!Header \/ Php!TabBar \/ Php!HealthTab
  BY <1>3, <1>7, <1>14
  DEF Php!Header, Php!TabBar, Php!HealthTab
<1>15. CASE Php!VersionsTab
  BY <1>4, <1>5, <1>6, <1>8, <1>12, <1>15
  DEF Php!Does, Php!VersionsTab
<1>16. CASE Php!ExtensionsTab \/ Php!IniTab \/ Php!FpmTab
  BY <1>3, <1>5, <1>8, <1>13, <1>16
  DEF Php!Does, Php!ExtensionsTab, Php!IniTab, Php!FpmTab
<1> QED
  BY <1>14, <1>15, <1>16 DEF Php!Acting

LEMMA DomainsScopes ==
  ASSUME page = "domains", Watched
  PROVE  /\ eye.scope = IF eye.name \in DomainsP!Managed THEN 1 ELSE 0
         /\ eye.name \in DomainsP!All \cup {"whois", "results"} \cup DomainsP!Managed
BY DEF Watched, DomainsP!Panes, DomainsP!Pane, DomainsP!All, DomainsP!Managed

LEMMA DomainsMoves ==
  /\ \A h, s : DomainsP!SubmitFor(h, s) => SubmitFor(h, s)
  /\ \A m : DomainsP!Open(m) => Open(m)
  /\ \A t, s, panes : DomainsP!Look(t, s, panes) => Look(t, s, panes)
  /\ \A m, s, clears, panes : DomainsP!OpenFor(m, s, clears, panes) => OpenFor(m, s, clears, panes)
<1>1. \A h, s : DomainsP!SubmitFor(h, s) => SubmitFor(h, s)
  BY DEF DomainsP!SubmitFor, SubmitFor, DomainsP!Unaware, Unaware, DomainsP!Idle, Idle,
         DomainsP!Room, Room, DomainsP!Sent, Sent, DomainsP!Passed, Passed, DomainsP!view, view
<1>2. \A m : DomainsP!Open(m) => Open(m)
  BY DEF DomainsP!Open, Open, DomainsP!Acts, Acts, DomainsP!Room, Room
<1>3. \A t, s, panes : DomainsP!Look(t, s, panes) => Look(t, s, panes)
  BY DEF DomainsP!Look, Look, DomainsP!Ask, Ask, DomainsP!Asked, Asked, DomainsP!Leaving, Leaving,
         DomainsP!Fetch, Fetch, DomainsP!Key, Key, DomainsP!Anticipated, Anticipated, DomainsP!Idle,
         Idle
<1>4. \A m, s, clears, panes : DomainsP!OpenFor(m, s, clears, panes) => OpenFor(m, s, clears, panes)
  <2>1. \A cs, changed : DomainsP!Unaware(cs, changed) = Unaware(cs, changed)
    BY DEF DomainsP!Unaware, Unaware, DomainsP!Idle, Idle
  <2>2. \A t, s : DomainsP!Leaving(t, s) = Leaving(t, s)
    BY DEF DomainsP!Leaving, Leaving, DomainsP!Idle, Idle
  <2>3. \A panes, s, astray : DomainsP!Asked(panes, s, astray) = Asked(panes, s, astray)
    BY DEF DomainsP!Asked, Asked, DomainsP!Fetch, Fetch, DomainsP!Key, Key, DomainsP!Anticipated,
           Anticipated
  <2>4. DomainsP!Passed(queue) = Passed(queue) /\ DomainsP!Empty = Empty /\ (DomainsP!Acts <=> Acts)
    BY DEF DomainsP!Passed, Passed, DomainsP!Empty, Empty, DomainsP!NoKey, NoKey, DomainsP!Acts,
           Acts, DomainsP!Room, Room
  <2> QED
    BY <2>1, <2>2, <2>3, <2>4 DEF DomainsP!OpenFor, OpenFor
<1> QED
  BY <1>1, <1>2, <1>3, <1>4

LEMMA DomainsKeeps ==
  ASSUME PInv, page = "domains", DomainsP!Acting
  PROVE  PInv'
<1>1. /\ sel \in Selections /\ Watched /\ Shapes /\ sel = <<sel[1], sel[2]>> /\ sel[1] \in Places
      /\ modal = "manage" => sel[1] # ""
  BY SelectionParts DEF PInv, Shapes, PageFits, Fits
<1>2. /\ \A t, s, m : Fits(t, s, m) <=> (m = "manage" => s[1] # "")
      /\ \A t, s, m : Kept(t, s, m) <=> /\ eye.name \in {"nameservers", "lock", "epp"} => m = "manage"
                                        /\ eye.name \in {"dns", "contacts"} => m = "manage" /\ s[2] = eye.name
  BY DEF Fits, Kept
<1>3. \A m : m # "manage" /\ DomainsP!Open(m) => PInv'
  BY <1>2, OpenKeeps, DomainsMoves DEF Held
<1>4. \A t, panes : DomainsP!Look(t, sel, panes) => PInv'
  BY <1>1, <1>2, LookKeeps, DomainsMoves DEF Held
<1>5. eye.name \notin DomainsP!Managed => \A s \in Selections : Full(s) /\ Key(s) = Key(sel)
  BY <1>1, DomainsScopes, NoScope
<1>6. \A h : Good(h) /\ h.toTab = "same" /\ h.writes \cap h.asks \cap DomainsP!Managed = {} /\ DomainsP!Submit(h) => PInv'
  <2> SUFFICES ASSUME NEW h, Good(h), h.toTab = "same", h.writes \cap h.asks \cap DomainsP!Managed = {},
                      DomainsP!Submit(h)
               PROVE  PInv'
    OBVIOUS
  <2>1. eye.name \in h.writes \cap h.asks => Full(sel)
    BY <1>1, <1>5
  <2>2. Sendable(h, sel)
    BY <1>1, <2>1, PlainSendable DEF Good
  <2> QED
    BY <2>2, SubmitKeeps, DomainsMoves DEF DomainsP!Submit
<1> DEFINE Fine(h) == Good(h) /\ h.toTab = "same" /\ h.writes \cap h.asks \cap DomainsP!Managed = {}
<1>7. /\ Fine(DomainsP!handleSaveNameservers) /\ Fine(DomainsP!handleAddDomainDns)
      /\ Fine(DomainsP!handleDeleteDomainDns)
  BY DEF Good, Plain, Minding, HandlerFields, Wholes, DomainsP!Managed, DomainsP!Change,
         DomainsP!Flagged, DomainsP!Local, DomainsP!Staying, DomainsP!Optimistic,
         DomainsP!Forgetting, DomainsP!Putting, DomainsP!fetchAllData, DomainsP!All,
         DomainsP!handleSaveNameservers, DomainsP!handleAddDomainDns, DomainsP!handleDeleteDomainDns
<1>8. /\ Fine(DomainsP!handleRenewDomain) /\ Fine(DomainsP!handleOrderRegistrationSubmit)
      /\ Fine(DomainsP!handleTransferSubmit)
  BY DEF Good, Plain, Minding, HandlerFields, Wholes, DomainsP!Managed, DomainsP!Change,
         DomainsP!Flagged, DomainsP!Local, DomainsP!Staying, DomainsP!Optimistic,
         DomainsP!Forgetting, DomainsP!Putting, DomainsP!fetchAllData, DomainsP!All,
         DomainsP!handleRenewDomain, DomainsP!handleOrderRegistrationSubmit,
         DomainsP!handleTransferSubmit
<1>9. Fine(DomainsP!handleToggleLock)
  <2>1. Fine(DomainsP!Staying(DomainsP!Flagged(DomainsP!Forgetting(DomainsP!Change({"registered"}, {})), "lock")))
    BY DEF Good, Plain, Minding, HandlerFields, Wholes, DomainsP!Managed, DomainsP!Change,
           DomainsP!Flagged, DomainsP!Staying, DomainsP!Forgetting
  <2>2. Fine(DomainsP!Staying(DomainsP!Flagged(DomainsP!Putting(DomainsP!Local({"lock"})), "lock")))
    BY DEF Good, Plain, Minding, HandlerFields, Wholes, DomainsP!Managed, DomainsP!Change,
           DomainsP!Flagged, DomainsP!Staying, DomainsP!Putting, DomainsP!Local
  <2> QED
    BY <2>1, <2>2 DEF DomainsP!handleToggleLock
<1> HIDE DEF Fine
<1>10. \A h : Fine(h) /\ DomainsP!Submit(h) => PInv'
  BY <1>6 DEF Fine
<1>11. ASSUME NEW d \in Items, DomainsP!openManageModal(d)
       PROVE  PInv'
  <2> DEFINE s == <<d, "nameservers">>
             c == {"nameservers", "lock", "epp"}
             f == {"nameservers", "lock"}
  <2>1. s \in Selections /\ s[1] # "" /\ s[2] = "nameservers"
    BY ItemsAreNamed, PairParts DEF Selections, Places
  <2>2. OpenFor("manage", s, c, f)
    BY <1>11, DomainsMoves DEF DomainsP!openManageModal
  <2> HIDE DEF s
  <2>3. Kept(tab, s, "manage") => \/ eye.name \in c \/ (eye.name \in f /\ Full(s))
                                  \/ Held /\ Key(s) = Key(sel)
    <3>1. CASE eye.name \in DomainsP!Managed
      BY <1>2, <2>1, <3>1 DEF DomainsP!Managed
    <3>2. CASE eye.name \notin DomainsP!Managed
      BY <1>2, <1>5, <2>1, <3>2 DEF Held, DomainsP!Managed
    <3> QED
      BY <3>1, <3>2
  <2> HIDE DEF c, f
  <2> QED
    BY <1>2, <2>1, <2>2, <2>3, OpenForKeeps
<1>12. ASSUME DomainsP!handleWhoisLookup
       PROVE  PInv'
  <2>1. OpenFor("none", sel, {"whois"}, {"whois"})
    BY <1>12, DomainsMoves DEF DomainsP!handleWhoisLookup
  <2>2. Kept(tab, sel, "none") => Held
    BY NoModal DEF Held
  <2> QED
    BY <1>1, <1>2, <2>1, <2>2, OpenForKeeps
<1>13. ASSUME DomainsP!SubTabs
       PROVE  PInv'
  <2>1. PICK t \in {"nameservers", "dns", "security", "renew", "contacts"} :
          DomainsP!Look(tab, <<sel[1], t>>, CASE t = "dns" -> {"dns"} [] t = "contacts" -> {"contacts"} [] OTHER -> {})
    BY <1>13 DEF DomainsP!SubTabs, DomainsP!handleLoadDomainDns, DomainsP!handleLoadContacts
  <2> DEFINE s == <<sel[1], t>>
             f == CASE t = "dns" -> {"dns"} [] t = "contacts" -> {"contacts"} [] OTHER -> {}
  <2>2. modal = "manage" /\ sel[1] # ""
    BY <1>1, <1>13 DEF DomainsP!SubTabs, DomainsP!Within
  <2>3. s \in Selections /\ s[1] = sel[1] /\ s[2] = t
    BY <1>1, <2>1, PairParts DEF Selections, Places
  <2>4. Look(tab, s, f)
    BY <2>1, DomainsMoves
  <2>5. t = eye.name /\ eye.name \in {"dns", "contacts"} => eye.name \in f
    BY <2>1
  <2> HIDE DEF s, f
  <2>6. Key(s) = Key(sel) /\ Full(s)
    <3>1. eye.scope \in {0, 1}
      BY <1>1, DomainsScopes
    <3>2. \A i \in 1..eye.scope : s[i] = sel[i]
      BY <2>3, <3>1
    <3>3. Key(s) = Key(sel)
      <4>1. eye.scope \in 0..2
        BY <3>1
      <4>2. s \in Selections /\ sel \in Selections
        BY <1>1, <2>3
      <4> QED
        BY <3>2, <4>1, <4>2, SameKey
    <3>4. s[1] # ""
      BY <2>2, <2>3
    <3>5. Full(s)
      BY <3>1, <3>4, FullIs
    <3> QED
      BY <3>3, <3>5
  <2>7. Kept(tab, s, modal) => (eye.name \in f /\ Full(s)) \/ (Held /\ Key(s) = Key(sel))
    <3>1. CASE eye.name \in {"dns", "contacts"}
      BY <1>2, <2>3, <2>5, <2>6, <3>1
    <3>2. CASE eye.name \notin {"dns", "contacts"}
      BY <1>2, <2>6, <3>2 DEF Held
    <3> QED
      BY <3>1, <3>2
  <2> QED
    BY <1>2, <2>2, <2>3, <2>4, <2>7, LookKeeps
<1>14. CASE \/ DomainsP!TabBar \/ DomainsP!RegisteredTab \/ DomainsP!SearchTab
            \/ DomainsP!TransferTab \/ DomainsP!HostedTab \/ DomainsP!WhoisTab
  BY <1>3, <1>4, <1>8, <1>10, <1>11, <1>12, <1>14
  DEF DomainsP!Does, DomainsP!TabBar, DomainsP!Refresh, DomainsP!RegisteredTab, DomainsP!SearchTab,
      DomainsP!TransferTab, DomainsP!HostedTab, DomainsP!WhoisTab
<1>15. CASE DomainsP!ManageModal \/ DomainsP!OrderModal
  BY <1>4, <1>7, <1>8, <1>9, <1>10, <1>15
  DEF DomainsP!In, DomainsP!ManageModal, DomainsP!OrderModal, DomainsP!NameserverForm,
      DomainsP!DnsTab, DomainsP!SecurityTab, DomainsP!RenewTab
<1> QED
  BY <1>13, <1>14, <1>15 DEF DomainsP!Acting

LEMMA SupportScopes ==
  ASSUME page = "support", Watched
  PROVE  eye.scope = IF eye.name = "thread" THEN 1 ELSE 0
BY DEF Watched, Support!Panes, Support!Pane, Support!Leader, Support!All

LEMMA SupportMoves ==
  /\ \A h, s : Support!SubmitFor(h, s) => SubmitFor(h, s)
  /\ \A m : Support!Open(m) => Open(m)
  /\ \A t, s, panes : Support!Look(t, s, panes) => Look(t, s, panes)
  /\ \A m, s, clears, panes : Support!OpenFor(m, s, clears, panes) => OpenFor(m, s, clears, panes)
<1>1. \A h, s : Support!SubmitFor(h, s) => SubmitFor(h, s)
  BY DEF Support!SubmitFor, SubmitFor, Support!Unaware, Unaware, Support!Idle, Idle, Support!Room,
         Room, Support!Sent, Sent, Support!Passed, Passed, Support!view, view
<1>2. \A m : Support!Open(m) => Open(m)
  BY DEF Support!Open, Open, Support!Acts, Acts, Support!Room, Room
<1>3. \A t, s, panes : Support!Look(t, s, panes) => Look(t, s, panes)
  BY DEF Support!Look, Look, Support!Ask, Ask, Support!Asked, Asked, Support!Leaving, Leaving,
         Support!Fetch, Fetch, Support!Key, Key, Support!Anticipated, Anticipated, Support!Idle,
         Idle
<1>4. \A m, s, clears, panes : Support!OpenFor(m, s, clears, panes) => OpenFor(m, s, clears, panes)
  <2>1. \A cs, changed : Support!Unaware(cs, changed) = Unaware(cs, changed)
    BY DEF Support!Unaware, Unaware, Support!Idle, Idle
  <2>2. \A t, s : Support!Leaving(t, s) = Leaving(t, s)
    BY DEF Support!Leaving, Leaving, Support!Idle, Idle
  <2>3. \A panes, s, astray : Support!Asked(panes, s, astray) = Asked(panes, s, astray)
    BY DEF Support!Asked, Asked, Support!Fetch, Fetch, Support!Key, Key, Support!Anticipated,
           Anticipated
  <2>4. Support!Passed(queue) = Passed(queue) /\ Support!Empty = Empty /\ (Support!Acts <=> Acts)
    BY DEF Support!Passed, Passed, Support!Empty, Empty, Support!NoKey, NoKey, Support!Acts, Acts,
           Support!Room, Room
  <2> QED
    BY <2>1, <2>2, <2>3, <2>4 DEF Support!OpenFor, OpenFor
<1> QED
  BY <1>1, <1>2, <1>3, <1>4

LEMMA SupportKeeps ==
  ASSUME PInv, page = "support", Support!Acting
  PROVE  PInv'
<1>1. sel \in Selections /\ Watched
  BY DEF PInv, Shapes
<1>2. /\ \A t, s, m : Fits(t, s, m)
      /\ \A t, s, m : Kept(t, s, m) <=> (eye.name = "thread" => m = "thread")
  BY DEF Fits, Kept
<1>3. \A m : m # "thread" /\ Support!Open(m) => PInv'
  BY <1>2, OpenKeeps, SupportMoves DEF Held
<1>4. \A t, panes : Support!Look(t, sel, panes) => PInv'
  BY <1>1, <1>2, LookKeeps, SupportMoves DEF Held
<1>5. eye.name # "thread" => \A s \in Selections : Full(s) /\ Key(s) = Key(sel)
  BY <1>1, SupportScopes, NoScope
<1>6. \A h : Good(h) /\ h.asks = {} /\ Support!Submit(h) => PInv'
  <2> SUFFICES ASSUME NEW h, Good(h), h.asks = {}, Support!Submit(h)
               PROVE  PInv'
    OBVIOUS
  <2>1. Sendable(h, sel)
    BY <1>1, PlainSendable DEF Good
  <2> QED
    BY <2>1, SubmitKeeps, SupportMoves DEF Support!Submit
<1> DEFINE Fine(h) == Good(h) /\ h.asks = {}
<1>7. \A w, f : Fine(Support!Staying(Support!Flagged(Support!Unchecked(Support!Putting(Support!Local(w))), f)))
  BY DEF Good, Plain, Minding, HandlerFields, Wholes, Support!Change, Support!Flagged,
         Support!Local, Support!Staying, Support!Unchecked, Support!Putting
<1>8. \A w, f : Fine(Support!Staying(Support!Flagged(Support!Forgetting(Support!Change(w, {})), f)))
  BY DEF Good, Plain, Minding, HandlerFields, Wholes, Support!Change, Support!Flagged,
         Support!Staying, Support!Forgetting
<1>9. \A h \in Support!handleSendReply : Fine(h)
  BY <1>7, <1>8 DEF Support!handleSendReply, Support!Counted
<1>10. \A w : Fine(Support!Staying(Support!Unchecked(Support!Local(w)))) /\ Fine(Support!Staying(Support!Forgetting(Support!Change(w, {}))))
  BY DEF Good, Plain, Minding, HandlerFields, Wholes, Support!Change, Support!Local,
         Support!Unchecked, Support!Staying, Support!Forgetting
<1>11. Fine(Support!handleCloseTicket) /\ Fine(Support!handleVoteArticle)
  BY <1>10 DEF Support!handleCloseTicket, Support!handleVoteArticle, Support!Counted
<1>12. \A w, f : Fine(Support!Flagged(Support!Local(w), f)) /\ Fine(Support!Flagged(Support!Forgetting(Support!Change(w, {})), f))
  BY DEF Good, Plain, Minding, HandlerFields, Wholes, Support!Change, Support!Local,
         Support!Flagged, Support!Forgetting
<1>13. Fine(Support!handleCreateTicket) /\ Fine(Support!handleAskAI)
  <2>1. Fine(Support!Flagged(Support!Change({}, {}), "ask"))
    BY DEF Good, Plain, Minding, HandlerFields, Wholes, Support!Change, Support!Flagged
  <2> QED
    BY <1>12, <2>1 DEF Support!handleCreateTicket, Support!handleAskAI, Support!Counted
<1> HIDE DEF Fine
<1>14. \A h : Fine(h) /\ Support!Submit(h) => PInv'
  BY <1>6 DEF Fine
<1>15. ASSUME NEW t \in Items, Support!handleOpenTicket(t)
       PROVE  PInv'
  <2> DEFINE s == <<t, "">>
  <2>1. s \in Selections /\ (eye.scope = 1 => Full(s))
    BY ItemSelected
  <2>2. OpenFor("thread", s, {}, {"thread"})
    BY <1>15, SupportMoves DEF Support!handleOpenTicket
  <2> HIDE DEF s
  <2>3. Kept(tab, s, "thread") => \/ eye.name \in {} \/ (eye.name \in {"thread"} /\ Full(s))
                                  \/ Held /\ Key(s) = Key(sel)
    <3>1. CASE eye.name = "thread"
      BY <1>1, <2>1, <3>1, SupportScopes
    <3>2. CASE eye.name # "thread"
      BY <1>2, <1>5, <2>1, <3>2 DEF Held
    <3> QED
      BY <3>1, <3>2
  <2> QED
    BY <1>2, <2>1, <2>2, <2>3, OpenForKeeps
<1>16. CASE \/ Support!TabBar \/ Support!Header \/ Support!TicketTable \/ Support!Assistant
            \/ Support!Articles
  BY <1>3, <1>4, <1>13, <1>14, <1>15, <1>16
  DEF Support!Does, Support!TabBar, Support!Header, Support!TicketTable, Support!Assistant,
      Support!Articles
<1>17. CASE Support!ThreadModal \/ Support!CreateModal \/ Support!ArticleModal
  BY <1>9, <1>11, <1>13, <1>14, <1>17
  DEF Support!In, Support!ThreadModal, Support!CreateModal, Support!ArticleModal
<1> QED
  BY <1>16, <1>17 DEF Support!Acting

LEMMA WebServersScopes ==
  ASSUME page = "webservers", Watched
  PROVE  /\ eye.name \in {"servers", "websites", "engines", "conflicts", "config"}
         /\ eye.name \in {"servers", "websites"} => eye.scope = 0
         /\ eye.name \in {"engines", "conflicts"} => eye.scope = 1
         /\ eye.name = "config" => eye.scope = 2
         /\ eye.scope \in 0..2
BY DEF Watched, WebServers!Panes, WebServers!Pane

(* What a page goes to is fetched, or was on screen before.                *)
LEMMA WebServersLands ==
  ASSUME page = "webservers", Watched, sel \in Selections, NEW t, NEW s \in Selections, NEW m,
         s[2] # "", s[1] # "" \/ s = sel, Kept(t, s, m)
  PROVE  (eye.name \in WebServers!Effects(t, s) /\ Full(s)) \/ (Held /\ Key(s) = Key(sel))
<1>1. Held <=> (eye.name = "config" => tab = "config" \/ sel[1] = "")
  BY DEF Held, Kept
<1>2. CASE eye.name \in {"servers", "websites"}
  <2>1. Key(s) = Key(sel)
    BY <1>2, NoScope, WebServersScopes
  <2> QED
    BY <1>1, <1>2, <2>1
<1>3. CASE eye.name \in {"engines", "conflicts"}
  <2>1. eye.scope = 1
    BY <1>3, WebServersScopes
  <2>2. CASE s[1] = sel[1]
    <3>1. \A i \in 1..eye.scope : s[i] = sel[i]
      BY <2>1, <2>2, Parts
    <3>2. Key(s) = Key(sel)
      <4>1. eye.scope \in 0..2
        BY WebServersScopes
      <4> QED
        BY <3>1, <4>1, SameKey
    <3> QED
      BY <1>1, <1>3, <3>2
  <2>3. CASE s[1] # sel[1]
    <3>1. Full(s)
      BY <2>1, <2>3, FullIs
    <3>2. eye.name \in WebServers!Effects(t, s)
      BY <1>3, <2>3 DEF WebServers!Effects, WebServers!Data
    <3> QED
      BY <3>1, <3>2
  <2> QED
    BY <2>2, <2>3
<1>4. CASE eye.name = "config"
  <2>1. eye.scope = 2
    BY <1>4, WebServersScopes
  <2>2. CASE s = sel /\ t = tab
    BY <1>1, <1>4, <2>2 DEF Kept
  <2>3. CASE s = sel /\ s[1] = ""
    BY <1>1, <2>3
  <2>4. CASE s[1] # "" /\ (t # tab \/ s # sel)
    <3>1. Full(s)
      BY <2>1, <2>4, FullIs
    <3>2. t = "config"
      BY <1>4, <2>4 DEF Kept
    <3>3. eye.name \in WebServers!Effects(t, s)
      BY <1>4, <2>4, <3>2 DEF WebServers!Effects
    <3> QED
      BY <3>1, <3>3
  <2> QED
    BY <2>2, <2>3, <2>4
<1> QED
  BY <1>2, <1>3, <1>4, WebServersScopes

LEMMA WebServersMoves ==
  /\ \A h, s : WebServers!SubmitFor(h, s) => SubmitFor(h, s)
  /\ \A m : WebServers!Open(m) => Open(m)
  /\ \A t, s, panes : WebServers!Look(t, s, panes) => Look(t, s, panes)
<1>1. \A h, s : WebServers!SubmitFor(h, s) => SubmitFor(h, s)
  BY DEF WebServers!SubmitFor, SubmitFor, WebServers!Unaware, Unaware, WebServers!Idle, Idle,
         WebServers!Room, Room, WebServers!Sent, Sent, WebServers!Passed, Passed, WebServers!view,
         view
<1>2. \A m : WebServers!Open(m) => Open(m)
  BY DEF WebServers!Open, Open, WebServers!Acts, Acts, WebServers!Room, Room
<1>3. \A t, s, panes : WebServers!Look(t, s, panes) => Look(t, s, panes)
  BY DEF WebServers!Look, Look, WebServers!Ask, Ask, WebServers!Asked, Asked, WebServers!Leaving,
         Leaving, WebServers!Fetch, Fetch, WebServers!Key, Key, WebServers!Anticipated, Anticipated,
         WebServers!Idle, Idle
<1> QED
  BY <1>1, <1>2, <1>3

LEMMA WebServersKeeps ==
  ASSUME PInv, page = "webservers", WebServers!Acting
  PROVE  PInv'
<1>1. /\ sel \in Selections /\ Watched /\ sel = <<sel[1], sel[2]>> /\ sel[1] \in Places /\ sel[2] \in Places
      /\ sel[2] # ""
  BY SelectionParts DEF PInv, Shapes, PageFits, Fits
<1>2. \A t, s, m : Fits(t, s, m) <=> s[2] # ""
  BY DEF Fits
<1>3. \A t : \A s \in Selections :
        s[2] # "" /\ (s[1] # "" \/ s = sel) /\ WebServers!Go(t, s) => PInv'
  BY <1>1, <1>2, LookKeeps, WebServersMoves, WebServersLands DEF WebServers!Go
<1>4. \A panes : WebServers!Look(tab, sel, panes) => PInv'
  BY <1>1, <1>2, LookKeeps, WebServersMoves DEF Held
<1>5. \A v \in Items : WebServers!Go(tab, <<v, sel[2]>>) => PInv'
  <2> SUFFICES ASSUME NEW v \in Items, WebServers!Go(tab, <<v, sel[2]>>)
               PROVE  PInv'
    OBVIOUS
  <2>1. <<v, sel[2]>> \in Selections /\ <<v, sel[2]>>[1] # "" /\ <<v, sel[2]>>[2] # ""
    BY <1>1, ItemsAreNamed, PairParts DEF Selections, Places
  <2> QED
    BY <1>3, <2>1
<1>6. \A e \in Items : sel[1] # "" /\ WebServers!Go(tab, <<sel[1], e>>) => PInv'
  <2> SUFFICES ASSUME NEW e \in Items, sel[1] # "", WebServers!Go(tab, <<sel[1], e>>)
               PROVE  PInv'
    OBVIOUS
  <2>1. <<sel[1], e>> \in Selections /\ <<sel[1], e>>[1] # "" /\ <<sel[1], e>>[2] # ""
    BY <1>1, ItemsAreNamed, PairParts DEF Selections, Places
  <2> QED
    BY <1>3, <2>1
<1>7. \A h : Good(h) /\ sel[1] # "" /\ WebServers!Submit(h) => PInv'
  <2> SUFFICES ASSUME NEW h, Good(h), sel[1] # "", WebServers!Submit(h)
               PROVE  PInv'
    OBVIOUS
  <2>1. Full(sel)
    BY <1>1, FullIs, WebServersScopes
  <2>2. Sendable(h, sel)
    BY <1>1, <2>1, PlainSendable DEF Good
  <2> QED
    BY <2>2, SubmitKeeps, WebServersMoves DEF WebServers!Submit
<1>8. /\ Good(WebServers!handleSaveConfig) /\ Good(WebServers!handleServiceAction)
      /\ Good(WebServers!handleInstall) /\ Good(WebServers!handleUninstall)
      /\ Good(WebServers!handleExecuteMigration) /\ Good(WebServers!handleSwitchWebsite)
      /\ Good(WebServers!handleInspectVHost)
  BY DEF Good, Plain, Minding, HandlerFields, Wholes, WebServers!Change, WebServers!Flagged,
         WebServers!Optimistic, WebServers!fetchServerData, WebServers!Data,
         WebServers!handleSaveConfig, WebServers!handleServiceAction, WebServers!handleInstall,
         WebServers!handleUninstall, WebServers!handleExecuteMigration,
         WebServers!handleSwitchWebsite, WebServers!handleInspectVHost
<1>9. CASE WebServers!loadServers
  BY <1>5, <1>9
  DEF WebServers!loadServers
<1>10. CASE /\ sel[1] # ""
            /\ \/ WebServers!Header \/ WebServers!TabBar \/ WebServers!EngineCards
               \/ WebServers!VHostsTab \/ WebServers!MigrationTab \/ WebServers!ConfigTab
  BY <1>1, <1>3, <1>4, <1>5, <1>6, <1>7, <1>8, <1>10
  DEF WebServers!Does, WebServers!Header, WebServers!TabBar, WebServers!EngineCards,
      WebServers!VHostsTab, WebServers!MigrationTab, WebServers!ConfigTab,
      WebServers!loadMasterConfig
<1> QED
  BY <1>9, <1>10 DEF WebServers!Acting

LEMMA WebsitesScopes ==
  ASSUME page = "websites", Watched
  PROVE  eye.scope = IF eye.name = "isolation" THEN 1 ELSE 0
BY DEF Watched, Websites!Panes, Websites!Pane

LEMMA WebsitesMoves ==
  /\ \A h, s : Websites!SubmitFor(h, s) => SubmitFor(h, s)
  /\ \A m : Websites!Open(m) => Open(m)
  /\ \A t, s, panes : Websites!Look(t, s, panes) => Look(t, s, panes)
  /\ \A m, s, clears, panes : Websites!OpenFor(m, s, clears, panes) => OpenFor(m, s, clears, panes)
<1>1. \A h, s : Websites!SubmitFor(h, s) => SubmitFor(h, s)
  BY DEF Websites!SubmitFor, SubmitFor, Websites!Unaware, Unaware, Websites!Idle, Idle,
         Websites!Room, Room, Websites!Sent, Sent, Websites!Passed, Passed, Websites!view, view
<1>2. \A m : Websites!Open(m) => Open(m)
  BY DEF Websites!Open, Open, Websites!Acts, Acts, Websites!Room, Room
<1>3. \A t, s, panes : Websites!Look(t, s, panes) => Look(t, s, panes)
  BY DEF Websites!Look, Look, Websites!Ask, Ask, Websites!Asked, Asked, Websites!Leaving, Leaving,
         Websites!Fetch, Fetch, Websites!Key, Key, Websites!Anticipated, Anticipated, Websites!Idle,
         Idle
<1>4. \A m, s, clears, panes : Websites!OpenFor(m, s, clears, panes) => OpenFor(m, s, clears, panes)
  <2>1. \A cs, changed : Websites!Unaware(cs, changed) = Unaware(cs, changed)
    BY DEF Websites!Unaware, Unaware, Websites!Idle, Idle
  <2>2. \A t, s : Websites!Leaving(t, s) = Leaving(t, s)
    BY DEF Websites!Leaving, Leaving, Websites!Idle, Idle
  <2>3. \A panes, s, astray : Websites!Asked(panes, s, astray) = Asked(panes, s, astray)
    BY DEF Websites!Asked, Asked, Websites!Fetch, Fetch, Websites!Key, Key, Websites!Anticipated,
           Anticipated
  <2>4. Websites!Passed(queue) = Passed(queue) /\ Websites!Empty = Empty /\ (Websites!Acts <=> Acts)
    BY DEF Websites!Passed, Passed, Websites!Empty, Empty, Websites!NoKey, NoKey, Websites!Acts,
           Acts, Websites!Room, Room
  <2> QED
    BY <2>1, <2>2, <2>3, <2>4 DEF Websites!OpenFor, OpenFor
<1> QED
  BY <1>1, <1>2, <1>3, <1>4

LEMMA WebsitesKeeps ==
  ASSUME PInv, page = "websites", Websites!Acting
  PROVE  PInv'
<1>1. sel \in Selections /\ Watched
  BY DEF PInv, Shapes
<1>2. /\ \A t, s, m : Fits(t, s, m) <=> (m = "isolation" => s[1] # "")
      /\ \A t, s, m : Kept(t, s, m) <=> (eye.name = "isolation" => m = "isolation")
  BY DEF Fits, Kept
<1>3. \A m : m # "isolation" /\ Websites!Open(m) => PInv'
  BY <1>2, OpenKeeps, WebsitesMoves DEF Held
<1>4. eye.name # "isolation" => \A s \in Selections : Full(s) /\ Key(s) = Key(sel)
  BY <1>1, WebsitesScopes, NoScope
<1>5. \A h : Good(h) /\ "isolation" \notin h.asks /\ Websites!Submit(h) => PInv'
  <2> SUFFICES ASSUME NEW h, Good(h), "isolation" \notin h.asks, Websites!Submit(h)
               PROVE  PInv'
    OBVIOUS
  <2>1. eye.name \in h.writes \cap h.asks => Full(sel)
    BY <1>1, <1>4
  <2>2. Sendable(h, sel)
    BY <1>1, <2>1, PlainSendable DEF Good
  <2> QED
    BY <2>2, SubmitKeeps, WebsitesMoves DEF Websites!Submit
<1> DEFINE Fine(h) == Good(h) /\ "isolation" \notin h.asks
<1>6. /\ Fine(Websites!handleSyncDomains) /\ Fine(Websites!handleToggleStatus)
      /\ Fine(Websites!handleCreateWebsite) /\ Fine(Websites!handleTriggerBackup)
      /\ Fine(Websites!handleSwitchPhp) /\ Fine(Websites!handleIssueSsl)
      /\ Fine(Websites!handleToggleWaf) /\ Fine(Websites!confirmDeleteWebsite)
      /\ Fine(Websites!handleNginxAction) /\ Fine(Websites!handleRepairAllRouting)
      /\ Fine(Websites!onInstalled)
  BY DEF Good, Plain, Minding, HandlerFields, Wholes, Websites!Change, Websites!Flagged,
         Websites!Local, Websites!Optimistic, Websites!Unchecked, Websites!Staying,
         Websites!Patching, Websites!fetchData, Websites!handleSyncDomains,
         Websites!handleToggleStatus, Websites!handleCreateWebsite, Websites!handleTriggerBackup,
         Websites!handleSwitchPhp, Websites!handleIssueSsl, Websites!handleToggleWaf,
         Websites!confirmDeleteWebsite, Websites!handleNginxAction, Websites!handleRepairAllRouting,
         Websites!onInstalled
<1>7. \A h \in Websites!handleExecuteBatch : Fine(h)
  <2>1. /\ Fine(Websites!Flagged(Websites!Unchecked(Websites!Change(Websites!fetchData, Websites!fetchData)), "batch"))
        /\ Fine(Websites!Flagged(Websites!Optimistic({"sites"}), "batch"))
    BY DEF Good, Plain, Minding, HandlerFields, Wholes, Websites!Change, Websites!Flagged,
           Websites!Optimistic, Websites!Unchecked, Websites!fetchData
  <2> QED
    BY <2>1 DEF Websites!handleExecuteBatch
<1>8. Good(Websites!handleSaveIsolation)
  BY DEF Good, Plain, Minding, HandlerFields, Wholes, Websites!Change, Websites!Flagged,
         Websites!Staying, Websites!handleSaveIsolation
<1> HIDE DEF Fine
<1>9. \A h : Fine(h) /\ Websites!Submit(h) => PInv'
  BY <1>5 DEF Fine
<1>10. CASE Websites!IsolationModal
  <2>1. modal = "isolation" /\ Websites!Submit(Websites!handleSaveIsolation)
    BY <1>10 DEF Websites!IsolationModal, Websites!In
  <2>2. Full(sel)
    <3>1. sel[1] # ""
      BY <1>2, <2>1 DEF PInv, PageFits
    <3> QED
      BY <1>1, <3>1, FullIs, WebsitesScopes
  <2>3. Sendable(Websites!handleSaveIsolation, sel)
    BY <1>1, <1>8, <2>2, PlainSendable DEF Good
  <2> QED
    BY <2>1, <2>3, SubmitKeeps, WebsitesMoves DEF Websites!Submit
<1>11. \A m : m # "isolation" /\ Websites!openModal(m) => PInv'
  <2> SUFFICES ASSUME NEW m, m # "isolation", NEW w \in Items, Websites!OpenFor(m, <<w, "">>, {}, {})
               PROVE  PInv'
    BY DEF Websites!openModal
  <2> DEFINE s == <<w, "">>
  <2>1. s \in Selections
    BY ItemSelected
  <2>2. OpenFor(m, s, {}, {})
    BY WebsitesMoves
  <2> HIDE DEF s
  <2>3. Kept(tab, s, m) => \/ eye.name \in {} \/ (eye.name \in {} /\ Full(s))
                           \/ Held /\ Key(s) = Key(sel)
    BY <1>2, <1>4, <2>1 DEF Held
  <2> QED
    BY <1>2, <2>1, <2>2, <2>3, OpenForKeeps
<1>12. Websites!openIsolationModal => PInv'
  <2> SUFFICES ASSUME NEW w \in Items, Websites!OpenFor("isolation", <<w, "">>, {}, {"isolation"})
               PROVE  PInv'
    BY DEF Websites!openIsolationModal
  <2> DEFINE s == <<w, "">>
  <2>1. s \in Selections /\ s[1] # "" /\ (eye.scope = 1 => Full(s))
    BY ItemSelected, ItemsAreNamed, PairParts
  <2>2. OpenFor("isolation", s, {}, {"isolation"})
    BY WebsitesMoves
  <2> HIDE DEF s
  <2>3. Kept(tab, s, "isolation") => \/ eye.name \in {} \/ (eye.name \in {"isolation"} /\ Full(s))
                                     \/ Held /\ Key(s) = Key(sel)
    BY <1>1, <1>2, <1>4, <2>1, WebsitesScopes DEF Held
  <2> QED
    BY <1>2, <2>1, <2>2, <2>3, OpenForKeeps
<1>13. Websites!statsEffect => PInv'
  <2> SUFFICES ASSUME OpenFor("statistics", sel, {}, {"statistics"})
               PROVE  PInv'
    BY WebsitesMoves DEF Websites!statsEffect
  <2>1. Kept(tab, sel, "statistics") => Held
    <3>1. Kept(tab, sel, "statistics") => eye.name # "isolation"
      <4>1. \A m : m # "isolation" => (Kept(tab, sel, m) => eye.name # "isolation")
        BY <1>2
      <4>2. "statistics" # "isolation"
        OBVIOUS
      <4> QED
        BY <4>1, <4>2
    <3>2. eye.name # "isolation" => Kept(tab, sel, modal)
      BY <1>2
    <3> QED
      BY <3>1, <3>2 DEF Held
  <2> QED
    BY <1>1, <1>2, <2>1, OpenForKeeps
<1>14. CASE Websites!ControlCenter \/ Websites!Toolbar \/ Websites!UnlinkedBanner
  BY <1>3, <1>6, <1>9, <1>13, <1>14
  DEF Websites!Does, Websites!ControlCenter, Websites!Toolbar, Websites!UnlinkedBanner
<1>15. CASE \/ Websites!StatusCell \/ Websites!BackupCell \/ Websites!QuickActions
            \/ Websites!SslCell \/ Websites!WafCell \/ Websites!BatchBar \/ Websites!ActionMenu
  BY <1>6, <1>7, <1>9, <1>11, <1>12, <1>15
  DEF Websites!Does, Websites!StatusCell, Websites!BackupCell, Websites!QuickActions,
      Websites!SslCell, Websites!WafCell, Websites!BatchBar, Websites!ActionMenu
<1>16. CASE \/ Websites!AddSiteModal \/ Websites!BackupModal \/ Websites!PhpModal
            \/ Websites!SslModal \/ Websites!NginxModal \/ Websites!InstallerModal
            \/ Websites!DeleteModal
  BY <1>6, <1>9, <1>16
  DEF Websites!In, Websites!AddSiteModal, Websites!BackupModal, Websites!PhpModal,
      Websites!SslModal, Websites!NginxModal, Websites!InstallerModal, Websites!DeleteModal
<1> QED
  BY <1>10, <1>14, <1>15, <1>16 DEF Websites!Acting

LEMMA EmailScopes ==
  ASSUME page = "email", Watched
  PROVE  /\ eye.scope = IF eye.name \in {"smtp", "health", "records", "limits", "probe"} THEN 1 ELSE 0
         /\ eye.name \in {"domains", "mailboxes", "servers", "queue", "rateControl", "logs", "suppressions",
                          "services", "smtp", "health", "records", "limits", "probe"}
         /\ eye.scope \in 0..2
BY DEF Watched, Email!Panes, Email!Pane

(* A handler that may lead to a domain, or open the modal of its records.  *)
Mailing(h) ==
  /\ DOMAIN h = HandlerFields /\ "done" \in h.goesOn
  /\ h.visits = "" /\ ~h.whole /\ h.before = {} /\ h.toSel \in Goals
  /\ \/ h.toSel[1] = "same"
     \/ h.toSel[1] # "" /\ (eye.name \in {"smtp", "health"} \/ eye.name \in h.clears)
  /\ eye.name \in h.clears => eye.name = "records" /\ h.toSel[1] \notin {"", "same"}
  /\ h.opens \in {"none", "verified", "dns"} /\ h.toTab \in {"same", "servers"}
  /\ h.opens = "dns" /\ eye.name = "records" => eye.name \in h.clears

LEMMA MailingSendable ==
  ASSUME page = "email", NEW s \in Selections, NEW h, Mailing(h),
         eye.name \in h.writes => \/ eye.name \in h.after \/ eye.name \in h.clears
                                  \/ eye.name \in h.asks /\ Full(s)
  PROVE  Sendable(h, s)
<1> DEFINE g == Sent(h, s, modal).h
<1>1. Trimmed(g, h)
  BY SentIs DEF Mailing
<1> HIDE DEF g
<1>2. HandlerFits(g)
  <2>1. Mine(g.writes) /\ Mine(g.asks) /\ Mine(g.before) /\ Mine(g.after) /\ Mine(g.clears)
        /\ Mine(g.follows) /\ Mine(g.orElse)
    BY <1>1 DEF Trimmed, Mine
  <2>2. /\ g.visits = "" /\ "done" \in g.goesOn /\ "" \in Places /\ ~g.whole /\ g.before = {}
        /\ g.opens = h.opens /\ g.toTab = h.toTab /\ g.toSel = h.toSel /\ h.toSel \in Goals
    BY <1>1 DEF Trimmed, Mailing, Places
  <2>3. g.clears # {} <=> eye.name \in h.clears
    BY <1>1 DEF Trimmed
  <2> QED
    BY <2>1, <2>2, <2>3 DEF HandlerFits, Mailing
<1>3. Minds(g, s)
  BY <1>1 DEF Trimmed, Minds
<1> QED
  BY <1>1, <1>2, <1>3 DEF Sendable, Trimmed, Mailing, g

LEMMA EmailMoves ==
  /\ \A h, s : Email!SubmitFor(h, s) => SubmitFor(h, s)
  /\ \A m : Email!Open(m) => Open(m)
  /\ \A t, s, panes : Email!Look(t, s, panes) => Look(t, s, panes)
  /\ \A m, s, clears, panes : Email!OpenFor(m, s, clears, panes) => OpenFor(m, s, clears, panes)
<1>1. \A h, s : Email!SubmitFor(h, s) => SubmitFor(h, s)
  BY DEF Email!SubmitFor, SubmitFor, Email!Unaware, Unaware, Email!Idle, Idle, Email!Room, Room,
         Email!Sent, Sent, Email!Passed, Passed, Email!view, view
<1>2. \A m : Email!Open(m) => Open(m)
  BY DEF Email!Open, Open, Email!Acts, Acts, Email!Room, Room
<1>3. \A t, s, panes : Email!Look(t, s, panes) => Look(t, s, panes)
  BY DEF Email!Look, Look, Email!Ask, Ask, Email!Asked, Asked, Email!Leaving, Leaving, Email!Fetch,
         Fetch, Email!Key, Key, Email!Anticipated, Anticipated, Email!Idle, Idle
<1>4. \A m, s, clears, panes : Email!OpenFor(m, s, clears, panes) => OpenFor(m, s, clears, panes)
  <2>1. \A cs, changed : Email!Unaware(cs, changed) = Unaware(cs, changed)
    BY DEF Email!Unaware, Unaware, Email!Idle, Idle
  <2>2. \A t, s : Email!Leaving(t, s) = Leaving(t, s)
    BY DEF Email!Leaving, Leaving, Email!Idle, Idle
  <2>3. \A panes, s, astray : Email!Asked(panes, s, astray) = Asked(panes, s, astray)
    BY DEF Email!Asked, Asked, Email!Fetch, Fetch, Email!Key, Key, Email!Anticipated, Anticipated
  <2>4. Email!Passed(queue) = Passed(queue) /\ Email!Empty = Empty /\ (Email!Acts <=> Acts)
    BY DEF Email!Passed, Passed, Email!Empty, Empty, Email!NoKey, NoKey, Email!Acts, Acts,
           Email!Room, Room
  <2> QED
    BY <2>1, <2>2, <2>3, <2>4 DEF Email!OpenFor, OpenFor
<1> QED
  BY <1>1, <1>2, <1>3, <1>4

LEMMA EmailFetches ==
  ASSUME NEW t, NEW s, t # tab \/ (s # sel /\ eye.name = t)
  PROVE  /\ t = "queue" => Email!Effects(t, s) = {"queue", "rateControl"}
         /\ t \in {"servers", "logs", "suppressions", "services", "smtp", "health"} => Email!Effects(t, s) = {t}
BY DEF Email!Effects, Email!fetchQueue

(* What is kept where the page goes to is fetched, or was there before.    *)
LEMMA EmailLands ==
  ASSUME page = "email", Watched, sel \in Selections, NEW t, NEW s \in Selections, NEW m,
         t \in Email!Tabs \/ eye.name \in {"smtp", "health"},
         s = sel \/ (s[1] # "" /\ eye.name \in {"smtp", "health"}),
         KeptByEmail(t, s, m), KeptByEmail(tab, sel, m) => Held
  PROVE  (eye.name \in Email!Effects(t, s) /\ Full(s)) \/ (Held /\ Key(s) = Key(sel))
<1>1. CASE s = sel /\ KeptByEmail(tab, sel, m)
  BY <1>1
<1>2. CASE s # sel
  <2>1. s[1] # "" /\ eye.name \in {"smtp", "health"}
    BY <1>2
  <2>2. eye.name = t
    BY <2>1 DEF KeptByEmail
  <2>3. Full(s)
    BY <2>1, FullIs, EmailScopes
  <2>4. Email!Effects(t, s) = {t}
    BY <1>2, <2>1, <2>2, EmailFetches
  <2> QED
    BY <2>2, <2>3, <2>4
<1>3. CASE s = sel /\ ~KeptByEmail(tab, sel, m)
  <2>1. eye.name = t \/ (eye.name = "rateControl" /\ t = "queue")
    BY <1>3 DEF KeptByEmail
  <2>2. eye.name \in {"smtp", "health"} => s[1] # ""
    BY <1>3 DEF KeptByEmail
  <2>3. eye.name \notin {"domains", "mailboxes", "servers"}
    BY <1>3 DEF KeptByEmail
  <2>4. eye.name \notin {"records", "limits", "probe"}
    BY <2>1 DEF Email!Tabs
  <2>5. Full(s)
    BY <2>2, <2>4, FullIs, EmailScopes
  <2>6. t # tab
    BY <1>3
  <2>7. eye.name \in Email!Effects(t, s)
    <3>1. CASE t = "queue"
      BY <2>1, <2>6, <3>1, EmailFetches
    <3>2. CASE t # "queue"
      <4>1. eye.name = t
        BY <2>1, <3>2
      <4>2. t \in {"servers", "logs", "suppressions", "services", "smtp", "health"}
        <5>1. CASE eye.name \in {"smtp", "health"}
          BY <4>1, <5>1
        <5>2. CASE t \in Email!Tabs
          BY <2>3, <3>2, <4>1, <5>2, EmailScopes DEF Email!Tabs
        <5> QED
          BY <5>1, <5>2
      <4>3. Email!Effects(t, s) = {t}
        BY <2>6, <4>2, EmailFetches
      <4> QED
        BY <4>1, <4>3
    <3> QED
      BY <3>1, <3>2
  <2> QED
    BY <2>5, <2>7
<1> QED
  BY <1>1, <1>2, <1>3

(* An entry is chosen, and where a handler leads.                          *)
LEMMA EmailEntry ==
  ASSUME sel \in Selections, NEW d \in Items, NEW names
  PROVE  /\ Email!Entry(names, d) \in Selections
         /\ eye.name \notin names => Email!Entry(names, d) = sel
         /\ eye.name \in names => Email!Entry(names, d)[1] # ""
         /\ eye.name \in names /\ eye.scope = 1 => Full(Email!Entry(names, d))
<1>1. CASE eye.name \in names
  <2>1. Email!Entry(names, d) = <<d, "">>
    BY <1>1 DEF Email!Entry
  <2>2. <<d, "">> \in Selections /\ (eye.scope = 1 => Full(<<d, "">>))
    BY ItemSelected
  <2>3. <<d, "">>[1] # ""
    BY ItemsAreNamed, PairParts
  <2> QED
    BY <1>1, <2>1, <2>2, <2>3
<1>2. CASE eye.name \notin names
  BY <1>2 DEF Email!Entry
<1> QED
  BY <1>1, <1>2

LEMMA EmailTo ==
  ASSUME NEW d \in Items, NEW names
  PROVE  /\ Email!To(names, d) \in Goals
         /\ Email!To(names, d)[1] = IF eye.name \in names THEN d ELSE "same"
         /\ d \notin {"", "same"}
<1> DEFINE x == IF eye.name \in names THEN d ELSE "same"
<1>1. x \in Places \cup {"same"}
  BY DEF Places
<1>2. Email!To(names, d) = <<x, "same">>
  BY DEF Email!To
<1>3. d \notin {"", "same"}
  BY ItemsAreNamed
<1> HIDE DEF x
<1>4. <<x, "same">> \in Goals /\ <<x, "same">>[1] = x
  BY <1>1, PairParts DEF Goals
<1> QED
  BY <1>2, <1>3, <1>4 DEF x

(* It leads the panes that have a selection of their own to the new one.   *)
LEMMA MailsTo ==
  ASSUME NEW h, NEW g, NEW d, NEW names, d \notin {"", "same"}, names \subseteq {"records", "smtp", "health"},
         DOMAIN h = HandlerFields, "done" \in h.goesOn, h.visits = "", ~h.whole, h.before = {},
         h.toSel = g, h.clears = {"records"}, h.opens = "dns", h.toTab = "same",
         g \in Goals, g[1] = (IF eye.name \in names THEN d ELSE "same"), "records" \in names
  PROVE  Mailing(h)
BY DEF Mailing

LEMMA EmailKeeps ==
  ASSUME PInv, page = "email", Email!Acting
  PROVE  PInv'
<1>1. /\ sel \in Selections /\ Watched
      /\ modal = "dns" /\ eye.name = "records" => Full(sel)
      /\ modal = "limits" /\ eye.name = "limits" => Full(sel)
  BY DEF PInv, Shapes, PageFits, Fits
<1>2. /\ \A t, s, m : Fits(t, s, m) <=> /\ m = "dns" /\ eye.name = "records" => Full(s)
                                        /\ m = "limits" /\ eye.name = "limits" => Full(s)
      /\ \A t, s, m : Kept(t, s, m) <=> KeptByEmail(t, s, m)
      /\ Held <=> KeptByEmail(tab, sel, modal)
  BY DEF Fits, Kept, Held
<1>3. \A m : m \notin {"dns", "limits", "probe"} /\ KeptByEmail(tab, sel, m) => Held
  BY <1>2 DEF KeptByEmail
<1>4. \A m : m \notin {"dns", "limits", "probe"} /\ Email!Open(m) => PInv'
  <2> SUFFICES ASSUME NEW m, m \notin {"dns", "limits", "probe"}, Email!Open(m)
               PROVE  PInv'
    OBVIOUS
  <2>1. Open(m) /\ Fits(tab, sel, m) /\ (Kept(tab, sel, m) => Held)
    BY <1>2, <1>3, EmailMoves
  <2> QED
    BY <2>1, OpenKeeps
<1>5. \A panes : Email!Look(tab, sel, panes) => PInv'
  <2>1. Fits(tab, sel, modal) /\ (Kept(tab, sel, modal) => Held)
    BY DEF PInv, PageFits, Held
  <2> QED
    BY <1>1, <2>1, LookKeeps, EmailMoves
<1>8. \A t \in Email!Tabs : Email!Go(t, sel) => PInv'
  <2> SUFFICES ASSUME NEW t \in Email!Tabs, Email!Go(t, sel)
               PROVE  PInv'
    OBVIOUS
  <2>1. Look(t, sel, Email!Effects(t, sel)) /\ modal = "none"
    BY EmailMoves DEF Email!Go, Email!Acts
  <2>2. Fits(t, sel, modal)
    BY <1>2, <2>1
  <2>3. Kept(t, sel, modal) =>
          (eye.name \in Email!Effects(t, sel) /\ Full(sel)) \/ (Held /\ Key(sel) = Key(sel))
    BY <1>1, <1>2, EmailLands
  <2> QED
    BY <1>1, <2>1, <2>2, <2>3, LookKeeps
<1>9. \A d \in Items : \A names :
        /\ Email!Look(tab, Email!Entry(names, d), Email!Effects(tab, Email!Entry(names, d)))
        /\ names \subseteq {"smtp", "health"}
        => PInv'
  <2> SUFFICES ASSUME NEW d \in Items, NEW names, names \subseteq {"smtp", "health"},
                      Email!Look(tab, Email!Entry(names, d), Email!Effects(tab, Email!Entry(names, d)))
               PROVE  PInv'
    OBVIOUS
  <2> DEFINE s == Email!Entry(names, d)
  <2>1. /\ s \in Selections
        /\ s = sel \/ (eye.name \in {"smtp", "health"} /\ s[1] # "")
    <3>1. CASE eye.name \in names
      <4>1. s \in Selections /\ s[1] # ""
        BY <1>1, <3>1, EmailEntry
      <4>2. eye.name \in {"smtp", "health"}
        BY <3>1
      <4> QED
        BY <4>1, <4>2
    <3>2. CASE eye.name \notin names
      BY <1>1, <3>2, EmailEntry
    <3> QED
      BY <3>1, <3>2
  <2>2. Look(tab, s, Email!Effects(tab, s))
    BY EmailMoves
  <2> HIDE DEF s
  <2>3. Fits(tab, s, modal)
    BY <1>1, <1>2, <2>1
  <2>4. Kept(tab, s, modal) =>
          (eye.name \in Email!Effects(tab, s) /\ Full(s)) \/ (Held /\ Key(s) = Key(sel))
    <3>1. CASE s = sel
      BY <1>2, <3>1
    <3>2. CASE s # sel
      <4>1. KeptByEmail(tab, sel, modal) => Held
        BY <1>2
      <4>2. Kept(tab, s, modal) => KeptByEmail(tab, s, modal)
        BY <1>2
      <4> QED
        BY <1>1, <2>1, <3>2, <4>1, <4>2, EmailLands
    <3> QED
      BY <3>1, <3>2
  <2> QED
    BY <2>1, <2>2, <2>3, <2>4, LookKeeps
<1>10. \A d \in Items : \A m :
         m \in {"dns", "limits", "probe"} /\ Email!OpenFor(m, Email!Entry({IF m = "dns" THEN "records" ELSE m}, d),
                                 {IF m = "dns" THEN "records" ELSE m}, {IF m = "dns" THEN "records" ELSE m}) => PInv'
  <2> SUFFICES ASSUME NEW d \in Items, NEW m, NEW pane, m \in {"dns", "limits", "probe"},
                      pane = IF m = "dns" THEN "records" ELSE m,
                      Email!OpenFor(m, Email!Entry({pane}, d), {pane}, {pane})
               PROVE  PInv'
    OBVIOUS
  <2> DEFINE s == Email!Entry({pane}, d)
  <2>1. s \in Selections /\ (eye.name # pane => s = sel) /\ (eye.name = pane /\ eye.scope = 1 => Full(s))
    <3>1. CASE eye.name \in {pane}
      <4>1. s \in Selections /\ (eye.scope = 1 => Full(s))
        BY <1>1, <3>1, EmailEntry
      <4> QED
        BY <3>1, <4>1
    <3>2. CASE eye.name \notin {pane}
      <4>1. s \in Selections /\ s = sel
        BY <1>1, <3>2, EmailEntry
      <4> QED
        BY <3>2, <4>1
    <3> QED
      BY <3>1, <3>2
  <2>2. OpenFor(m, s, {pane}, {pane})
    BY EmailMoves
  <2> HIDE DEF s
  <2>3. Fits(tab, s, m)
    BY <1>1, <1>2, <2>1, EmailScopes
  <2>4. eye.name # pane /\ KeptByEmail(tab, sel, m) => KeptByEmail(tab, sel, modal)
    BY DEF KeptByEmail
  <2>5. Kept(tab, s, m) => \/ eye.name \in {pane} \/ (eye.name \in {pane} /\ Full(s))
                           \/ Held /\ Key(s) = Key(sel)
    BY <1>2, <2>1, <2>4
  <2> QED
    BY <2>1, <2>2, <2>3, <2>5, OpenForKeeps
<1>11. \A d \in Items : Email!openDNSModal(d) \/ Email!handleOpenRateLimitModal(d) \/ Email!handleTestMailbox(d) => PInv'
  BY <1>10 DEF Email!openDNSModal, Email!handleOpenRateLimitModal, Email!handleTestMailbox
<1> DEFINE Fine(h) == Good(h) /\ h.writes \cap {"smtp", "health", "records", "limits", "probe"} = {}
<1>12. \A h : Fine(h) /\ Email!Submit(h) => PInv'
  <2> SUFFICES ASSUME NEW h, Fine(h), Email!Submit(h)
               PROVE  PInv'
    OBVIOUS
  <2>1. eye.name \in h.writes => eye.scope = 0
    BY <1>1, EmailScopes
  <2>2. eye.name \in h.writes => Full(sel)
    BY <2>1, FullIs
  <2>3. Sendable(h, sel)
    BY <1>1, <2>2, PlainSendable DEF Good
  <2> QED
    BY <2>3, SubmitKeeps, EmailMoves DEF Email!Submit
<1>13. /\ Fine(Email!handleCreateMailServer) /\ Fine(Email!handleDeleteMailServer)
       /\ Fine(Email!handleResetCooldown) /\ Fine(Email!handleSimulate421)
       /\ Fine(Email!handleFlushQueue) /\ Fine(Email!handleDeleteQueueItem)
       /\ Fine(Email!handleClearQueue) /\ Fine(Email!handleRemoveSuppression)
       /\ Fine(Email!handleServiceAction)
  BY DEF Good, Plain, Minding, HandlerFields, Wholes, Email!Change, Email!Rewriting, Email!Flagged,
         Email!Local, Email!Unchecked, Email!Leading, Email!Patching, Email!fetchEmailData,
         Email!fetchQueue, Email!handleCreateMailServer, Email!handleDeleteMailServer,
         Email!handleResetCooldown, Email!handleSimulate421, Email!handleFlushQueue,
         Email!handleDeleteQueueItem, Email!handleClearQueue, Email!handleRemoveSuppression,
         Email!handleServiceAction
<1>7. Fine(Email!handleDeleteDomain)
  BY DEF Good, Plain, Minding, HandlerFields, Wholes, Email!Change, Email!Rewriting, Email!Local,
         Email!Unchecked, Email!handleDeleteDomain
<1>14. /\ Fine(Email!handleAddMailbox) /\ Fine(Email!handleDeleteMailbox)
       /\ Fine(Email!handleToggleSuspendMailbox) /\ Fine(Email!handleSavePassword)
  BY DEF Good, Plain, Minding, HandlerFields, Wholes, Email!Change, Email!Rewriting, Email!Flagged,
         Email!Local, Email!Unchecked, Email!Else, Email!fetchEmailData, Email!handleAddMailbox,
         Email!handleDeleteMailbox, Email!handleToggleSuspendMailbox, Email!handleSavePassword
<1> HIDE DEF Fine
<1>15. \A h : \A s \in Selections : Email!SubmitFor(h, s) /\ Sendable(h, s) => PInv'
  BY SubmitKeeps, EmailMoves
<1>16. <<"same", "same">> \in Goals /\ <<"same", "same">>[1] = "same"
  BY StaysPut
<1>17. \A s \in Selections : (eye.name = "records" => Full(s)) => Sendable(Email!handleVerifyDNS, s)
  <2> SUFFICES ASSUME NEW s \in Selections, eye.name = "records" => Full(s)
               PROVE  Sendable(Email!handleVerifyDNS, s)
    OBVIOUS
  <2> DEFINE h == Email!handleVerifyDNS
  <2>1. Mailing(h) /\ h.writes = {"domains", "records"} /\ h.asks = {"records"} /\ h.after = {"domains"}
    BY <1>16 DEF Mailing, HandlerFields, Email!Change, Email!Rewriting, Email!Flagged,
       Email!Patching, Email!handleVerifyDNS
  <2> HIDE DEF h
  <2>2. eye.name \in h.writes => \/ eye.name \in h.after \/ eye.name \in h.clears
                                 \/ eye.name \in h.asks /\ Full(s)
    <3>1. CASE Full(s)
      BY <2>1, <3>1
    <3>2. CASE ~Full(s)
      BY <2>1, <3>2
    <3> QED
      BY <3>1, <3>2
  <2>3. Sendable(h, s)
    BY <2>1, <2>2, MailingSendable
  <2> QED
    BY <2>3 DEF h
<1>18. \A s \in Selections : (eye.name = "records" => Full(s)) => Sendable(Email!handleAutoFixDNS, s)
  <2> SUFFICES ASSUME NEW s \in Selections, eye.name = "records" => Full(s)
               PROVE  Sendable(Email!handleAutoFixDNS, s)
    OBVIOUS
  <2> DEFINE h == Email!handleAutoFixDNS
  <2>1. Mailing(h) /\ h.writes = {"domains", "records"} /\ h.asks = {"records"} /\ h.after = {"domains"}
    BY <1>16 DEF Mailing, HandlerFields, Email!Change, Email!Rewriting, Email!Flagged,
       Email!Patching, Email!Staying, Email!handleAutoFixDNS
  <2> HIDE DEF h
  <2>2. eye.name \in h.writes => \/ eye.name \in h.after \/ eye.name \in h.clears
                                 \/ eye.name \in h.asks /\ Full(s)
    <3>1. CASE Full(s)
      BY <2>1, <3>1
    <3>2. CASE ~Full(s)
      BY <2>1, <3>2
    <3> QED
      BY <3>1, <3>2
  <2>3. Sendable(h, s)
    BY <2>1, <2>2, MailingSendable
  <2> QED
    BY <2>3 DEF h
<1>19. \A s \in Selections : (eye.name = "limits" => Full(s)) => Sendable(Email!handleSaveRateLimit, s)
  <2> SUFFICES ASSUME NEW s \in Selections, eye.name = "limits" => Full(s)
               PROVE  Sendable(Email!handleSaveRateLimit, s)
    OBVIOUS
  <2> DEFINE h == Email!handleSaveRateLimit
  <2>1. Mailing(h) /\ h.writes = {"mailboxes", "limits"} /\ h.asks = {"limits"} /\ h.after = {"mailboxes"}
    BY <1>16 DEF Mailing, HandlerFields, Email!Change, Email!Rewriting, Email!Flagged,
       Email!Patching, Email!Staying, Email!handleSaveRateLimit
  <2> HIDE DEF h
  <2>2. eye.name \in h.writes => \/ eye.name \in h.after \/ eye.name \in h.clears
                                 \/ eye.name \in h.asks /\ Full(s)
    <3>1. CASE Full(s)
      BY <2>1, <3>1
    <3>2. CASE ~Full(s)
      BY <2>1, <3>2
    <3> QED
      BY <3>1, <3>2
  <2>3. Sendable(h, s)
    BY <2>1, <2>2, MailingSendable
  <2> QED
    BY <2>3 DEF h
<1>20. \A s \in Selections : (eye.name = "limits" => Full(s)) => Sendable(Email!handleResetRateLimit, s)
  <2> SUFFICES ASSUME NEW s \in Selections, eye.name = "limits" => Full(s)
               PROVE  Sendable(Email!handleResetRateLimit, s)
    OBVIOUS
  <2> DEFINE h == Email!handleResetRateLimit
  <2>1. Mailing(h) /\ h.writes = {"limits"} /\ h.asks = {"limits"}
    BY <1>16 DEF Mailing, HandlerFields, Email!Change, Email!Rewriting, Email!Flagged,
       Email!Staying, Email!handleResetRateLimit
  <2> HIDE DEF h
  <2>2. eye.name \in h.writes => \/ eye.name \in h.after \/ eye.name \in h.clears
                                 \/ eye.name \in h.asks /\ Full(s)
    <3>1. CASE Full(s)
      BY <2>1, <3>1
    <3>2. CASE ~Full(s)
      BY <2>1, <3>2
    <3> QED
      BY <3>1, <3>2
  <2>3. Sendable(h, s)
    BY <2>1, <2>2, MailingSendable
  <2> QED
    BY <2>3 DEF h
<1>21. \A s \in Selections : (eye.name = "records" => Full(s)) =>
         /\ Email!SubmitFor(Email!handleVerifyDNS, s) => PInv'
         /\ Email!SubmitFor(Email!handleAutoFixDNS, s) => PInv'
  BY <1>15, <1>17, <1>18
<1>22. modal = "limits" => /\ Email!Submit(Email!handleSaveRateLimit) => PInv'
                           /\ Email!Submit(Email!handleResetRateLimit) => PInv'
  BY <1>1, <1>15, <1>19, <1>20 DEF Email!Submit
<1>23. tab = "tester" /\ Email!Submit(Email!handleSendTestEmail) => PInv'
  <2> SUFFICES ASSUME tab = "tester", Email!Submit(Email!handleSendTestEmail)
               PROVE  PInv'
    OBVIOUS
  <2> DEFINE h == Email!handleSendTestEmail
             g == Sent(h, sel, modal).h
  <2>1. Plain(h) /\ h.toTab = "same" /\ h.writes = {"queue", "logs"}
    BY DEF Plain, HandlerFields, Email!Change, Email!Rewriting, Email!Flagged,
           Email!handleSendTestEmail
  <2> HIDE DEF h
  <2>2. HandlerFits(g) /\ Trimmed(g, h)
    BY <2>1, PlainFits, SentIs DEF Plain
  <2> HIDE DEF g
  <2>3. TabOn(g) = "tester" /\ g.writes \subseteq {"queue", "logs"} /\ g.writes \subseteq {eye.name}
    BY <2>1, <2>2 DEF Trimmed, TabOn, Led
  <2>4. eye.name \in {"queue", "logs"} => ~KeptByEmail("tester", SelOn(g), "none")
    BY DEF KeptByEmail
  <2>5. Minds(g, sel)
    BY <1>2, <2>3, <2>4 DEF Minds, WithoutModal
  <2>6. Sendable(h, sel)
    BY <1>1, <2>2, <2>5 DEF Sendable, Trimmed, g
  <2> QED
    BY <1>1, <1>15, <2>6 DEF Email!Submit, h
<1>24. \A d \in Items : Email!Submit(Email!handleRegenerateDKIM(d)) => PInv'
  <2> TAKE d \in Items
  <2> DEFINE h == Email!handleRegenerateDKIM(d)
             g == Email!To({"records"}, d)
  <2>1. g \in Goals /\ g[1] = IF eye.name = "records" THEN d ELSE "same"
    BY EmailTo
  <2> HIDE DEF g
  <2>2. /\ DOMAIN h = HandlerFields /\ "done" \in h.goesOn /\ h.visits = "" /\ ~h.whole /\ h.before = {}
        /\ h.toSel = g /\ h.clears = {"records"} /\ h.opens = "dns" /\ h.writes = {"records"}
        /\ h.toTab = "same"
    BY DEF HandlerFields, Email!Change, Email!Rewriting, Email!Flagged, Email!Leading,
           Email!Opening, Email!handleRegenerateDKIM, g
  <2> HIDE DEF h
  <2>3. Mailing(h)
    BY <2>1, <2>2, EmailTo, MailsTo
  <2>4. eye.name \in h.writes => eye.name \in h.after \/ eye.name \in h.clears
    BY <2>2
  <2> QED
    <3>1. Sendable(h, sel)
      BY <1>1, <2>3, <2>4, MailingSendable
    <3> QED
      BY <1>1, <1>15, <3>1 DEF Email!Submit, h
<1>25. \A d \in Items : Email!Submit(Email!handleAddDomain(d)) => PInv'
  <2> TAKE d \in Items
  <2> DEFINE h == Email!handleAddDomain(d)
             g == Email!To({"records", "smtp", "health"}, d)
  <2>1. g \in Goals /\ g[1] = IF eye.name \in {"records", "smtp", "health"} THEN d ELSE "same"
    BY EmailTo
  <2> HIDE DEF g
  <2>2. /\ DOMAIN h = HandlerFields /\ "done" \in h.goesOn /\ h.visits = "" /\ ~h.whole /\ h.before = {}
        /\ h.toSel = g /\ h.clears = {"records"} /\ h.opens = "dns"
        /\ h.writes = {"domains"} /\ h.after = {"domains"} /\ h.toTab = "same"
    BY DEF HandlerFields, Email!Change, Email!Rewriting, Email!Local, Email!Else, Email!Flagged,
           Email!Leading, Email!Opening, Email!handleAddDomain, g
  <2> HIDE DEF h
  <2>3. Mailing(h)
    <3>1. d \notin {"", "same"}
      BY EmailTo
    <3>2. "records" \in {"records", "smtp", "health"}
      OBVIOUS
    <3> QED
      BY <2>1, <2>2, <3>1, <3>2, MailsTo
  <2>4. eye.name \in h.writes => eye.name \in h.after \/ eye.name \in h.clears
    BY <2>2
  <2> QED
    <3>1. Sendable(h, sel)
      BY <1>1, <2>3, <2>4, MailingSendable
    <3> QED
      BY <1>1, <1>15, <3>1 DEF Email!Submit, h
<1>26. {"other", "tester"} \subseteq Email!Tabs
  BY DEF Email!Tabs
<1>28. CASE Email!firstDomain
  BY <1>9, <1>28 DEF Email!firstDomain
<1>29. CASE Email!HealthTab \/ Email!SmtpTab
  <2>1. \A d \in Items : Email!Go(tab, Email!Entry({"health"}, d)) \/ Email!Go(tab, Email!Entry({"smtp"}, d)) => PInv'
    BY <1>9 DEF Email!Go
  <2> QED
    BY <1>5, <1>8, <1>26, <1>29, <2>1 DEF Email!HealthTab, Email!SmtpTab
<1>30. CASE Email!DomainsTab
  <2>1. \A d \in Items : Email!SubmitFor(Email!handleVerifyDNS, Email!Entry({"records"}, d)) => PInv'
    <3>1. \A d \in Items : /\ Email!Entry({"records"}, d) \in Selections
                           /\ eye.name = "records" => Full(Email!Entry({"records"}, d))
      <4> TAKE d \in Items
      <4>1. CASE eye.name = "records"
        <5>1. eye.name \in {"records"} /\ eye.scope = 1
          BY <1>1, <4>1, EmailScopes
        <5> QED
          BY <1>1, <5>1, EmailEntry
      <4>2. CASE eye.name # "records"
        BY <1>1, <4>2, EmailEntry
      <4> QED
        BY <4>1, <4>2
    <3> QED
      BY <1>21, <3>1
  <2> QED
    BY <1>4, <1>11, <1>12, <1>7, <1>14, <1>30, <2>1 DEF Email!DomainsTab, Email!Does
<1>31. CASE Email!DnsModalHeader
  <2>1. modal = "dns" => /\ Email!Submit(Email!handleVerifyDNS) => PInv'
                         /\ Email!Submit(Email!handleAutoFixDNS) => PInv'
    BY <1>1, <1>21 DEF Email!Submit
  <2> QED
    BY <1>24, <1>31, <2>1 DEF Email!DnsModalHeader, Email!In
<1>32. CASE Email!Header \/ Email!TabBar \/ Email!ServersTab \/ Email!MailboxesTab
  BY <1>4, <1>5, <1>8, <1>11, <1>12, <1>13, <1>14, <1>26, <1>32
  DEF Email!Does, Email!Header, Email!TabBar, Email!ServersTab, Email!MailboxesTab
<1>33. CASE \/ Email!RateControlPanel \/ Email!QueueTable \/ Email!LogsTab \/ Email!SuppressionsTab
            \/ Email!ServicesTab \/ Email!TesterTab
  BY <1>5, <1>12, <1>13, <1>14, <1>23, <1>33
  DEF Email!Does, Email!RateControlPanel, Email!QueueTable, Email!LogsTab, Email!SuppressionsTab,
      Email!ServicesTab, Email!TesterTab
<1>34. CASE Email!AddDomainModal \/ Email!AddMailboxModal \/ Email!PasswordModal \/ Email!ServerWizard
  BY <1>12, <1>13, <1>14, <1>25, <1>34
  DEF Email!In, Email!AddDomainModal, Email!AddMailboxModal, Email!PasswordModal, Email!ServerWizard
<1>35. CASE Email!RateLimitModal
  <2>1. \/ Email!In("limits", Email!handleSaveRateLimit)
        \/ Email!In("limits", Email!handleResetRateLimit)
    BY <1>35 DEF Email!RateLimitModal
  <2> QED
    BY <1>22, <2>1 DEF Email!In
<1> QED
  BY <1>28, <1>29, <1>30, <1>31, <1>32, <1>33, <1>34, <1>35 DEF Email!Acting


-----------------------------------------------------------------------------
(* An answer leads to where the pane is fetched, or to where it was kept.  *)
EmailLanding(h, t, s, m) ==
  /\ t = Led(h.toTab, tab) /\ s[1] = Led(h.toSel[1], sel[1])
  /\ IF h.opens = "none" THEN m \in {modal, "none"} ELSE m = h.opens

LEMMA EmailAnswers ==
  ASSUME page = "email", Watched, sel \in Selections, PageFits, NEW h, HandlerFits(h), NEW t,
         NEW s \in Selections, NEW m, EmailLanding(h, t, s, m), NEW panes, panes = Email!Effects(t, s)
  PROVE  /\ Fits(t, s, m)
         /\ Kept(t, s, m) =>
              \/ eye.name \in panes \cup h.clears \cup h.follows /\ Full(s)
              \/ h.clears = {} /\ Held /\ Key(s) = Key(sel)
<1>1. /\ Held <=> KeptByEmail(tab, sel, modal)
      /\ Kept(t, s, m) <=> KeptByEmail(t, s, m)
  BY DEF Held, Kept
<1>2. /\ h.toSel[1] = "same" \/ (h.toSel[1] # "" /\ (eye.name \in {"smtp", "health"} \/ h.clears # {}))
      /\ h.opens = "dns" /\ eye.name = "records" => h.clears # {}
      /\ h.opens \in {"none", "verified", "dns"} /\ h.toTab \in {"same", "servers"}
      /\ h.clears # {} => eye.name = "records" /\ h.toSel[1] \notin {"", "same"} /\ eye.name \in h.clears
  BY DEF HandlerFits, Mine
<1>3. eye.scope = (IF eye.name \in {"smtp", "health", "records", "limits", "probe"} THEN 1 ELSE 0)
      /\ eye.scope \in 0..2
  BY EmailScopes
<1>4. CASE h.clears # {}
  <2>1. eye.name = "records" /\ s[1] # "" /\ eye.name \in h.clears
    BY <1>2, <1>4 DEF EmailLanding, Led
  <2>2. Full(s)
    BY <1>3, <2>1, FullIs
  <2> QED
    BY <2>1, <2>2 DEF Fits
<1>5. CASE h.clears = {} /\ h.toSel[1] = "same"
  <2>1. s[1] = sel[1] /\ t \in {tab, "servers"}
    BY <1>2, <1>5 DEF EmailLanding, Led
  <2>2. Key(s) = Key(sel) /\ (Full(s) <=> Full(sel))
    <3>1. \A i \in 1..eye.scope : s[i] = sel[i]
      BY <1>3, <2>1, Parts
    <3> QED
      BY <1>3, <3>1, SameKey DEF Full
  <2>3. eye.name = "records" /\ m = "dns" => modal = "dns"
    BY <1>2, <1>5 DEF EmailLanding
  <2>4. m \in {"limits", "probe"} => m = modal
    BY <1>2 DEF EmailLanding
  <2>5. Fits(t, s, m)
    BY <2>2, <2>3, <2>4 DEF Fits, PageFits
  <2>6. KeptByEmail(t, s, m) => KeptByEmail(tab, sel, modal)
    BY <2>1, <2>3, <2>4 DEF KeptByEmail
  <2> QED
    BY <1>1, <1>5, <2>2, <2>5, <2>6
<1>6. CASE h.clears = {} /\ h.toSel[1] # "same"
  <2>1. s[1] # "" /\ t \in {tab, "servers"} /\ eye.name \in {"smtp", "health"}
    BY <1>2, <1>6 DEF EmailLanding, Led
  <2>2. Full(s) /\ Fits(t, s, m)
    BY <1>3, <2>1, FullIs DEF Fits
  <2>3. CASE KeptByEmail(t, s, m)
    <3>1. eye.name = t /\ t = tab
      BY <2>1, <2>3 DEF KeptByEmail
    <3>2. CASE s = sel
      BY <1>1, <1>6, <2>2, <3>1, <3>2 DEF KeptByEmail
    <3>3. CASE s # sel
      <4>1. t \in {"smtp", "health"} /\ t # "queue"
        BY <2>1, <3>1
      <4>2. panes = {t}
        BY <3>1, <3>3, <4>1, EmailFetches
      <4> QED
        BY <2>2, <3>1, <4>2
    <3> QED
      BY <3>2, <3>3
  <2> QED
    BY <1>1, <2>2, <2>3
<1> QED
  BY <1>4, <1>5, <1>6

(* The pages whose handlers select nothing.                                *)
StillLanding(h, t, m) ==
  /\ t = Led(h.toTab, tab)
  /\ h.opens = "none" => m \in {modal, "none"}

LEMMA StillAnswers ==
  ASSUME PInv, page \notin {"console", "email"}, NEW h, HandlerFits(h), NEW t, NEW m,
         StillLanding(h, t, m), NEW panes,
         page = "files" => panes = FileManager!Effects(t, sel),
         page = "webservers" => panes = WebServers!Effects(t, sel)
  PROVE  /\ Fits(t, sel, m)
         /\ Kept(t, sel, m) => (eye.name \in panes /\ Full(sel)) \/ Held
<1>1. Watched /\ Fits(tab, sel, modal) /\ sel \in Selections
  BY DEF PInv, PageFits, Shapes
<1>2. /\ page \notin {"servers", "lists"} => m \in {modal, "none"}
      /\ page \in {"lists", "domains", "backups"} => t = tab
      /\ page = "tools" => t \in {tab, "installed"}
  BY DEF HandlerFits, StillLanding, Led
<1>3. Fits(t, sel, m)
  BY <1>1, <1>2 DEF Fits
<1>4. CASE page = "files"
  <2>1. CASE t = tab
    BY <1>3, <1>4, <2>1 DEF Held, Kept
  <2>2. CASE t # tab
    <3>1. panes = IF t = "files" THEN {"listing"} ELSE {"trash"}
      BY <1>4, <2>2 DEF FileManager!Effects
    <3>2. eye.name = "listing" => Full(sel)
      BY <1>1, <1>4 DEF Fits
    <3>3. eye.name = "trash" => Full(sel)
      BY <1>1, <1>4, FilesScopes, FullIs
    <3>4. eye.name \notin {"listing", "trash"} => Held
      BY <1>4 DEF Held, Kept
    <3>5. Kept(t, sel, m) => eye.name # (IF t = "files" THEN "trash" ELSE "listing")
      BY <1>4 DEF Kept
    <3> QED
      BY <1>3, <3>1, <3>2, <3>3, <3>4, <3>5
  <2> QED
    BY <1>3, <2>1, <2>2
<1>5. CASE page = "webservers"
  <2>1. sel[2] # ""
    BY <1>1, <1>5 DEF Fits
  <2> QED
    BY <1>1, <1>3, <1>5, <2>1, WebServersLands
<1>6. CASE page \in FlatPages
  BY <1>3, <1>2, <1>6 DEF Held, Kept, FlatPages
<1>7. CASE page \in {"websites", "backups", "databases", "domains", "php", "support"}
  <2>1. m \in {modal, "none"}
    BY <1>2, <1>7
  <2>2. Kept(t, sel, m) => Held
    BY <1>7, <2>1 DEF Held, Kept
  <2> QED
    BY <1>3, <2>2
<1> QED
  BY <1>1, <1>3, <1>4, <1>5, <1>6, <1>7 DEF Watched, DeepPages

LEMMA AnswerLands ==
  ASSUME PInv, NEW n \in Slots, changes[n] # Idle, NEW panes,
         panes = Effects(TabAfter(changes[n]), SelAfter(changes[n])),
         Answer(n, panes), On(changes[n])
  PROVE  Landing(changes[n], panes)
<1> DEFINE c == changes[n]
           h == c.h
           t == TabAfter(c)
           s == SelAfter(c)
           m == modal'
<1>1. IsChange(c) /\ HandlerFits(h) /\ Watched /\ PageFits /\ sel \in Selections
  BY DEF PInv, ChangesFit, Shapes
<1>2. t = Led(h.toTab, tab) /\ s \in Selections
      /\ s = <<Led(h.toSel[1], sel[1]), Led(h.toSel[2], sel[2])>>
  BY <1>1, WhereItLeads DEF TabOn, SelOn
<1>3. /\ h.opens = "none" => m \in {modal, "none"}
      /\ h.opens # "none" => m = h.opens
  BY DEF Answer
<1>4. panes = Effects(t, s)
  OBVIOUS
<1> HIDE DEF t, s, m, h
<1>5. CASE page = "console"
  <2>1. panes = Console!Effects(t, s)
    BY <1>4, <1>5 DEF Effects
  <2>2. Fits(t, s, m) /\ h.clears = {} /\ (Kept(t, s, m) <=> KeptByConsole(t, s)) /\ (Held <=> KeptByConsole(tab, sel))
    BY <1>1, <1>5 DEF Fits, Kept, Held, HandlerFits
  <2>3. Kept(t, s, m) => \/ eye.name \in Console!Effects(t, s) /\ Full(s)
                         \/ KeptByConsole(tab, sel) /\ Key(s) = Key(sel)
    BY <1>1, <1>2, <1>5, <2>2, ConsoleLands
  <2> QED
    BY <2>1, <2>2, <2>3 DEF Landing, t, s, m, h
<1>6. CASE page = "email"
  <2>1. panes = Email!Effects(t, s)
    BY <1>4, <1>6 DEF Effects
  <2>2. EmailLanding(h, t, s, m)
    BY <1>2, <1>3, PairParts DEF EmailLanding
  <2>3. /\ Fits(t, s, m)
        /\ Kept(t, s, m) =>
              \/ eye.name \in panes \cup h.clears \cup h.follows /\ Full(s)
              \/ h.clears = {} /\ Held /\ Key(s) = Key(sel)
    BY <1>1, <1>2, <1>6, <2>1, <2>2, EmailAnswers
  <2> QED
    BY <2>3 DEF Landing, t, s, m, h
<1>7. CASE page \notin {"console", "email"}
  <2>1. h.toSel = <<"same", "same">> /\ h.clears = {}
    BY <1>1, <1>7 DEF HandlerFits
  <2>2. s = sel
    <3>1. h.toSel[1] = "same" /\ h.toSel[2] = "same"
      BY <2>1, StaysPut
    <3>2. sel = <<sel[1], sel[2]>>
      BY <1>1, SelectionParts
    <3> QED
      BY <1>2, <3>1, <3>2 DEF Led
  <2>3. page = "files" => panes = FileManager!Effects(t, sel)
    BY <1>4, <2>2 DEF Effects
  <2>4. page = "webservers" => panes = WebServers!Effects(t, sel)
    BY <1>4, <2>2 DEF Effects
  <2>5. StillLanding(h, t, m)
    BY <1>2, <1>3 DEF StillLanding
  <2>6. /\ Fits(t, sel, m)
        /\ Kept(t, sel, m) => (eye.name \in panes /\ Full(sel)) \/ Held
    BY <1>1, <1>7, <2>3, <2>4, <2>5, StillAnswers
  <2> QED
    BY <2>1, <2>2, <2>6 DEF Landing, t, s, m, h
<1> QED
  BY <1>5, <1>6, <1>7

LEMMA NetworkKeeps ==
  ASSUME PInv, Network
  PROVE  PInv'
<1>1. ASSUME NEW n \in Slots, NEW o \in {"done", "refused", "lost", "failed"},
             changes[n].stage = "sent", Serve(n, o)
      PROVE  PInv'
  <2>1. changes[n] # Idle
    BY <1>1 DEF Idle
  <2> QED
    BY <1>1, <2>1, ServeKeeps
<1>2. ASSUME NEW n \in Slots, changes[n] # Idle, Answer(n, Effects(TabAfter(changes[n]), SelAfter(changes[n])))
      PROVE  PInv'
  BY <1>2, AnswerLands, AnswerKeeps
<1>3. ASSUME NEW i \in DOMAIN queue, NEW ok \in BOOLEAN, PutDown(i, ok)
      PROVE  PInv'
  BY <1>3, PutDownKeeps
<1> QED
  BY <1>1, <1>2, <1>3 DEF Network

-----------------------------------------------------------------------------
(* A page is mounted.                                                      *)
Framed == eye.scope \in 0..2 /\ eye.shuts \in {"none", "editor"} /\ (eye.leads => Leads)

LEMMA OpenedFits ==
  ASSUME page \in Pages, Framed, Watched, sel \in Selections, PageFits, ChangesFit,
         \A n \in Slots : changes[n] # Idle => changes[n].stage = "sent" /\ changes[n].h.before = {},
         copy = Empty, busy \in BOOLEAN, Fetched(queue, sel)
  PROVE  PInv
<1>1. /\ copy \in Copy /\ copy.of = NoKey /\ copy.lacks = {} /\ copy.claims = {} /\ copy.excuse = "none"
      /\ ~copy.behind
  BY DEF Empty, Copy
<1>2. /\ queue \in Seq(Entry)
      /\ \A i \in 1..Len(queue) :
           /\ queue[i].lacks = {} /\ ~queue[i].behind
           /\ queue[i].passed = "none" /\ Full(queue[i].of)
           /\ queue[i].leads # "none" => Leads
           /\ queue[i].leads = "editor" => page = "files"
           /\ queue[i].astray \/ queue[i].leads # "none" \/ queue[i].of = Key(sel)
  <2>1. ~Anticipated
    BY DEF Anticipated, Idle
  <2> QED
    BY <2>1 DEF Fetched
<1>3. queue # <<>> => Len(queue) \in 1..Len(queue)
  BY <1>2, LenProperties, EmptySeq
<1>4. Shapes
  BY <1>1, <1>2 DEF Shapes, Framed
<1>5. Books /\ Claims /\ Overtaken
  BY <1>1, <1>2, <1>3 DEF Books, Claims, Overtaken, Newest
<1>6. Fresh
  BY <1>1, <1>2, <1>3 DEF Fresh, Newest
<1> QED
  BY <1>4, <1>5, <1>6 DEF PInv

LEMMA MountFits ==
  ASSUME NEW p, NEW pane, NEW t, NEW s \in Selections, NEW panes, Mount(p, pane, t, s, panes),
         p \in Pages, Framed, Watched, PageFits
  PROVE  PInv
<1>1. /\ page = p /\ sel = s /\ modal = "none" /\ copy = Empty /\ changes = [n \in Slots |-> Idle]
      /\ queue = Asked(panes, s, FALSE) /\ busy = (queue # <<>>)
  BY DEF Mount, Opened
<1>2. ChangesFit /\ \A n \in Slots : changes[n] = Idle
  BY <1>1 DEF ChangesFit
<1>3. Fetched(queue, sel)
  BY <1>1, FetchFits DEF Framed
<1> QED
  BY <1>1, <1>2, <1>3, OpenedFits

(* An instance mounts as the page module does.                             *)
LEMMA ConsoleMounts ==
  ASSUME NEW p, NEW pane, NEW t, NEW s, NEW panes, Console!Mount(p, pane, t, s, panes)
  PROVE  Mount(p, pane, t, s, panes)
BY DEF Console!Mount, Mount, Console!Opened, Opened, Console!Asked, Asked, Console!Fetch, Fetch,
       Console!Key, Key, Console!Anticipated, Anticipated, Console!Idle, Idle, Console!Empty, Empty,
       Console!NoKey, NoKey

LEMMA WebsitesMounts ==
  ASSUME NEW p, NEW pane, NEW t, NEW s, NEW panes, Websites!Mount(p, pane, t, s, panes)
  PROVE  Mount(p, pane, t, s, panes)
BY DEF Websites!Mount, Mount, Websites!Opened, Opened, Websites!Asked, Asked, Websites!Fetch, Fetch,
       Websites!Key, Key, Websites!Anticipated, Anticipated, Websites!Idle, Idle, Websites!Empty,
       Empty, Websites!NoKey, NoKey

LEMMA EmailMounts ==
  ASSUME NEW p, NEW pane, NEW t, NEW s, NEW panes, Email!Mount(p, pane, t, s, panes)
  PROVE  Mount(p, pane, t, s, panes)
BY DEF Email!Mount, Mount, Email!Opened, Opened, Email!Asked, Asked, Email!Fetch, Fetch, Email!Key,
       Key, Email!Anticipated, Anticipated, Email!Idle, Idle, Email!Empty, Empty, Email!NoKey, NoKey

LEMMA BillingMounts ==
  ASSUME NEW p, NEW pane, NEW t, NEW s, NEW panes, Billing!Mount(p, pane, t, s, panes)
  PROVE  Mount(p, pane, t, s, panes)
BY DEF Billing!Mount, Mount, Billing!Opened, Opened, Billing!Asked, Asked, Billing!Fetch, Fetch,
       Billing!Key, Key, Billing!Anticipated, Anticipated, Billing!Idle, Idle, Billing!Empty, Empty,
       Billing!NoKey, NoKey

LEMMA BackupsMounts ==
  ASSUME NEW p, NEW pane, NEW t, NEW s, NEW panes, Backups!Mount(p, pane, t, s, panes)
  PROVE  Mount(p, pane, t, s, panes)
BY DEF Backups!Mount, Mount, Backups!Opened, Opened, Backups!Asked, Asked, Backups!Fetch, Fetch,
       Backups!Key, Key, Backups!Anticipated, Anticipated, Backups!Idle, Idle, Backups!Empty, Empty,
       Backups!NoKey, NoKey

LEMMA AccountsMounts ==
  ASSUME NEW p, NEW pane, NEW t, NEW s, NEW panes, Accounts!Mount(p, pane, t, s, panes)
  PROVE  Mount(p, pane, t, s, panes)
BY DEF Accounts!Mount, Mount, Accounts!Opened, Opened, Accounts!Asked, Asked, Accounts!Fetch, Fetch,
       Accounts!Key, Key, Accounts!Anticipated, Anticipated, Accounts!Idle, Idle, Accounts!Empty,
       Empty, Accounts!NoKey, NoKey

LEMMA DatabasesMounts ==
  ASSUME NEW p, NEW pane, NEW t, NEW s, NEW panes, DatabasesP!Mount(p, pane, t, s, panes)
  PROVE  Mount(p, pane, t, s, panes)
BY DEF DatabasesP!Mount, Mount, DatabasesP!Opened, Opened, DatabasesP!Asked, Asked,
       DatabasesP!Fetch, Fetch, DatabasesP!Key, Key, DatabasesP!Anticipated, Anticipated,
       DatabasesP!Idle, Idle, DatabasesP!Empty, Empty, DatabasesP!NoKey, NoKey

LEMMA DomainsMounts ==
  ASSUME NEW p, NEW pane, NEW t, NEW s, NEW panes, DomainsP!Mount(p, pane, t, s, panes)
  PROVE  Mount(p, pane, t, s, panes)
BY DEF DomainsP!Mount, Mount, DomainsP!Opened, Opened, DomainsP!Asked, Asked, DomainsP!Fetch, Fetch,
       DomainsP!Key, Key, DomainsP!Anticipated, Anticipated, DomainsP!Idle, Idle, DomainsP!Empty,
       Empty, DomainsP!NoKey, NoKey

LEMMA ToolsMounts ==
  ASSUME NEW p, NEW pane, NEW t, NEW s, NEW panes, Tools!Mount(p, pane, t, s, panes)
  PROVE  Mount(p, pane, t, s, panes)
BY DEF Tools!Mount, Mount, Tools!Opened, Opened, Tools!Asked, Asked, Tools!Fetch, Fetch, Tools!Key,
       Key, Tools!Anticipated, Anticipated, Tools!Idle, Idle, Tools!Empty, Empty, Tools!NoKey, NoKey

LEMMA SiteMounts ==
  ASSUME NEW p, NEW pane, NEW t, NEW s, NEW panes, Site!Mount(p, pane, t, s, panes)
  PROVE  Mount(p, pane, t, s, panes)
BY DEF Site!Mount, Mount, Site!Opened, Opened, Site!Asked, Asked, Site!Fetch, Fetch, Site!Key, Key,
       Site!Anticipated, Anticipated, Site!Idle, Idle, Site!Empty, Empty, Site!NoKey, NoKey

LEMMA PhpMounts ==
  ASSUME NEW p, NEW pane, NEW t, NEW s, NEW panes, Php!Mount(p, pane, t, s, panes)
  PROVE  Mount(p, pane, t, s, panes)
BY DEF Php!Mount, Mount, Php!Opened, Opened, Php!Asked, Asked, Php!Fetch, Fetch, Php!Key, Key,
       Php!Anticipated, Anticipated, Php!Idle, Idle, Php!Empty, Empty, Php!NoKey, NoKey

LEMMA WebServersMounts ==
  ASSUME NEW p, NEW pane, NEW t, NEW s, NEW panes, WebServers!Mount(p, pane, t, s, panes)
  PROVE  Mount(p, pane, t, s, panes)
BY DEF WebServers!Mount, Mount, WebServers!Opened, Opened, WebServers!Asked, Asked,
       WebServers!Fetch, Fetch, WebServers!Key, Key, WebServers!Anticipated, Anticipated,
       WebServers!Idle, Idle, WebServers!Empty, Empty, WebServers!NoKey, NoKey

LEMMA SupportMounts ==
  ASSUME NEW p, NEW pane, NEW t, NEW s, NEW panes, Support!Mount(p, pane, t, s, panes)
  PROVE  Mount(p, pane, t, s, panes)
BY DEF Support!Mount, Mount, Support!Opened, Opened, Support!Asked, Asked, Support!Fetch, Fetch,
       Support!Key, Key, Support!Anticipated, Anticipated, Support!Idle, Idle, Support!Empty, Empty,
       Support!NoKey, NoKey

LEMMA ServersMounts ==
  ASSUME NEW p, NEW pane, NEW t, NEW s, NEW panes, ServersP!Mount(p, pane, t, s, panes)
  PROVE  Mount(p, pane, t, s, panes)
BY DEF ServersP!Mount, Mount, ServersP!Opened, Opened, ServersP!Asked, Asked, ServersP!Fetch, Fetch,
       ServersP!Key, Key, ServersP!Anticipated, Anticipated, ServersP!Idle, Idle, ServersP!Empty,
       Empty, ServersP!NoKey, NoKey

LEMMA ListsMounts ==
  ASSUME NEW p, NEW pane, NEW t, NEW s, NEW panes, Lists!Mount(p, pane, t, s, panes)
  PROVE  Mount(p, pane, t, s, panes)
BY DEF Lists!Mount, Mount, Lists!Opened, Opened, Lists!Asked, Asked, Lists!Fetch, Fetch, Lists!Key,
       Key, Lists!Anticipated, Anticipated, Lists!Idle, Idle, Lists!Empty, Empty, Lists!NoKey, NoKey


(* The pages as they are opened.                                           *)
LEMMA WebsitesOpens ==
  ASSUME "websites" \in Pages, Websites!Opens
  PROVE  PInv
<1>1. PICK pane, t, s, panes : pane \in Websites!Panes /\ s = <<"", "">> /\ Mount("websites", pane, t, s, panes)
  BY WebsitesMounts DEF Websites!Opens
<1>2. page = "websites" /\ eye \in Websites!Panes /\ modal = "none"
  BY <1>1 DEF Mount, Opened
<1>3. Framed /\ Watched
  BY <1>2 DEF Framed, Watched, FlatPages, DeepPages, Websites!Panes, Websites!Pane
<1>4. PageFits
  BY <1>2 DEF PageFits, Fits
<1>5. <<"", "">> \in Selections
  BY DEF Selections, Places
<1> QED
  BY <1>1, <1>3, <1>4, <1>5, MountFits

LEMMA EmailOpens ==
  ASSUME "email" \in Pages, Email!Opens
  PROVE  PInv
<1>1. PICK pane, t, s, panes : pane \in Email!Panes /\ s = <<"", "">> /\ Mount("email", pane, t, s, panes)
  BY EmailMounts DEF Email!Opens
<1>2. page = "email" /\ eye \in Email!Panes /\ modal = "none"
  BY <1>1 DEF Mount, Opened
<1>3. Framed /\ Watched
  BY <1>2 DEF Framed, Watched, FlatPages, DeepPages, Email!Panes, Email!Pane
<1>4. PageFits
  BY <1>2 DEF PageFits, Fits
<1>5. <<"", "">> \in Selections
  BY DEF Selections, Places
<1> QED
  BY <1>1, <1>3, <1>4, <1>5, MountFits

LEMMA BackupsOpens ==
  ASSUME "backups" \in Pages, Backups!Opens
  PROVE  PInv
<1>1. PICK pane, t, s, panes :
        pane \in Backups!Panes /\ s = <<"", "">> /\ t \in Backups!Tabs /\ Mount("backups", pane, t, s, panes)
  <2>1. "incremental" \in Backups!Tabs
    BY DEF Backups!Tabs
  <2> QED
    BY <2>1, BackupsMounts DEF Backups!Opens
<1>2. page = "backups" /\ eye \in Backups!Panes /\ modal = "none" /\ tab \in Backups!Tabs
  BY <1>1 DEF Mount, Opened
<1>3. Framed /\ Watched
  BY <1>2 DEF Framed, Watched, FlatPages, DeepPages, Backups!Panes, Backups!Pane, Backups!All
<1>4. PageFits
  BY <1>2 DEF PageFits, Fits
<1>5. <<"", "">> \in Selections
  BY DEF Selections, Places
<1> QED
  BY <1>1, <1>3, <1>4, <1>5, MountFits

LEMMA AccountsOpens ==
  ASSUME "accounts" \in Pages, Accounts!Opens
  PROVE  PInv
<1>1. PICK pane, t, s, panes : pane \in Accounts!Panes /\ s = <<"", "">> /\ Mount("accounts", pane, t, s, panes)
  BY AccountsMounts DEF Accounts!Opens
<1>2. page = "accounts" /\ eye \in Accounts!Panes /\ modal = "none"
  BY <1>1 DEF Mount, Opened
<1>3. Framed /\ Watched
  BY <1>2 DEF Framed, Watched, FlatPages, DeepPages, Accounts!Panes, Accounts!Pane, Accounts!All
<1>4. PageFits
  BY <1>2 DEF PageFits, Fits
<1>5. <<"", "">> \in Selections
  BY DEF Selections, Places
<1> QED
  BY <1>1, <1>3, <1>4, <1>5, MountFits

LEMMA SiteOpens ==
  ASSUME "site" \in Pages, Site!Opens
  PROVE  PInv
<1>1. PICK pane, t, s, panes : pane \in Site!Panes /\ s = <<"", "">> /\ Mount("site", pane, t, s, panes)
  BY SiteMounts DEF Site!Opens
<1>2. page = "site" /\ eye \in Site!Panes /\ modal = "none"
  BY <1>1 DEF Mount, Opened
<1>3. Framed /\ Watched
  BY <1>2 DEF Framed, Watched, FlatPages, DeepPages, Site!Panes, Site!Pane
<1>4. PageFits
  BY <1>2 DEF PageFits, Fits
<1>5. <<"", "">> \in Selections
  BY DEF Selections, Places
<1> QED
  BY <1>1, <1>3, <1>4, <1>5, MountFits

LEMMA SupportOpens ==
  ASSUME "support" \in Pages, Support!Opens
  PROVE  PInv
<1>1. PICK pane, t, s, panes : pane \in Support!Panes /\ s = <<"", "">> /\ Mount("support", pane, t, s, panes)
  BY SupportMounts DEF Support!Opens
<1>2. page = "support" /\ eye \in Support!Panes /\ modal = "none"
  BY <1>1 DEF Mount, Opened
<1>3. Framed /\ Watched
  BY <1>2 DEF Framed, Watched, FlatPages, DeepPages, Support!Panes, Support!Pane, Support!Leader,
         Support!All, Leads
<1>4. PageFits
  BY <1>2 DEF PageFits, Fits
<1>5. <<"", "">> \in Selections
  BY DEF Selections, Places
<1> QED
  BY <1>1, <1>3, <1>4, <1>5, MountFits

LEMMA ServersOpens ==
  ASSUME "servers" \in Pages, ServersP!Opens
  PROVE  PInv
<1>1. PICK pane, t, s, panes : pane \in ServersP!Panes /\ s = <<"", "">> /\ Mount("servers", pane, t, s, panes)
  BY ServersMounts DEF ServersP!Opens
<1>2. page = "servers" /\ eye \in ServersP!Panes /\ modal = "none"
  BY <1>1 DEF Mount, Opened
<1>3. Framed /\ Watched
  BY <1>2 DEF Framed, Watched, FlatPages, DeepPages, ServersP!Panes, ServersP!Pane, ServersP!All
<1>4. PageFits
  BY <1>2 DEF PageFits, Fits
<1>5. <<"", "">> \in Selections
  BY DEF Selections, Places
<1> QED
  BY <1>1, <1>3, <1>4, <1>5, MountFits

LEMMA ConsoleOpens ==
  ASSUME "console" \in Pages, Console!Opens
  PROVE  PInv
<1>1. PICK pane \in Console!Panes, d \in Items \cup {""} :
        Mount("console", pane, "structure", <<d, "">>, {"tree", "details", "aux"})
  BY ConsoleMounts DEF Console!Opens
<1>2. page = "console" /\ eye \in Console!Panes /\ modal = "none" /\ sel = <<d, "">>
  BY <1>1 DEF Mount, Opened
<1>3. Framed /\ Watched
  <2>1. Watched
    BY <1>2 DEF Watched, FlatPages, DeepPages
  <2>2. eye.scope \in 0..2 /\ eye.shuts \in {"none", "editor"} /\ ~eye.leads
    <3>1. eye \in Console!Panes
      BY <1>2
    <3>2. \A p \in Console!Panes : p.shuts = "none" /\ ~p.leads
      <4>1. \A name, scope, keeps :
              Console!Pane(name, scope, keeps).shuts = "none" /\ ~Console!Pane(name, scope, keeps).leads
        BY DEF Console!Pane
      <4> QED
        BY <4>1 DEF Console!Panes
    <3>3. eye.scope \in 0..2
      BY <1>2, <2>1, ConsoleScopes
    <3> QED
      BY <3>1, <3>2, <3>3
  <2> QED
    BY <1>2, <2>1, <2>2 DEF Framed
<1>4. <<d, "">> \in Selections
  BY DEF Selections, Places
<1>5. PageFits
  BY <1>2 DEF PageFits, Fits
<1> QED
  BY <1>1, <1>3, <1>4, <1>5, MountFits

LEMMA DomainsOpens ==
  ASSUME "domains" \in Pages, DomainsP!Opens
  PROVE  PInv
<1>1. PICK pane \in DomainsP!Panes, t \in {"registered", "search"} :
        Mount("domains", pane, t, <<"", "">>, DomainsP!All)
  BY DomainsMounts DEF DomainsP!Opens
<1>2. page = "domains" /\ eye \in DomainsP!Panes /\ modal = "none" /\ sel = <<"", "">>
  BY <1>1 DEF Mount, Opened
<1>3. Framed /\ Watched
  <2>1. Watched
    BY <1>2 DEF Watched, FlatPages, DeepPages
  <2>2. eye.scope \in 0..2 /\ eye.shuts \in {"none", "editor"} /\ ~eye.leads
    <3>1. eye \in DomainsP!Panes
      BY <1>2
    <3> QED
      BY <3>1 DEF DomainsP!Panes, DomainsP!Pane, DomainsP!All, DomainsP!Managed
  <2> QED
    BY <1>2, <2>1, <2>2 DEF Framed
<1>4. <<"", "">> \in Selections
  BY DEF Selections, Places
<1>5. PageFits
  BY <1>2 DEF PageFits, Fits
<1> QED
  BY <1>1, <1>3, <1>4, <1>5, MountFits

LEMMA DatabasesOpens ==
  ASSUME "databases" \in Pages, DatabasesP!Opens
  PROVE  PInv
<1>1. PICK pane \in DatabasesP!Panes, e \in Items :
        Mount("databases", pane, "list", <<e, "">>, DatabasesP!All)
  BY DatabasesMounts DEF DatabasesP!Opens
<1>2. page = "databases" /\ eye \in DatabasesP!Panes /\ modal = "none" /\ sel = <<e, "">>
  BY <1>1 DEF Mount, Opened
<1>3. Framed /\ Watched
  <2>1. Watched
    BY <1>2 DEF Watched, FlatPages, DeepPages
  <2>2. eye.scope \in 0..2 /\ eye.shuts \in {"none", "editor"} /\ ~eye.leads
    <3>1. eye \in DatabasesP!Panes
      BY <1>2
    <3> QED
      BY <3>1 DEF DatabasesP!Panes, DatabasesP!Pane, DatabasesP!All
  <2> QED
    BY <1>2, <2>1, <2>2 DEF Framed
<1>4. <<e, "">> \in Selections /\ (eye.scope \in {0, 1} => Full(<<e, "">>))
  BY ItemSelected
<1>5. PageFits
  BY <1>2, <1>3, <1>4, DatabasesScopes DEF PageFits, Fits
<1> QED
  BY <1>1, <1>3, <1>4, <1>5, MountFits

LEMMA PhpOpens ==
  ASSUME "php" \in Pages, Php!Opens
  PROVE  PInv
<1>1. PICK pane \in Php!Panes, e \in Items :
        Mount("php", pane, "overview", <<e, "">>, Php!loadVersions \cup Php!PerVersion)
  BY PhpMounts DEF Php!Opens
<1>2. page = "php" /\ eye \in Php!Panes /\ modal = "none" /\ sel = <<e, "">>
  BY <1>1 DEF Mount, Opened
<1>3. Framed /\ Watched
  <2>1. Watched
    BY <1>2 DEF Watched, FlatPages, DeepPages
  <2>2. eye.scope \in 0..2 /\ eye.shuts \in {"none", "editor"} /\ ~eye.leads
    <3>1. eye \in Php!Panes
      BY <1>2
    <3> QED
      BY <3>1 DEF Php!Panes, Php!Pane, Php!PerVersion
  <2> QED
    BY <1>2, <2>1, <2>2 DEF Framed
<1>4. <<e, "">> \in Selections /\ (eye.scope \in {0, 1} => Full(<<e, "">>))
  BY ItemSelected
<1>5. PageFits
  BY <1>2, <1>3, <1>4, PhpScopes DEF PageFits, Fits
<1> QED
  BY <1>1, <1>3, <1>4, <1>5, MountFits

LEMMA WebServersOpens ==
  ASSUME "webservers" \in Pages, WebServers!Opens
  PROVE  PInv
<1>1. PICK pane \in WebServers!Panes, e \in Items :
        Mount("webservers", pane, "overview", <<"", e>>, {"servers"})
  BY WebServersMounts DEF WebServers!Opens
<1>2. page = "webservers" /\ eye \in WebServers!Panes /\ modal = "none" /\ sel = <<"", e>>
  BY <1>1 DEF Mount, Opened
<1>3. Framed /\ Watched
  <2>1. Watched
    BY <1>2 DEF Watched, FlatPages, DeepPages
  <2>2. eye.scope \in 0..2 /\ eye.shuts \in {"none", "editor"} /\ ~eye.leads
    <3>1. eye \in WebServers!Panes
      BY <1>2
    <3> QED
      BY <3>1 DEF WebServers!Panes, WebServers!Pane
  <2> QED
    BY <1>2, <2>1, <2>2 DEF Framed
<1>4. <<"", e>> \in Selections /\ <<"", e>>[2] # ""
  BY ItemsAreNamed, PairParts DEF Selections, Places
<1>5. PageFits
  BY <1>2, <1>4 DEF PageFits, Fits
<1> QED
  BY <1>1, <1>3, <1>4, <1>5, MountFits

LEMMA ToolsOpens ==
  ASSUME "tools" \in Pages, Tools!Opens
  PROVE  PInv
<1>1. PICK t, pane, panes :
        t \in {"overview", "git", "caching", "runtime"} /\ pane \in Tools!Panes(t) /\ Mount("tools", pane, t, <<"", "">>, panes)
  <2>1. PICK t \in {"overview", "git", "caching", "runtime"} : \E pane \in Tools!Panes(t) :
          Tools!Mount("tools", pane, t, <<"", "">>, Tools!WordPress \cup Tools!Git \cup Tools!Cache \cup Tools!App)
    BY DEF Tools!Opens
  <2>2. PICK pane \in Tools!Panes(t) :
          Tools!Mount("tools", pane, t, <<"", "">>, Tools!WordPress \cup Tools!Git \cup Tools!Cache \cup Tools!App)
    BY <2>1
  <2> DEFINE all == Tools!WordPress \cup Tools!Git \cup Tools!Cache \cup Tools!App
  <2>3. Mount("tools", pane, t, <<"", "">>, all)
    BY <2>2, ToolsMounts
  <2> HIDE DEF all
  <2> QED
    BY <2>1, <2>2, <2>3
<1>2. page = "tools" /\ eye \in Tools!Panes(t) /\ modal = "none"
  BY <1>1 DEF Mount, Opened
<1>3. eye.scope = 0 /\ ~eye.leads /\ eye.shuts = "none"
  BY <1>2 DEF Tools!Panes, Tools!Pane
<1>4. Framed /\ Watched
  BY <1>2, <1>3 DEF Framed, Watched, FlatPages, DeepPages
<1>5. <<"", "">> \in Selections /\ PageFits
  BY <1>2 DEF Selections, Places, PageFits, Fits
<1> QED
  BY <1>1, <1>4, <1>5, MountFits

LEMMA ListsOpens ==
  ASSUME "lists" \in Pages, Lists!Opens
  PROVE  PInv
<1>1. PICK t, pane, panes : pane \in Lists!Panes(t) /\ Mount("lists", pane, t, <<"", "">>, panes)
  BY ListsMounts DEF Lists!Opens
<1>2. page = "lists" /\ eye \in Lists!Panes(t) /\ modal = "none" /\ tab = t
  BY <1>1 DEF Mount, Opened
<1>3. eye.scope = 0 /\ ~eye.leads /\ eye.shuts = "none" /\ eye.name \in Lists!Lists(t)
  BY <1>2 DEF Lists!Panes, Lists!Pane
<1>4. Framed /\ Watched
  BY <1>2, <1>3 DEF Framed, Watched, FlatPages, DeepPages
<1>5. <<"", "">> \in Selections /\ PageFits
  BY <1>2, <1>3 DEF Selections, Places, PageFits, Fits
<1> QED
  BY <1>1, <1>4, <1>5, MountFits

(* A payer comes back: the page opens with a change on its way.            *)
LEMMA BillingOpens ==
  ASSUME "billing" \in Pages, Billing!Opens
  PROVE  PInv
<1> DEFINE h == Billing!verifyReturn
<1>1. PICK pane \in Billing!Panes :
        \/ Billing!Mount("billing", pane, "packages", <<"", "">>, Billing!All)
        \/ Billing!MountSending("billing", pane, "packages", <<"", "">>, Billing!All, h)
  BY DEF Billing!Opens
<1>2. page = "billing" /\ eye \in Billing!Panes /\ modal = "none" /\ sel = <<"", "">>
  BY <1>1 DEF Billing!Mount, Billing!MountSending, Billing!Opened
<1>3. Framed /\ Watched
  <2>1. eye.scope = 0 /\ eye.shuts \in {"none", "editor"} /\ ~eye.leads
    <3>1. eye \in Billing!Panes
      BY <1>2
    <3> QED
      BY <3>1 DEF Billing!Panes, Billing!Pane, Billing!All
  <2>2. Watched
    BY <1>2, <2>1 DEF Watched, FlatPages, DeepPages
  <2> QED
    BY <2>1, <2>2 DEF Framed
<1>4. PageFits /\ sel \in Selections
  BY <1>2 DEF PageFits, Fits, Selections, Places
<1>5. CASE Billing!Mount("billing", pane, "packages", <<"", "">>, Billing!All)
  <2>1. Mount("billing", pane, "packages", <<"", "">>, Billing!All)
    BY <1>5, BillingMounts
  <2>2. <<"", "">> \in Selections
    BY DEF Selections, Places
  <2> QED
    BY <1>3, <1>4, <2>1, <2>2, MountFits
<1>6. CASE Billing!MountSending("billing", pane, "packages", <<"", "">>, Billing!All, h)
  <2>1. /\ copy = Empty /\ queue = Asked(Billing!All, sel, FALSE) /\ busy \in BOOLEAN
        /\ changes = [n \in Slots |-> IF n = 1 THEN Sent(h, sel, "none") ELSE Idle]
    BY <1>2, <1>6 DEF Billing!MountSending, Billing!Opened, Billing!Asked, Asked, Billing!Fetch,
       Fetch, Billing!Key, Key, Billing!Anticipated, Anticipated, Billing!Idle, Idle, Billing!Empty,
       Empty, Billing!NoKey, NoKey, Billing!Sent, Sent
  <2>2. Good(h) /\ h.before = {}
    BY <1>2 DEF Good, Plain, Minding, HandlerFields, Wholes, Billing!Change, Billing!Rewriting,
       Billing!Leading, Billing!loadData, Billing!ThenTab, Billing!All, Billing!verifyReturn
  <2> HIDE DEF h
  <2>3. Sendable(h, sel)
    <3>1. Full(sel)
      BY <1>2, <1>3, <1>4, NoScope DEF Watched, FlatPages
    <3> QED
      BY <1>2, <1>4, <2>2, <3>1, PlainSendable DEF Good
  <2>4. Trimmed(Sent(h, sel, modal).h, h)
    BY <2>2, SentIs DEF Good, Plain
  <2>5. /\ IsChange(Sent(h, sel, "none")) /\ HandlerFits(Sent(h, sel, "none").h)
        /\ Minds(Sent(h, sel, "none").h, sel) /\ Sent(h, sel, "none").at = sel
        /\ Sent(h, sel, "none").stage = "sent" /\ Sent(h, sel, "none").h.before = {}
    <3>1. HandlerFits(Sent(h, sel, "none").h) /\ Minds(Sent(h, sel, "none").h, sel)
      BY <1>2, <2>3 DEF Sendable
    <3>2. IsChange(Sent(h, sel, "none")) /\ Sent(h, sel, "none").at = sel /\ Sent(h, sel, "none").stage = "sent"
      BY <1>4 DEF Sent, IsChange
    <3>3. Sent(h, sel, "none").h.before = {}
      BY <1>2, <2>2, <2>4 DEF Trimmed
    <3> QED
      BY <3>1, <3>2, <3>3
  <2> DEFINE x == Sent(h, sel, "none")
  <2>6. changes = [n \in Slots |-> IF n = 1 THEN x ELSE Idle]
    BY <2>1
  <2>7. IsChange(x) /\ HandlerFits(x.h) /\ Minds(x.h, x.at) /\ x.stage = "sent" /\ x.h.before = {}
    BY <2>5
  <2> HIDE DEF x
  <2>8. ChangesFit /\ \A n \in Slots : changes[n] # Idle => changes[n].stage = "sent" /\ changes[n].h.before = {}
    BY <2>6, <2>7 DEF ChangesFit
  <2>9. Fetched(queue, sel)
    BY <1>3, <1>4, <2>1, FetchFits DEF Framed
  <2>10. page \in Pages
    BY <1>2
  <2> QED
    BY <1>3, <1>4, <2>1, <2>8, <2>9, <2>10, OpenedFits
<1> QED
  BY <1>1, <1>5, <1>6

(* The folder of an address is opened next to the first.                   *)
LEMMA FilesOpens ==
  ASSUME "files" \in Pages, FileManager!Opens
  PROVE  PInv
<1>1. PICK pane \in FileManager!Panes, d \in Items \cup {"home"}, twice \in BOOLEAN :
        LET s == IF pane.name = "listing" THEN <<d, "">> ELSE <<"", "">>
            first == IF pane.name = "listing" THEN FileManager!ListingOf("home") ELSE <<>> IN
        /\ eye = pane /\ page = "files" /\ tab = "files" /\ sel = s /\ modal = "none"
        /\ copy = FileManager!Empty
        /\ changes = [n \in Slots |-> FileManager!Idle]
        /\ queue = first \o (IF twice THEN FileManager!ListingOf(d) ELSE <<>>)
                      \o FileManager!Asked({"domains"}, s, FALSE)
        /\ busy = (queue # <<>>)
  BY DEF FileManager!Opens
<1> DEFINE s == IF pane.name = "listing" THEN <<d, "">> ELSE <<"", "">>
           first == IF pane.name = "listing" THEN FileManager!ListingOf("home") ELSE <<>>
           second == IF twice THEN FileManager!ListingOf(d) ELSE <<>>
           third == FileManager!Asked({"domains"}, s, FALSE)
<1>2. /\ eye = pane /\ page = "files" /\ sel = s /\ modal = "none" /\ copy = Empty
      /\ changes = [n \in Slots |-> Idle] /\ queue = (first \o second) \o third /\ busy \in BOOLEAN
  BY <1>1 DEF FileManager!Empty, Empty, FileManager!NoKey, NoKey, FileManager!Idle, Idle
<1>3. Framed /\ Watched
  <2>1. Watched
    BY <1>2 DEF Watched, FlatPages, DeepPages
  <2>2. eye.scope \in 0..2 /\ eye.shuts \in {"none", "editor"} /\ (eye.leads => eye.scope = 1)
    <3>1. eye \in FileManager!Panes
      BY <1>2
    <3> QED
      BY <3>1 DEF FileManager!Panes, FileManager!Pane, FileManager!Leader, FileManager!Shutting
  <2> QED
    BY <1>2, <2>1, <2>2 DEF Framed, Leads
<1>4. /\ <<d, "">> \in Selections /\ <<"home", "">> \in Selections /\ <<"", "">> \in Selections
      /\ s \in Selections /\ <<d, "">>[1] = d /\ d # ""
  BY ItemsAreNamed, PairParts DEF Selections, Places
<1>5. eye.name = "listing" => Full(s) /\ eye.leads
  BY <1>2, <1>3, <1>4, FilesScopes, FullIs
<1>6. PageFits
  BY <1>2, <1>5 DEF PageFits, Fits
<1> HIDE DEF s
<1>7. \A e \in Items \cup {"home"} : Fetched(FileManager!ListingOf(e), s)
  <2> TAKE e \in Items \cup {"home"}
  <2>1. FileManager!ListingOf(e) = Asked({"listing"}, <<e, "">>, FALSE)
    BY FilesAsked DEF FileManager!ListingOf
  <2>2. <<e, "">> \in Selections
    BY DEF Selections, Places
  <2>3. eye.name \in {"listing"} => eye.leads
    BY <1>5
  <2> QED
    BY <1>3, <1>4, <2>1, <2>2, <2>3, FetchFits DEF Framed
<1>8. Fetched(<<>>, s)
  BY NothingFetched
<1>9. Fetched(first, s) /\ Fetched(second, s)
  BY <1>7, <1>8
<1>10. Fetched(third, s)
  <2>1. third = Asked({"domains"}, s, FALSE)
    BY FilesAsked
  <2> QED
    BY <1>3, <1>4, <2>1, FetchFits DEF Framed
<1> HIDE DEF first, second, third
<1>11. Fetched(queue, sel)
  <2>1. Fetched(first \o second, s)
    BY <1>9, FetchedTogether
  <2> QED
    BY <1>2, <1>10, <2>1, FetchedTogether
<1>12. ChangesFit /\ \A n \in Slots : changes[n] = Idle
  BY <1>2 DEF ChangesFit
<1> QED
  BY <1>2, <1>3, <1>4, <1>6, <1>11, <1>12, OpenedFits


-----------------------------------------------------------------------------
(* The invariant holds from the start, and every step keeps it.            *)
LEMMA PanelInit ==
  ASSUME Init
  PROVE  PInv
BY ConsoleOpens, WebsitesOpens, EmailOpens, BillingOpens, FilesOpens, BackupsOpens, AccountsOpens,
   DatabasesOpens, DomainsOpens, ToolsOpens, SiteOpens, PhpOpens, WebServersOpens, SupportOpens,
   ServersOpens, ListsOpens DEF Init

LEMMA ActKeeps ==
  ASSUME PInv, Act
  PROVE  PInv'
BY ConsoleKeeps, WebsitesKeeps, EmailKeeps, BillingKeeps, FilesKeeps, BackupsKeeps, AccountsKeeps,
   DatabasesKeeps, DomainsKeeps, ToolsKeeps, SiteKeeps, PhpKeeps, WebServersKeeps, SupportKeeps,
   ServersKeeps, ListsKeeps DEF Act

LEMMA PanelStep ==
  ASSUME PInv, [Next]_vars
  PROVE  PInv'
<1>1. CASE Next
  BY <1>1, ActKeeps, CloseKeeps, NetworkKeeps DEF Next
<1>2. CASE UNCHANGED vars
  <2>1. /\ modal' = modal
        /\ UNCHANGED <<page, eye, tab, sel, copy, busy, queue, changes>>
    BY <1>2 DEF vars, view
  <2>2. Fits(tab, sel, modal) /\ (Kept(tab, sel, modal) => Held)
    BY DEF PInv, PageFits, Held
  <2> QED
    BY <2>1, <2>2, ModalKeeps
<1> QED
  BY <1>1, <1>2

(* On every page of the panel, and whatever the user and the network do,   *)
(* the watched pane is kept fresh wherever it shows.                       *)
THEOREM SpecPanelInv == Spec => []PInv
<1>1. Init => PInv
  BY PanelInit
<1>2. PInv /\ [Next]_vars => PInv'
  BY PanelStep
<1> QED
  BY <1>1, <1>2, PTL DEF Spec

-----------------------------------------------------------------------------
(* What the invariant says of the panes on screen.                         *)
LEMMA ShownIsHeld ==
  ASSUME Watched, PageFits, eye.name \in Shown
  PROVE  Held
<1>1. CASE page = "console"
  <2>1. eye.name \in Console!Shown
    BY <1>1 DEF Shown
  <2> QED
    BY <1>1, <2>1 DEF Held, Kept, Console!Shown, KeptByConsole, Console!TableChosen
<1>2. CASE page = "websites"
  <2>1. eye.name \in Websites!Shown
    BY <1>2 DEF Shown
  <2> QED
    BY <1>2, <2>1 DEF Held, Kept, Websites!Shown
<1>3. CASE page = "email"
  <2>1. eye.name \in Email!Shown
    BY <1>3 DEF Shown
  <2> QED
    BY <1>3, <2>1 DEF Held, Kept, Email!Shown, KeptByEmail, Email!fetchQueue
<1>4. CASE page = "files"
  <2>1. eye.name \in FileManager!Shown
    BY <1>4 DEF Shown
  <2> QED
    BY <1>4, <2>1 DEF Held, Kept, FileManager!Shown
<1>5. CASE page = "backups"
  <2>1. eye.name \in Backups!Shown
    BY <1>5 DEF Shown
  <2> QED
    BY <1>5, <2>1 DEF Held, Kept, PageFits, Fits, Backups!Shown, Backups!Tabs
<1>6. CASE page = "domains"
  <2>1. eye.name \in DomainsP!Shown
    BY <1>6 DEF Shown
  <2> QED
    BY <1>6, <2>1 DEF Held, Kept, DomainsP!Shown
<1>7. CASE page = "webservers"
  <2>1. eye.name \in WebServers!Shown
    BY <1>7 DEF Shown
  <2> QED
    BY <1>7, <2>1 DEF Held, Kept, WebServers!Shown
<1>8. CASE page = "support"
  <2>1. eye.name \in Support!Shown
    BY <1>8 DEF Shown
  <2> QED
    BY <1>8, <2>1 DEF Held, Kept, Support!Shown
<1>9. CASE page = "tools"
  <2>1. eye.name \in Tools!Shown
    BY <1>9 DEF Shown
  <2> QED
    BY <1>9, <2>1 DEF Held, Kept, Tools!Shown, WordPressPanes, Tools!Git, Tools!Cache, Tools!App
<1>10. CASE page \in (FlatPages \ {"tools"}) \cup {"databases", "php"}
  BY <1>10 DEF Held, Kept, FlatPages
<1> QED
  BY <1>1, <1>2, <1>3, <1>4, <1>5, <1>6, <1>7, <1>8, <1>9, <1>10 DEF Watched, FlatPages, DeepPages

LEMMA KeyLength ==
  ASSUME eye.scope \in 0..2, NEW k \in KeySet
  PROVE  Len(k) = eye.scope
<1>1. k \in Seq(Places) /\ DOMAIN k = 1..eye.scope /\ eye.scope \in Nat
  BY SeqDef DEF KeySet
<1>2. Len(k) \in Nat /\ DOMAIN k = 1..Len(k)
  BY <1>1, LenProperties
<1> QED
  BY <1>1, <1>2

LEMMA InvIsTyped ==
  ASSUME PInv
  PROVE  PanelTypeOK
<1>1. /\ page \in Pages /\ sel \in Places \X Places /\ copy \in Copy /\ busy \in BOOLEAN
      /\ eye.scope \in 0..2
  BY DEF PInv, Shapes, Selections
<1>2. copy.excuse \in {"none", "kept", "late", "astray"} /\ copy.behind \in BOOLEAN
      /\ copy.of \in KeySet \cup {NoKey} /\ copy.lacks \subseteq Slots /\ copy.claims \subseteq Slots
  BY <1>1 DEF Copy
<1>3. copy.of = NoKey \/ Len(copy.of) = eye.scope
  BY <1>1, <1>2, KeyLength
<1>4. /\ DOMAIN queue = 1..Len(queue)
      /\ \A i \in 1..Len(queue) :
           /\ queue[i].lacks \subseteq Slots /\ queue[i].of \in KeySet
           /\ queue[i].behind \in BOOLEAN /\ queue[i].astray \in BOOLEAN
           /\ queue[i].passed \in {"none", "patch", "answer"}
  BY QueueIs DEF PInv
<1>5. copy.claims \subseteq {n \in Slots : changes[n] # Idle /\ changes[n].stage = "sent"}
  BY <1>2 DEF PInv, Books
<1>6. ASSUME NEW held \in {copy} \cup {queue[i] : i \in DOMAIN queue}
      PROVE  held.lacks \subseteq {n \in Slots : changes[n] # Idle /\ changes[n].stage # "sent"}
  <2>1. CASE held = copy
    BY <1>2, <2>1 DEF PInv, Books, Misses
  <2>2. ASSUME NEW i \in 1..Len(queue), held = queue[i]
        PROVE  held.lacks \subseteq {n \in Slots : changes[n] # Idle /\ changes[n].stage # "sent"}
    BY <1>4, <2>2 DEF PInv, Books, Misses
  <2> QED
    BY <1>4, <1>6, <2>1, <2>2
<1>7. \A i \in DOMAIN queue :
        /\ Len(queue[i].of) = eye.scope
        /\ queue[i].behind \in BOOLEAN /\ queue[i].astray \in BOOLEAN
        /\ queue[i].passed \in {"none", "patch", "answer"}
  BY <1>1, <1>4, KeyLength
<1>8. ASSUME NEW n \in Slots, changes[n] # Idle
      PROVE  /\ changes[n].stage \in {"sent", "done", "refused", "lost", "failed"}
             /\ changes[n].h.writes \cup changes[n].h.asks \subseteq {eye.name}
  BY <1>8 DEF PInv, ChangesFit, IsChange, HandlerFits, Mine
<1> QED
  BY <1>1, <1>2, <1>3, <1>5, <1>6, <1>7, <1>8 DEF PanelTypeOK

(* Type correctness, for every page and any number of items, of changes    *)
(* and of fetches in flight: what apiFetch has not yet answered is about   *)
(* the pane, and no pane lacks or anticipates a change that has ended.     *)
THEOREM SpecPanelTypeOK == Spec => []PanelTypeOK
<1>1. PInv => PanelTypeOK
  BY InvIsTyped
<1> QED
  BY <1>1, SpecPanelInv, PTL

(* A pane on screen is of what is selected, once its fetches are answered. *)
(* The effects of every page and the handlers that select, open or lead    *)
(* elsewhere fetch, for where they go, each pane that shows there.         *)
THEOREM SpecNoForeignData == Spec => []NoForeignData
<1>1. PInv => NoForeignData
  <2> SUFFICES ASSUME PInv, queue = <<>>, eye.name \in Shown, copy.excuse = "none"
               PROVE  copy.of \in {NoKey, Key(sel)}
    BY DEF NoForeignData
  <2>1. Held
    BY ShownIsHeld DEF PInv
  <2> QED
    BY <2>1 DEF PInv, Fresh
<1> QED
  BY <1>1, SpecPanelInv, PTL

(* The user reads what the user wrote: once nothing is in flight, no pane  *)
(* on screen misses a change that its page reported as done, in whatever   *)
(* order the changes, the fetches around them and the selections went.     *)
THEOREM SpecReadYourWrites == Spec => []ReadYourWrites
<1>1. PInv => ReadYourWrites
  <2> SUFFICES ASSUME PInv, Quiet, eye.name \in Shown, copy.excuse \in {"none", "astray"}
               PROVE  ~copy.behind
    BY DEF ReadYourWrites
  <2>1. Held
    BY ShownIsHeld DEF PInv
  <2> QED
    BY <2>1 DEF PInv, Fresh, Quiet
<1> QED
  BY <1>1, SpecPanelInv, PTL
=============================================================================
