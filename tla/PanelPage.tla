----------------------------- MODULE PanelPage -----------------------------
(***************************************************************************)
(* What every page of the panel does with its data.  A page fetches lists  *)
(* from the API into React state, shows some of them, and its handlers     *)
(* send a change, await the answer and then fetch again what they believe  *)
(* they changed, or patch the state in place.  apiFetch                    *)
(* (apps/web/src/lib/api.ts) starts requests as they come: their answers   *)
(* arrive in any order, may fail, and never throw.                         *)
(*                                                                         *)
(* A pane is one piece of fetched state.  Panes never read each other, so  *)
(* the specification watches one of them, eye, picked at the start: what   *)
(* holds of it holds of every pane.  Data are abstracted to how the pane   *)
(* differs from the server: the changes of this page that it lacks.        *)
(***************************************************************************)
EXTENDS Naturals, Sequences

CONSTANTS
  Slots,    \* bound: changes of a page in flight at once, 1..n
  MaxAsks   \* bound: by page, fetches of the pane in flight when the user acts

VARIABLES
  page,     \* the page that is mounted
  eye,      \* the pane that is watched
  tab,      \* the page's active tab
  sel,      \* the page's selection, two parts, "" where nothing is selected
  modal,    \* the open modal, or "none"
  copy,     \* what the pane holds
  busy,     \* the pane's loading flag
  queue,    \* the pane's fetches in flight, in the order they were asked
  changes   \* the changes in flight

view == <<tab, sel, modal>>
vars == <<page, eye, view, copy, busy, queue, changes>>

Idle == [stage |-> "idle"]
NoKey == <<"none">>
Empty == [of |-> NoKey, lacks |-> {}, claims |-> {}, behind |-> FALSE,
          excuse |-> "none"]

(* A pane is fetched under the first `scope' parts of the selection.  When *)
(* its fetch fails it keeps what it holds, or is cleared; its modal may be *)
(* shut.  The answer of a leading pane's fetch sets the selection.         *)
Pane(name, scope, keeps) ==
  [name |-> name, scope |-> scope, keeps |-> keeps, shuts |-> "none", leads |-> FALSE]
Leader(pane) == [pane EXCEPT !.leads = TRUE]
Shutting(pane, m) == [pane EXCEPT !.shuts = m]
Key(s) == SubSeq(s, 1, eye.scope)

(* A handler: the panes whose data it changes on the server; the answers   *)
(* after which it goes on; the panes it then fetches again, those it       *)
(* patches itself before it sends or after it goes on (its answer put in   *)
(* the pane whatever that is about by then, if whole), those it clears and *)
(* fetches for where it leads, or fetches for what is on screen by then;   *)
(* those it fetches when it does not go on; the folder it fetches after    *)
(* any answer; whether its patch rewrites the pane with what it knew of it *)
(* when it was started, or its answer with what the server then told;      *)
(* whether it minds the pane it changes, or forgets to fetch or patch it   *)
(* (the README lists those); the flag that disables its button while it    *)
(* runs; when it closes its modal, which one it opens, and where it leads. *)
Change(writes, asks) ==
  [writes |-> writes, goesOn |-> {"done"}, asks |-> asks, before |-> {}, after |-> {},
   clears |-> {}, follows |-> {}, orElse |-> {}, visits |-> "", minds |-> TRUE, whole |-> FALSE,
   rewrites |-> FALSE, flag |-> "none", closes |-> "after", opens |-> "none",
   toTab |-> "same", toSel |-> <<"same", "same">>]
Local(writes) == [Change(writes, {}) EXCEPT !.after = writes]
Putting(h) == [h EXCEPT !.whole = TRUE]
Rewriting(h) == [h EXCEPT !.rewrites = TRUE]
Optimistic(writes) == [Change(writes, {}) EXCEPT !.before = writes]
Unchecked(h) == [h EXCEPT !.goesOn = {"done", "refused", "lost", "failed"}]
Flagged(h, flag) == [h EXCEPT !.flag = flag]
Also(h, panes) == [h EXCEPT !.asks = @ \cup panes, !.orElse = @ \cup panes]
Else(h, panes) == [h EXCEPT !.orElse = panes]
Patching(h, panes) == [h EXCEPT !.after = panes]
Staying(h) == [h EXCEPT !.closes = "never"]
Opening(h, m, panes) == [h EXCEPT !.opens = m, !.clears = panes]
Following(h, panes) == [h EXCEPT !.follows = panes]
Visiting(h, place) == [h EXCEPT !.visits = place]
Forgetting(h) == [h EXCEPT !.minds = FALSE]
Leading(h, t, s) == [h EXCEPT !.toTab = t, !.toSel = s]

-----------------------------------------------------------------------------
(* An answer to come.  passed: what has overtaken it since it was asked,   *)
(* the answer to a later fetch or a patch (also one the pane anticipates   *)
(* while its change is on its way); astray: it was asked for another       *)
(* selection; leads: it sets the selection, and opens that modal.          *)
Anticipated == \E n \in Slots : changes[n].stage = "sent" /\ changes[n].h.before # {}
Fetch(s, astray) == [of |-> Key(s), lacks |-> {}, behind |-> FALSE,
                     passed |-> IF Anticipated THEN "patch" ELSE "none", astray |-> astray,
                     leads |-> IF eye.leads THEN "here" ELSE "none"]

\* The fetch of the pane at selection s, if it is one of panes.
Asked(panes, s, astray) ==
  IF eye.name \in panes /\ \A i \in 1..eye.scope : s[i] # ""
  THEN <<Fetch(s, astray)>> ELSE <<>>

Passed(q) == [i \in DOMAIN q |-> [q[i] EXCEPT !.passed = IF @ = "none" THEN "patch" ELSE @]]

Room == Len(queue) < MaxAsks[page]
Acts == modal = "none" /\ Room

(* Once the page goes to tab t and selection s, a change that was sent     *)
(* from elsewhere is reported to another view than its own.                *)
Leaving(t, s) ==
  [n \in Slots |-> IF changes[n] = Idle \/ (t = tab /\ s = sel) THEN changes[n]
                   ELSE [changes[n] EXCEPT !.moved = TRUE]]

(* Once the pane has come to hold something else, the changes that rewrite *)
(* it will put back what it held when they were started.                   *)
Unaware(cs, changed) ==
  [n \in Slots |-> IF changed /\ cs[n] # Idle /\ cs[n].h.rewrites
                   THEN [cs[n] EXCEPT !.over = TRUE] ELSE cs[n]]

(* The user moves: the effects fetch the panes whose dependencies changed. *)
Ask(t, s, new) ==
  /\ tab' = t /\ sel' = s
  /\ queue' = queue \o new
  /\ busy' = (busy \/ new # <<>>)
  /\ changes' = Leaving(t, s)
  /\ UNCHANGED <<page, eye, modal, copy>>

Look(t, s, panes) == Ask(t, s, Asked(panes, s, FALSE))

Open(m) == Acts /\ modal' = m /\ UNCHANGED <<page, eye, tab, sel, copy, busy, queue, changes>>

\* A modal that is about one entry: what it clears and fetches as it opens.
OpenFor(m, s, clears, panes) ==
  /\ Acts
  /\ modal' = m /\ sel' = s
  /\ queue' = (IF eye.name \in clears THEN Passed(queue) ELSE queue) \o Asked(panes, s, FALSE)
  /\ busy' = (busy \/ Asked(panes, s, FALSE) # <<>>)
  /\ changes' = Unaware(Leaving(tab, s), eye.name \in clears)
  /\ copy' = IF eye.name \in clears THEN Empty ELSE copy
  /\ UNCHANGED <<page, eye, tab>>

Close == modal # "none" /\ modal' = "none"
         /\ UNCHANGED <<page, eye, tab, sel, copy, busy, queue, changes>>

\* A change on its way, about selection s, with what it does to the pane.
Sent(h, s, m) ==
  LET mine(panes) == panes \cap {eye.name} IN
  [stage |-> "sent", at |-> s, from |-> m, moved |-> FALSE, over |-> FALSE,
   h |-> [h EXCEPT !.writes = mine(@), !.asks = mine(@), !.orElse = mine(@),
            !.before = mine(@), !.after = mine(@), !.clears = mine(@),
            !.follows = mine(@), !.rewrites = @ /\ eye.name \in h.after]]

SubmitFor(h, s) ==
  \E n \in Slots :
    /\ changes[n] = Idle /\ \A k \in Slots : k < n => changes[k] # Idle
    /\ Room
    /\ \A k \in Slots : h.flag # "none" /\ changes[k] # Idle => changes[k].h.flag # h.flag
    /\ changes' = [Unaware(changes, eye.name \in h.before) EXCEPT ![n] = Sent(h, s, modal)]
    /\ IF eye.name \in h.before
       THEN /\ copy' = [copy EXCEPT !.claims = @ \cup {n}]
            /\ queue' = Passed(queue)
       ELSE UNCHANGED <<copy, queue>>
    /\ UNCHANGED <<page, eye, view, busy>>
Submit(h) == SubmitFor(h, sel)

Does(h) == Acts /\ Submit(h)
In(m, h) == modal = m /\ Submit(h)

\* The pane's rows and their buttons are on screen; and not its spinner.
Loaded(name) == eye.name = name => copy.of # NoKey
Filled(name) == Loaded(name) /\ (eye.name = name => ~busy)

-----------------------------------------------------------------------------
\* Whether change c, sent for a selection, is about what k is the key of.
About(c, k) == k # NoKey /\ \A i \in 1..eye.scope : c.at[i] \in {"", k[i]}

(* The server carries the change out or refuses it; "failed" and "lost"    *)
(* are answered alike (a timeout, a broken connection), but a lost one was *)
(* carried out.  The answers on their way were composed before or after.   *)
Serve(n, outcome) ==
  LET c == changes[n]
      hits == c.h.writes # {} /\ outcome \in {"done", "lost"} IN
  /\ c.stage = "sent"
  \* an answer that does as another one does is left out
  /\ outcome = "lost" => hits \/ (c.h.goesOn # {"done"} /\ outcome \in c.h.goesOn)
  /\ outcome = "failed" => "failed" \in c.h.goesOn /\ "refused" \notin c.h.goesOn
  /\ changes' = [changes EXCEPT ![n].stage = outcome]
  /\ copy' = [copy EXCEPT
       !.claims = @ \ {n},
       !.lacks = IF hits /\ n \notin copy.claims /\ About(c, copy.of) THEN @ \cup {n} ELSE @]
  /\ \E before \in SUBSET {i \in DOMAIN queue : hits /\ About(c, queue[i].of)} :
       queue' = [i \in DOMAIN queue |->
                   IF i \in before THEN [queue[i] EXCEPT !.lacks = @ \cup {n}] ELSE queue[i]]
  /\ UNCHANGED <<page, eye, view, busy>>

\* Bug: a change that has ended is still waited for.
ReportedKept(x, n, here) == [x EXCEPT !.behind = @ \/ (here /\ n \in x.lacks)]

(* Whether the handler of change c makes the pane it changes fresh: it     *)
(* patches or clears it, or fetches it for what the change was sent for.   *)
(* Other handlers only fetch what shows where they were started.           *)
Renews(c) ==
  \/ c.h.before \cup c.h.after \cup c.h.clears # {}
  \/ c.h.asks # {} /\ \A i \in 1..eye.scope : c.at[i] # ""

\* What misses a change that has been reported done is behind from then on.
Reported(x, n, here) == [x EXCEPT !.lacks = @ \ {n}, !.behind = @ \/ (here /\ n \in x.lacks)]

(* Where an answer leads.                                                  *)
On(c) == c.stage \in c.h.goesOn
TabAfter(c) == IF On(c) /\ c.h.toTab # "same" THEN c.h.toTab ELSE tab
SelAfter(c) ==
  [i \in DOMAIN sel |-> IF On(c) /\ c.h.toSel[i] # "same" THEN c.h.toSel[i] ELSE sel[i]]

(* The answer reaches the handler, which goes on with the selection of the *)
(* render it was started from; panes are those the effects fetch for the   *)
(* view it leads to.  The user counts on the change from now on: not if    *)
(* the handler forgets the pane, and not if it only sees to what showed    *)
(* where it was started and the user has gone elsewhere in the meantime.   *)
Answer(n, panes) ==
  LET c == changes[n]
      on == On(c)
      here == c.stage = "done" /\ c.h.minds /\ (c.moved => Renews(c))
      patches == c.h.after # {} /\ on
      s == SelAfter(c)
      again == IF on THEN c.h.asks ELSE c.h.orElse
      new == Asked(again, c.at, Key(c.at) # Key(s))
             \o Asked(panes \cup (IF on THEN c.h.clears \cup c.h.follows ELSE {}), s, FALSE)
             \o Asked(IF c.h.visits # "" /\ eye.leads THEN {eye.name} ELSE {}, <<c.h.visits, "">>, FALSE)
      old == [i \in DOMAIN queue |-> Reported(queue[i], n, here)] IN
  /\ c.stage \notin {"idle", "sent"}
  /\ changes' = [Unaware(Leaving(TabAfter(c), s), patches \/ (on /\ c.h.clears # {}))
                   EXCEPT ![n] = Idle]
  /\ copy' = LET p == IF patches /\ c.over
                      THEN [Empty EXCEPT !.of = Key(c.at), !.excuse = "late"]
                      ELSE IF patches /\ About(c, copy.of)
                      THEN [copy EXCEPT !.lacks = @ \ {n}]
                      ELSE IF patches /\ c.h.whole
                      THEN [Empty EXCEPT !.of = Key(c.at), !.excuse = "astray"]
                      ELSE copy IN
              IF on /\ c.h.clears # {} THEN Empty ELSE Reported(p, n, here)
  /\ queue' = (IF patches THEN Passed(old) ELSE old) \o new
  /\ busy' = (busy \/ new # <<>>)
  /\ tab' = TabAfter(c) /\ sel' = s
  /\ modal' = IF on /\ c.h.opens # "none" THEN c.h.opens
              ELSE IF (c.h.closes = "always" \/ (on /\ c.h.closes = "after")) /\ modal = c.from
                   THEN "none" ELSE modal
  /\ UNCHANGED <<page, eye>>

(* The answer to a fetch is put in the pane. *)
PutDown(i, ok) ==
  LET a == queue[i] IN
  /\ queue' = LET moves(b) == ok /\ a.leads # "none" /\ b.of[1] # a.of[1]
                  rest == [j \in 1..Len(queue) - 1 |->
                             IF j < i THEN [queue[j] EXCEPT !.passed = "answer"] ELSE queue[j + 1]]
              IN [j \in DOMAIN rest |-> [rest[j] EXCEPT !.astray = @ \/ moves(rest[j])]]
  /\ copy' = IF ok THEN [Empty EXCEPT !.of = a.of, !.lacks = a.lacks, !.behind = a.behind,
                           !.excuse = IF a.passed # "none" THEN "late"
                                      ELSE IF a.astray THEN "astray" ELSE "none"]
             ELSE IF ~eye.keeps THEN Empty
             ELSE IF a.passed = "answer" /\ copy.of = a.of THEN copy ELSE [copy EXCEPT !.excuse = "kept"]
  /\ busy' = FALSE
  /\ sel' = IF ok /\ a.leads # "none" THEN [sel EXCEPT ![1] = a.of[1]] ELSE sel
  /\ changes' = Unaware(Leaving(tab, sel'), ok \/ ~eye.keeps)
  /\ modal' = IF ok THEN IF a.leads \in {"none", "here"} THEN modal ELSE a.leads
              ELSE IF modal = eye.shuts THEN "none" ELSE modal
  /\ UNCHANGED <<page, eye, tab>>

(* A page is mounted with nothing in its panes; what an unmounted page had *)
(* in flight can no longer show.  It may send a change as it opens.        *)
Opened(p, pane, t, s, panes) ==
  /\ page = p /\ eye = pane /\ tab = t /\ sel = s /\ modal = "none" /\ copy = Empty
  /\ queue = Asked(panes, s, FALSE) /\ busy = (queue # <<>>)
Mount(p, pane, t, s, panes) ==
  changes = [n \in Slots |-> Idle] /\ Opened(p, pane, t, s, panes)
MountSending(p, pane, t, s, panes, h) ==
  /\ eye = pane
  /\ changes = [n \in Slots |-> IF n = 1 THEN Sent(h, s, "none") ELSE Idle]
  /\ Opened(p, pane, t, s, panes)
=============================================================================
