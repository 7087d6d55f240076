----------------------------- MODULE SupportPage -----------------------------
(***************************************************************************)
(* Tickets and articles (apps/web/src/app/support/page.tsx).  sel[1] is    *)
(* the ticket of the open thread, which the thread's own answer sets       *)
(* again.  Every handler but the one that opens a ticket patches the lists *)
(* whatever was answered.  The assistant's answers are never stored.       *)
(***************************************************************************)
EXTENDS PanelPage

CONSTANT Tickets

All == {"tickets", "articles", "stats", "canned"}
Panes == {Pane(p, 0, TRUE) : p \in All} \cup {Leader(Pane("thread", 1, FALSE))}

Shown ==
  {"stats"}
  \cup (CASE tab = "tickets" -> {"tickets"} [] tab = "knowledgebase" -> {"articles"} [] OTHER -> {})
  \cup (IF modal = "thread" THEN {"thread", "canned"} ELSE {})

Effects(t, s) == {}

-----------------------------------------------------------------------------
(* The handlers.                                                           *)
\* The counts at the top of the page are fetched once and for all.
Counted(h) == IF eye.name = "stats" THEN Forgetting(Change({"stats"}, {})) ELSE h

\* The previous ticket's replies stay until the answer.
handleOpenTicket(t) == OpenFor("thread", <<t, "">>, {}, {"thread"})
\* A reply is appended to the thread on screen when its answer comes.
handleSendReply ==
  {Staying(Flagged(Counted(Unchecked(Putting(Local({"thread", "tickets"})))), "reply")),
   Staying(Flagged(Unchecked(Putting(Local({"thread"}))), "reply"))}
handleCloseTicket == Staying(Counted(Unchecked(Local({"tickets", "thread"}))))
handleCreateTicket == Flagged(Counted(Local({"tickets"})), "create")
handleAskAI == Flagged(Change({}, {}), "ask")
handleVoteArticle == Staying(Counted(Unchecked(Local({"articles"}))))

-----------------------------------------------------------------------------
(* The regions of the page.                                                *)
TabBar == \E t \in {"tickets", "ai-assistant", "knowledgebase"} :
            t # tab /\ Acts /\ Look(t, sel, {})

Header == Open("create")

TicketTable == tab = "tickets" /\ Loaded("tickets") /\ \E t \in Tickets : handleOpenTicket(t)

Assistant == tab = "ai-assistant" /\ (Does(handleAskAI) \/ Open("create") \/ Open("article"))
Articles == tab = "knowledgebase" /\ Loaded("articles") /\ Open("article")

ThreadModal == \E h \in handleSendReply \cup {handleCloseTicket} : In("thread", h)
CreateModal == In("create", handleCreateTicket)
ArticleModal == In("article", handleVoteArticle)

-----------------------------------------------------------------------------
Opens == \E p \in Panes : Mount("support", p, "tickets", <<"", "">>, All)

Acting ==
  \/ TabBar \/ Header \/ TicketTable \/ Assistant \/ Articles
  \/ ThreadModal \/ CreateModal \/ ArticleModal
=============================================================================
