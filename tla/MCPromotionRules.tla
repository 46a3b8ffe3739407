-------------------------- MODULE MCPromotionRules --------------------------
(* Instances of PromotionRules: one signal for every way through            *)
(* should_promote and issue_key, and owners known by more or less.         *)
EXTENDS PromotionRules

Blank == [kind |-> "mail", sender |-> None, senderKind |-> "user", to |-> {}, headers |-> {},
          assignee |-> None, responder |-> None, finished |-> FALSE,
          link |-> None, subjectKey |-> None, apiKey |-> None]
Bare(kind) == [Blank EXCEPT !.kind = kind, !.senderKind = None]

MCInbox ==
  {[Blank EXCEPT !.sender = from, !.to = to, !.headers = headers] :
     from \in {None, "dana", "build"}, to \in {{}, {"me"}, {"team"}},
     headers \in {{}, {"list-id", "received"}}}
  \cup {[Blank EXCEPT !.sender = "jira", !.to = {"team"}, !.headers = {"list-id"}, !.link = k,
                      !.subjectKey = "KEY-2"] : k \in {None, "KEY-1"}}
  \cup {[Bare("jira") EXCEPT !.assignee = a, !.apiKey = "KEY-1"] : a \in {None, "acc", "other"}}
  \cup {[Bare("freshservice") EXCEPT !.responder = r, !.finished = f] :
          r \in {None, "agent"}, f \in BOOLEAN}
  \cup {Bare("manual")}

MCOwners ==
  {[addresses |-> a, account |-> c, agent |-> g, allowed |-> l] :
     a \in {{}, {"me"}}, c \in {None, "acc"}, g \in {None, "agent"}, l \in {{}, {"build"}}}
=============================================================================
