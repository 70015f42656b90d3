------------------------------ MODULE ChatPage ------------------------------
(***************************************************************************)
(* The chat page: one browser tab, and the server's conversations as it     *)
(* sees them.                                                               *)
(*                                                                         *)
(* Everything the page does waits for answers: its start-up, a new          *)
(* conversation, a conversation's stored turns, the sidebar's list, a       *)
(* deletion.  The user goes on meanwhile, answers come in any order, and    *)
(* each is applied when it comes, by the handler that waited for it.  A     *)
(* request is therefore sent (with the cookie of that moment), answered by  *)
(* the server, and applied by the page in three separate steps.             *)
(*                                                                         *)
(* The session is a cookie that lasts a week: a request without one is given *)
(* a new session, which the browser keeps when the answer arrives.          *)
(*                                                                         *)
(* The sidebar's currentConvId is not a variable: every handler that sets   *)
(* it also sets currentConversationId before it returns.                    *)
(***************************************************************************)
EXTENDS Naturals, Sequences, FiniteSets, FiniteSetsExt, SequencesExt

CONSTANTS
  MaxListed,    \* list_conversations' limit (50)
  MaxConvs,     \* bound: conversations ever created
  MaxSessions,  \* bound: sessions ever handed out
  MaxTexts,     \* bound: texts typed
  MaxSends,     \* bound: questions sent
  MaxCalls,     \* bound: requests under way at once
  MaxFailures   \* bound: requests that fail

ASSUME PageConstants ==
  /\ {MaxListed, MaxConvs, MaxSessions, MaxSends, MaxCalls} \subseteq Nat \ {0}
  /\ {MaxTexts, MaxFailures} \subseteq Nat

None == 0
Conv == 1..MaxConvs
Session == 1..MaxSessions
Slot == 1..MaxCalls
Earlier == MaxSends + 1  \* the turn of an earlier visit

VARIABLES
  conv,      \* the server's conversations
  given,     \* sessions handed out, 1..given
  jar,       \* the browser's session cookie
  last,      \* localStorage: lastConversationId
  current,   \* currentConversationId
  booting,   \* bootstrap still waits for initFeedback
  view,      \* conversationViews: what each shows, and whether it is loaded
  list,      \* conversations in the sidebar
  input,     \* the text in the input box
  typed,     \* texts typed so far
  call,      \* requests under way
  stream,    \* questions sent, in order
  unsure,    \* history: views a question was sent to before their load was over,
             \* or whose load was refused to a session that has come since
  failures   \* requests that failed so far

vars == <<conv, given, jar, last, current, booting, view, list, input, typed, call,
          stream, unsure, failures>>
page == <<last, current, booting, view, list, input, typed, stream, unsure>>
server == <<conv, given>>

-----------------------------------------------------------------------------
(* The server: HistoryStore behind /conversations and /chat *)

NoConv == [state |-> "none", owner |-> None, turns |-> <<>>, updated |-> 0]
Now == Max({conv[c].updated : c \in Conv}) + 1
Unused == {c \in Conv : conv[c].state = "none"}
Found(s, c) == conv[c].state = "live" /\ conv[c].owner = s
OwnedBy(s) == {c \in Conv : Found(s, c)}
\* ORDER BY updated_at DESC LIMIT
Listed(s) ==
  {c \in OwnedBy(s) :
     Cardinality({d \in OwnedBy(s) : conv[d].updated > conv[c].updated}) < MaxListed}

NewSessionAlways(s) == given + 1   \* mutant: the request's cookie is not looked at
\* _session_id: the cookie's session, or a new one.
SessionOf(s) == IF s = None THEN given + 1 ELSE s

Idle == [kind |-> "idle", conv |-> None, session |-> None, text |-> 0, answered |-> FALSE,
         cookie |-> None, ok |-> FALSE, listed |-> {}, turns |-> <<>>]
Request(kind, c, text, s) ==
  [Idle EXCEPT !.kind = kind, !.conv = c, !.session = s, !.text = text]

\* The answer to request k, and the session cookie it brings if it had none.
\* An HTTPException (404) drops the cookie that was set on the response.
Reply(k, answer) == call' = [call EXCEPT ![k] = [answer EXCEPT !.answered = TRUE]]
Cookie(k, answer) ==
  [answer EXCEPT !.cookie = IF SessionOf(call[k].session) = call[k].session
                            THEN None ELSE SessionOf(call[k].session)]
HandOut(k) ==
  /\ SessionOf(call[k].session) <= MaxSessions
  /\ given' = Max({given, SessionOf(call[k].session)})

Waiting(k, kind) == call[k].kind = kind /\ ~ call[k].answered

\* list_conversations: the session's conversations, the latest ones
ServeList(k) ==
  /\ Waiting(k, "list") /\ HandOut(k)
  /\ Reply(k, Cookie(k, [call[k] EXCEPT !.listed = Listed(SessionOf(call[k].session))]))
  /\ UNCHANGED <<conv, jar, page, failures>>

\* create_conversation
ServeNew(k) ==
  /\ Waiting(k, "new") /\ HandOut(k) /\ Unused # {}
  /\ LET c == Min(Unused) IN
     /\ conv' = [conv EXCEPT ![c] = [NoConv EXCEPT !.state = "live",
                                                   !.owner = SessionOf(call[k].session),
                                                   !.updated = Now]]
     /\ Reply(k, Cookie(k, [call[k] EXCEPT !.conv = c]))
  /\ UNCHANGED <<jar, page, failures>>

\* get_conversation, for a view or for bootstrap's test of lastConversationId
ServeDetail(k) ==
  /\ Waiting(k, "detail") \/ Waiting(k, "probe")
  /\ LET s == call[k].session
         c == call[k].conv
     IN  IF Found(s, c)
         THEN /\ HandOut(k)
              /\ Reply(k, Cookie(k, [call[k] EXCEPT !.ok = TRUE, !.turns = conv[c].turns]))
         ELSE Reply(k, call[k]) /\ UNCHANGED given
  /\ UNCHANGED <<conv, jar, page, failures>>

\* delete_conversation; its turns go with it
ServeDelete(k) ==
  /\ Waiting(k, "delete")
  /\ LET c == call[k].conv IN
     IF Found(call[k].session, c)
     THEN /\ HandOut(k)
          /\ conv' = [conv EXCEPT ![c] = [@ EXCEPT !.state = "gone", !.turns = <<>>]]
          /\ Reply(k, Cookie(k, [call[k] EXCEPT !.ok = TRUE]))
     ELSE Reply(k, call[k]) /\ UNCHANGED <<conv, given>>
  /\ UNCHANGED <<jar, page, failures>>

Serve(k) == ServeList(k) \/ ServeNew(k) \/ ServeDetail(k) \/ ServeDelete(k)

-----------------------------------------------------------------------------
(* The page *)

\* An answer is due that will fill the view of c anew: its stored turns, or the
\* creation of c itself.
Loading(c) == \E k \in Slot : call[k].kind \in {"detail", "new"} /\ call[k].conv = c
FreeSlots == {k \in Slot : call[k].kind = "idle"}
Send(k, request) == call' = [call EXCEPT ![k] = request]
Call(kind, c, text) == FreeSlots # {} /\ Send(Min(FreeSlots), Request(kind, c, text, jar))

\* Requests that may yet need a new conversation; there must be one for each.
Claims == {k \in Slot : call[k].kind \in {"probe", "delete"} \/ Waiting(k, "new")}
Room == Cardinality(Unused) > Cardinality(Claims) + (IF booting THEN 1 ELSE 0)

\* Texts that wait for ensureConversation
Ensuring == {k \in Slot : call[k].text # 0}

NoView == [loaded |-> FALSE, shown |-> <<>>]
SetCurrent(c) == current' = c /\ last' = c

\* A page is loaded, by a browser that has been here or not, its cookie expired or
\* not, and initSidebar has sent its first refresh.
Init ==
  /\ \E returning \in BOOLEAN, state \in {"live", "gone"} :
       /\ given = IF returning THEN 1 ELSE None
       /\ jar \in {None, given}
       /\ conv = [c \in Conv |->
            IF returning /\ c = 1
            THEN [state |-> state, owner |-> 1,
                  turns |-> IF state = "live" THEN <<Earlier>> ELSE <<>>, updated |-> 1]
            ELSE NoConv]
       /\ last \in IF returning THEN {None, 1} ELSE {None}
  /\ current = None /\ booting = TRUE
  /\ view = [c \in Conv |-> NoView] /\ list = {}
  /\ input = 0 /\ typed = 0 /\ stream = <<>> /\ unsure = {} /\ failures = 0
  /\ call = [k \in Slot |-> IF k = 1 THEN Request("list", None, 0, jar) ELSE Idle]

\* bootstrap, once initFeedback is over
Boot ==
  /\ booting /\ booting' = FALSE
  /\ IF last # None THEN Call("probe", last, 0) ELSE Call("new", None, 0)
  /\ UNCHANGED <<server, jar, last, current, view, list, input, typed, stream, unsure, failures>>

PollNever == FALSE /\ UNCHANGED vars   \* mutant: only what the user does refreshes
\* setInterval(refresh, POLL_MS)
Poll ==
  /\ Call("list", None, 0)
  /\ UNCHANGED <<server, jar, page, failures>>

\* The user writes a text, over whatever the box holds.
Type ==
  /\ typed < MaxTexts
  /\ typed' = typed + 1 /\ input' = typed + 1
  /\ UNCHANGED <<server, jar, last, current, booting, view, list, call, stream, unsure, failures>>

\* send, from `inputEl.value = ""` on: the box is emptied, the question shown in
\* the view of the current conversation c and posted to it.
SendTo(text, c, s) ==
  /\ input' = 0
  /\ stream' = Append(stream, [text |-> text, conv |-> c, session |-> s, at |-> "sent",
                               cookie |-> None])
  /\ view' = [view EXCEPT ![c] = [loaded |-> TRUE, shown |-> Append(@.shown, Len(stream) + 1)]]
  /\ unsure' = IF Loading(c) \/ ~ view[c].loaded THEN unsure \cup {c} ELSE unsure

\* Enter: without a current conversation, one is created first and the box left
\* as it is.
Enter ==
  /\ input # 0 /\ Len(stream) + Cardinality(Ensuring) < MaxSends
  /\ IF current # None THEN SendTo(input, current, jar) /\ UNCHANGED call
     ELSE /\ Room /\ Call("new", None, input)
          /\ UNCHANGED <<view, input, stream, unsure>>
  /\ UNCHANGED <<server, jar, last, current, booting, list, typed, failures>>

\* The "New" button
New ==
  /\ Room /\ Call("new", None, 0)
  /\ UNCHANGED <<server, jar, page, failures>>

\* A click in the list: loadConversation
Select(c) ==
  /\ c \in list /\ c # current
  /\ SetCurrent(c)
  /\ IF view[c].loaded THEN UNCHANGED call ELSE Call("detail", c, 0)
  /\ UNCHANGED <<server, jar, booting, view, list, input, typed, stream, unsure, failures>>

\* A click on the cross of a row, confirmed
Delete(c) ==
  /\ c \in list /\ Room /\ Call("delete", c, 0)
  /\ UNCHANGED <<server, jar, page, failures>>

-----------------------------------------------------------------------------
(* Answers, applied by whoever waited for them *)

Answered(k, kind) == call[k].kind = kind /\ call[k].answered
\* The cookie is kept before the handler goes on, and sent with what it requests.
Jar(k) == IF call[k].cookie # None THEN call[k].cookie ELSE jar
Finish(k) == Send(k, Idle)
GoOn(k, kind, c) == Send(k, Request(kind, c, call[k].text, Jar(k)))
StopHere(k) == Finish(k)   \* mutant: nothing takes the place of what is gone
StartAfresh(k) == GoOn(k, "new", None)

\* refresh; if a text waits for its conversation, newConversation returns and
\* send goes on, in whatever conversation is current by now.
ApplyList(k) ==
  /\ Answered(k, "list") /\ jar' = Jar(k)
  /\ list' = call[k].listed
  /\ IF call[k].text # 0 THEN SendTo(call[k].text, current, jar')
     ELSE UNCHANGED <<input, stream, view, unsure>>
  /\ Finish(k)
  /\ UNCHANGED <<server, last, current, booting, typed, failures>>

\* newConversation: an empty view, and a refresh it waits for.
ApplyNew(k) ==
  /\ Answered(k, "new") /\ jar' = Jar(k)
  /\ SetCurrent(call[k].conv)
  /\ view' = [view EXCEPT ![call[k].conv] = [loaded |-> TRUE, shown |-> <<>>]]
  /\ GoOn(k, "list", None)
  /\ UNCHANGED <<server, booting, list, input, typed, stream, unsure, failures>>

RenderedAfter(c, turns) ==   \* mutant: no replaceChildren before the turns
  [loaded |-> TRUE, shown |-> view[c].shown \o turns]
Rendered(c, turns) == [loaded |-> TRUE, shown |-> turns]
\* loadConversation: what the view holds gives way to the stored turns; if there
\* are none for this session, it counts as loaded all the same.
ApplyDetail(k) ==
  LET c == call[k].conv IN
  /\ Answered(k, "detail") /\ jar' = Jar(k)
  /\ view' = [view EXCEPT ![c] = IF call[k].ok THEN Rendered(c, call[k].turns)
                                 ELSE [@ EXCEPT !.loaded = TRUE]]
  /\ unsure' = IF ~ call[k].ok /\ conv[c].state = "live" THEN unsure \cup {c} ELSE unsure
  /\ Finish(k)
  /\ UNCHANGED <<server, last, current, booting, list, input, typed, stream, failures>>

\* bootstrap: the last conversation is loaded, wherever the user is by now, or a
\* new one is created.
ApplyProbe(k) ==
  LET c == call[k].conv IN
  /\ Answered(k, "probe") /\ jar' = Jar(k)
  /\ IF call[k].ok
     THEN /\ SetCurrent(c)
          /\ IF view[c].loaded THEN Finish(k) ELSE GoOn(k, "detail", c)
     ELSE StartAfresh(k) /\ UNCHANGED <<current, last>>
  /\ UNCHANGED <<server, booting, view, list, input, typed, stream, unsure, failures>>

\* The rest of the delete button's handler, whatever the answer was.
ApplyDelete(k) ==
  /\ Answered(k, "delete") /\ jar' = Jar(k)
  /\ IF call[k].conv = current THEN StartAfresh(k) ELSE GoOn(k, "list", None)
  /\ UNCHANGED <<server, page, failures>>

Apply(k) ==
  ApplyList(k) \/ ApplyNew(k) \/ ApplyDetail(k) \/ ApplyProbe(k) \/ ApplyDelete(k)

\* A request fails, before or after the server has seen it: whoever waited stops,
\* a text that waited stays in the box, a view that loaded is not loaded.
Fail(k) ==
  /\ call[k].kind # "idle" /\ failures < MaxFailures
  /\ failures' = failures + 1
  /\ Finish(k)
  /\ UNCHANGED <<server, jar, page>>

-----------------------------------------------------------------------------
(* Questions: POST /chat, whose turn is ChatTurns *)

\* post_chat and the start of the turn, or the conversation is not found.  The
\* headers carry the session whether the request had one or not.
StartTurn(i) ==
  LET s == SessionOf(stream[i].session) IN
  /\ stream[i].at = "sent" /\ s <= MaxSessions
  /\ given' = Max({given, s})
  /\ stream' = [stream EXCEPT ![i] =
       [@ EXCEPT !.at = IF Found(s, stream[i].conv) THEN "running" ELSE "refused", !.cookie = s]]
  /\ UNCHANGED <<conv, jar, last, current, booting, view, list, input, typed, call, unsure,
                 failures>>

\* The headers arrive, at whatever point of the turn.
Headers(i) ==
  /\ stream[i].cookie # None
  /\ jar' = stream[i].cookie
  /\ stream' = [stream EXCEPT ![i].cookie = None]
  /\ UNCHANGED <<server, last, current, booting, view, list, input, typed, call, unsure, failures>>

\* The turn is stored, if its conversation still exists.
StoreTurn(i) ==
  /\ stream[i].at = "running"
  /\ stream' = [stream EXCEPT ![i].at = "over"]
  /\ conv' = IF conv[stream[i].conv].state = "live"
             THEN [conv EXCEPT ![stream[i].conv] =
                     [@ EXCEPT !.turns = Append(conv[stream[i].conv].turns, i),
                               !.updated = Now]]
             ELSE conv
  /\ UNCHANGED <<given, jar, last, current, booting, view, list, input, typed, call, unsure,
                 failures>>

\* The request fails, or the turn ends without being stored: an error is shown.
\* Headers that are still on their way are lost.
LoseTurn(i) ==
  /\ stream[i].at \in {"sent", "running"} \/ stream[i].cookie # None
  /\ failures < MaxFailures /\ failures' = failures + 1
  /\ stream' = [stream EXCEPT ![i] =
       [@ EXCEPT !.at = IF stream[i].at \in {"sent", "running"} THEN "lost" ELSE stream[i].at,
                 !.cookie = None]]
  /\ UNCHANGED <<server, jar, last, current, booting, view, list, input, typed, call, unsure>>

-----------------------------------------------------------------------------
\* A week after a question was last answered or the session was handed out
\* (Max-Age; no other answer renews the cookie), the browser drops it.  Bound:
\* there must be sessions for all that may still be served without one.
Expire ==
  /\ jar # None /\ jar' = None
  /\ given + MaxCalls + MaxSends + (MaxFailures - failures) <= MaxSessions
  /\ UNCHANGED <<server, page, call, failures>>

Next ==
  \/ Boot \/ Poll \/ Type \/ Enter \/ New
  \/ \E c \in Conv : Select(c) \/ Delete(c)
  \/ \E k \in Slot : Serve(k) \/ Apply(k) \/ Fail(k)
  \/ \E i \in DOMAIN stream : StartTurn(i) \/ Headers(i) \/ StoreTurn(i) \/ LoseTurn(i)
  \/ Expire

\* The page starts, its timer ticks, the server answers and answers arrive; the
\* user owes nothing.
Fairness ==
  /\ SF_vars(Boot) /\ WF_vars(Poll)
  /\ \A k \in Slot : WF_vars(Serve(k)) /\ WF_vars(Apply(k))

Spec == Init /\ [][Next]_vars /\ Fairness

-----------------------------------------------------------------------------
(* Properties *)

TurnType == (1..MaxSends) \cup {Earlier}
Kinds == {"idle", "list", "new", "detail", "probe", "delete"}

\* Every variable has its shape, only live conversations have turns, only a text
\* that waits for a conversation is carried by a request, and the browser's
\* session is one that was handed out.
TypeOK ==
  /\ conv \in [Conv -> [state : {"none", "live", "gone"}, owner : Session \cup {None},
                        turns : Seq(TurnType), updated : Nat]]
  /\ \A c \in Conv : conv[c].state # "live" => conv[c].turns = <<>>
  /\ given \in 0..MaxSessions /\ jar \in 0..given
  /\ {last, current} \subseteq Conv \cup {None} /\ (current # None => last = current)
  /\ booting \in BOOLEAN /\ list \subseteq Conv
  /\ view \in [Conv -> [loaded : BOOLEAN, shown : Seq(TurnType)]]
  /\ typed \in 0..MaxTexts /\ input \in 0..typed
  /\ \A k \in Slot :
       /\ call[k].kind \in Kinds /\ call[k].conv \in Conv \cup {None}
       /\ {call[k].session, call[k].cookie} \subseteq 0..given
       /\ call[k].text # 0 => call[k].kind \in {"new", "list"} /\ call[k].text <= typed
       /\ call[k].listed \subseteq Conv /\ call[k].turns \in Seq(TurnType)
  /\ stream \in Seq([text : 1..MaxTexts, conv : Conv, session : 0..MaxSessions,
                      at : {"sent", "running", "refused", "over", "lost"}, cookie : 0..MaxSessions])
  /\ unsure \subseteq Conv /\ failures \in 0..MaxFailures

\* The turns of conversation c that a page should show: those that are stored and
\* those that are under way.
Due(c) == Range(conv[c].turns) \cup
          {i \in DOMAIN stream : stream[i].conv = c /\ stream[i].at \in {"sent", "running"}}

\* A view that counts as loaded shows every stored turn and every question under
\* way of its conversation, once, and none of another conversation, unless a
\* question was sent while the view's load was under way, or after it failed, or the
\* load was refused because the conversation is that of a session that has expired.
ViewTells(c) ==
  LET shown == view[c].shown IN
  /\ \A i, j \in DOMAIN shown : shown[i] = shown[j] => i = j
  /\ \A i \in Range(shown) : i # Earlier => stream[i].conv = c
  /\ view[c].loaded => Due(c) \subseteq Range(shown)
ViewsTell == \A c \in Conv \ unsure : ViewTells(c)

\* "in-flight streams keep mutating their own (detached) container and become
\* visible again the moment the user comes back" (app.js:290).
StreamsStayVisible ==
  \A i \in DOMAIN stream :
    stream[i].at \in {"sent", "running"} => i \in Range(view[stream[i].conv].shown)

\* Once the browser has a session and all that is under way carries it, nothing but
\* its expiry takes or replaces it, whatever is answered in whatever order; a browser
\* that comes back within the week starts like this.  On a first visit, and after the
\* expiry, requests overlap that carry none, each is given a session, and the one
\* that arrives last stays.
Settled ==
  /\ jar # None
  /\ \A k \in Slot : call[k].kind # "idle" => call[k].session = jar
  /\ \A i \in DOMAIN stream :
       /\ stream[i].at = "sent" => stream[i].session = jar
       /\ stream[i].cookie \in {None, jar}
SessionKept ==
  [][Settled /\ jar' # None => Settled' /\ jar' = jar /\ given' = given]_vars

\* The sidebar comes to list the conversations of the browser's session, the latest
\* ones as far as the limit goes: lists that were answered before a deletion, an
\* answer, an expiry or another list and arrive after it are corrected.
ListSettles == <>[](list = Listed(jar))

\* The start-up gives the page a conversation to write in, unless a request fails.
PageStarts == <>(current # None \/ failures > 0)
=============================================================================
