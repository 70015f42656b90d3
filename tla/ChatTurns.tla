----------------------------- MODULE ChatTurns -----------------------------
(***************************************************************************)
(* Turns of the chat.  A question is appended to the conversation's last    *)
(* stored transcript, goes back and forth between Claude and the database,  *)
(* and ends with an answer that is stored together with the transcript the  *)
(* next turn continues from.                                                *)
(*                                                                         *)
(* Each turn is a generator on the event loop; it can be suspended at every *)
(* await and at every event it yields, and abandoned there when the browser *)
(* disconnects.  Input stays enabled while a turn runs, and a conversation  *)
(* may be open in two tabs, so turns of one conversation may overlap.       *)
(* Conversations are created and deleted by other threads; HistoryStore     *)
(* makes each of its writes one transaction under a lock.                   *)
(***************************************************************************)
EXTENDS Naturals, Sequences, FiniteSets, FiniteSetsExt, SequencesExt

CONSTANTS
  Session,      \* session cookies
  Conv,         \* conversation ids
  Turn,         \* turns, one question each
  Nobody,       \* the owner of no conversation, the title of an untitled one
  MaxMessages,  \* TRANSCRIPT_CAP (40)
  Faults,       \* "claude": a call raises; "store": SQLite raises; "log": a
                \* line of queries.jsonl cannot be written
  MaxRounds,    \* bound: tool rounds of a turn (the code has none)
  MaxQueries,   \* bound: queries of one tool round
  MaxCrashes    \* bound: restarts in a behaviour

ASSUME ChatConstants ==
  /\ Nobody \notin Session \cup Turn
  /\ MaxMessages \in Nat \ {0}
  /\ Faults \subseteq {"claude", "store", "log"}
  /\ MaxRounds \in Nat /\ MaxQueries \in Nat /\ MaxCrashes \in Nat

VARIABLES
  conv,       \* the SQLite history
  task,       \* locals of stream_turn, per turn
  titles,     \* turns whose title is being generated
  summaries,  \* "turn_summary" lines of queries.jsonl, per turn
  unlogged,   \* history: turns of which a line could not be written
  overlapped, \* history: conversations in which two turns were active at once
  crashes     \* restarts so far

vars == <<conv, task, titles, summaries, unlogged, overlapped, crashes>>

NoConv == [state |-> "none", owner |-> Nobody, title |-> Nobody, turns |-> <<>>]
NoTask == [at |-> "idle", session |-> Nobody, conv |-> Nobody, transcript |-> <<>>,
           start |-> 0, round |-> 0, left |-> 0, ran |-> 0, logged |-> 0,
           parsed |-> TRUE, status |-> "aborted"]

Active == {"calling", "running", "logging", "answering", "truncated", "leaving"}

-----------------------------------------------------------------------------
(* Messages and transcripts *)

\* A user's question (a string), a tool call, its results (a user message that
\* is a list), the final answer.
Message(kind, t, round) == [kind |-> kind, turn |-> t, round |-> round]
IsAsk(m) == m.kind = "ask"
Asks(tr) == {i \in DOMAIN tr : IsAsk(tr[i])}
From(tr, i) == SubSeq(tr, i, Len(tr))

CapNaive(tr) ==   \* mutant: the last messages, wherever that cuts
  From(tr, IF Len(tr) <= MaxMessages THEN 1 ELSE Len(tr) - MaxMessages + 1)
\* _cap_to_turn_boundary
Cap(tr) ==
  LET fit == {i \in Asks(tr) : Len(From(tr, i)) <= MaxMessages}
  IN  IF Len(tr) <= MaxMessages THEN tr
      ELSE IF Asks(tr) = {} THEN From(tr, Len(tr) - MaxMessages + 1)
      ELSE IF fit # {} THEN From(tr, Min(fit))
      ELSE From(tr, Max(Asks(tr)))

\* _sanitize_transcript
Sanitize(tr) == IF Asks(tr) = {} THEN <<>> ELSE From(tr, Min(Asks(tr)))

\* get_transcript
LastTranscript(c) ==
  IF conv[c].turns = <<>> THEN <<>> ELSE Sanitize(Last(conv[c].turns).transcript)

\* Of a past turn, its question and its answer.
Kept(tr) ==
  LET kept[n \in 0..Len(tr)] ==
        IF n = 0 THEN <<>>
        ELSE IF tr[n].kind \in {"ask", "answer"} THEN Append(kept[n - 1], tr[n]) ELSE kept[n - 1]
  IN  kept[Len(tr)]

\* mutant: tool results, which are user messages too, start the current turn
CompressToLastUser(tr) ==
  LET user == {i \in DOMAIN tr : tr[i].kind \in {"ask", "result"}}
  IN  IF user = {} THEN tr ELSE Kept(SubSeq(tr, 1, Max(user) - 1)) \o From(tr, Max(user))
\* _compress_past_turns_for_claude: past turns keep question and answer, the
\* current one everything, messages before the first question stay.
Compress(tr) ==
  LET first == Min(Asks(tr))
      last  == Max(Asks(tr))
  IN  IF Asks(tr) = {} THEN tr
      ELSE SubSeq(tr, 1, first - 1) \o Kept(SubSeq(tr, first, last - 1)) \o From(tr, last)

-----------------------------------------------------------------------------
(* Conversations *)

FoundAnyones(s, c) == conv[c].state = "live"     \* mutant: the session is not looked at
Found(s, c) == conv[c].state = "live" /\ conv[c].owner = s

Init ==
  /\ conv = [c \in Conv |-> NoConv]
  /\ task = [t \in Turn |-> NoTask]
  /\ titles = {} /\ summaries = [t \in Turn |-> <<>>]
  /\ unlogged = {} /\ overlapped = {} /\ crashes = 0

Create(s, c) ==
  /\ conv[c].state = "none"
  /\ conv' = [conv EXCEPT ![c] = [NoConv EXCEPT !.state = "live", !.owner = s]]
  /\ UNCHANGED <<task, titles, summaries, unlogged, overlapped, crashes>>

\* Turns go with their conversation (ON DELETE CASCADE).
Delete(s, c) ==
  /\ conv[c].state = "live" /\ conv[c].owner = s
  /\ conv' = [conv EXCEPT ![c] = [@ EXCEPT !.state = "gone", !.title = Nobody, !.turns = <<>>]]
  /\ UNCHANGED <<task, titles, summaries, unlogged, overlapped, crashes>>

-----------------------------------------------------------------------------
(* A turn: stream_turn *)

\* The transcript is read once, here, and written once, at the end.
Ask(s, t, c) ==
  LET tr == Append(LastTranscript(c), Message("ask", t, 0)) IN
  /\ task[t].at = "idle" /\ Found(s, c)
  /\ task' = [task EXCEPT ![t] = [NoTask EXCEPT !.at = "calling", !.session = s, !.conv = c,
                                                !.transcript = tr, !.start = Len(tr)]]
  /\ overlapped' = IF \E u \in Turn : task[u].at \in Active /\ task[u].conv = c
                   THEN overlapped \cup {c} ELSE overlapped
  /\ UNCHANGED <<conv, titles, summaries, unlogged, crashes>>

\* "conversation not found": no turn, no summary.
Refuse(s, t, c) ==
  /\ task[t].at = "idle" /\ ~ Found(s, c)
  /\ task' = [task EXCEPT ![t].at = "refused"]
  /\ UNCHANGED <<conv, titles, summaries, unlogged, overlapped, crashes>>

\* Claude asks for queries; the turn waits for all of them.
CallTools(t) ==
  /\ task[t].at = "calling" /\ task[t].round < MaxRounds
  /\ \E n \in 1..MaxQueries :
       task' = [task EXCEPT ![t] =
                  [task[t] EXCEPT !.at = "running", !.round = @ + 1, !.left = n,
                                  !.transcript = Append(@, Message("call", t, task[t].round + 1))]]
  /\ UNCHANGED <<conv, titles, summaries, unlogged, overlapped, crashes>>

\* The queries have been run, each with a result or an error.
RunQueries(t) ==
  /\ task[t].at = "running"
  /\ task' = [task EXCEPT ![t] = [task[t] EXCEPT !.at = "logging", !.ran = @ + task[t].left]]
  /\ UNCHANGED <<conv, titles, summaries, unlogged, overlapped, crashes>>

LinePerRound(t) == IF task[t].left > 1 THEN 0 ELSE 1   \* mutant: one line per tool round
LinePerQuery(t) == 1

Told(t, lines) ==
  LET told == [task[t] EXCEPT !.logged = @ + lines, !.left = @ - 1]
  IN  IF told.left > 0 THEN told
      ELSE [told EXCEPT !.at = "calling",
                        !.transcript = Append(@, Message("result", t, task[t].round))]

\* One audit line and one step event per query; then the results go back.  The
\* turn does not learn of a line that AuditLog.append fails to write.
LogQuery(t) ==
  /\ task[t].at = "logging"
  /\ \/ task' = [task EXCEPT ![t] = Told(t, LinePerQuery(t))] /\ UNCHANGED unlogged
     \/ /\ "log" \in Faults
        /\ task' = [task EXCEPT ![t] = Told(t, 0)] /\ unlogged' = unlogged \cup {t}
  /\ UNCHANGED <<conv, titles, summaries, overlapped, crashes>>

\* The final answer, which may not parse; its events go out before it is stored.
Answer(t) ==
  /\ task[t].at = "calling"
  /\ \E parsed \in BOOLEAN :
       task' = [task EXCEPT ![t] = [task[t] EXCEPT !.at = "answering", !.parsed = parsed,
                                                   !.transcript = Append(@, Message("answer", t, 0))]]
  /\ UNCHANGED <<conv, titles, summaries, unlogged, overlapped, crashes>>

\* A reply cut off at max_tokens: the error goes out before the turn is stored.
Truncate(t) ==
  /\ task[t].at = "calling"
  /\ task' = [task EXCEPT ![t] = [@ EXCEPT !.at = "truncated", !.status = "error"]]
  /\ UNCHANGED <<conv, titles, summaries, unlogged, overlapped, crashes>>

\* append_turn; a conversation that is gone is not written to, and nobody told.
Stored(t, tr) ==
  LET c == task[t].conv
      turn == [turn |-> t, own |-> From(tr, task[t].start), transcript |-> Cap(tr)]
  IN  IF Found(task[t].session, c) THEN [conv EXCEPT ![c].turns = Append(@, turn)] ELSE conv

\* The generation of a title starts with the answer of a first turn.
StoreAnswer(t) ==
  /\ task[t].at = "answering"
  /\ conv' = Stored(t, task[t].transcript)
  /\ titles' = IF task[t].start = 1 THEN titles \cup {t} ELSE titles
  /\ task' = [task EXCEPT ![t] = [@ EXCEPT !.at = "leaving",
                                           !.status = IF task[t].parsed THEN "ok" ELSE "error"]]
  /\ UNCHANGED <<summaries, unlogged, overlapped, crashes>>

\* The transcript is rolled back to the question.
StoreQuestion(t) ==
  /\ task[t].at = "truncated"
  /\ conv' = Stored(t, SubSeq(task[t].transcript, 1, task[t].start))
  /\ task' = [task EXCEPT ![t].at = "leaving"]
  /\ UNCHANGED <<titles, summaries, unlogged, overlapped, crashes>>

ExceptionSwallowed(t) ==   \* mutant: a failed write does not break the chat
  /\ task[t].at \in {"answering", "truncated"} /\ "store" \in Faults
  /\ task' = [task EXCEPT ![t] = [@ EXCEPT !.at = "leaving", !.status = "ok"]]
  /\ UNCHANGED <<conv, titles, summaries, unlogged, overlapped, crashes>>
\* A call of Claude or a write of the turn raises: reported, nothing is stored.
Exception(t) ==
  /\ \/ task[t].at = "calling" /\ "claude" \in Faults
     \/ task[t].at \in {"answering", "truncated"} /\ "store" \in Faults
  /\ task' = [task EXCEPT ![t] = [@ EXCEPT !.at = "leaving", !.status = "error"]]
  /\ UNCHANGED <<conv, titles, summaries, unlogged, overlapped, crashes>>

\* A generator that is over has no locals; what it ran and logged is history.
Over(t, at) == [NoTask EXCEPT !.at = at, !.session = task[t].session, !.conv = task[t].conv,
                              !.ran = task[t].ran, !.logged = task[t].logged,
                              !.status = task[t].status]

\* finally: _write_turn_summary, a line of the same log.
WriteSummary(t) ==
  \/ summaries' = [summaries EXCEPT ![t] = Append(@, task[t].status)] /\ UNCHANGED unlogged
  \/ "log" \in Faults /\ unlogged' = unlogged \cup {t} /\ UNCHANGED summaries

Leave(t) ==
  /\ task[t].at = "leaving"
  /\ task' = [task EXCEPT ![t] = Over(t, "done")]
  /\ WriteSummary(t)
  /\ UNCHANGED <<conv, titles, overlapped, crashes>>

\* The browser disconnects: whatever the turn waits for is cancelled, and only
\* its finally runs.  Queries that have started go on in their threads.
Disconnect(t) ==
  /\ task[t].at \in Active
  /\ \E started \in IF task[t].at = "running" THEN {0, task[t].left} ELSE {0} :
       task' = [task EXCEPT ![t] = [Over(t, "done") EXCEPT !.ran = @ + started]]
  /\ WriteSummary(t)
  /\ UNCHANGED <<conv, titles, overlapped, crashes>>

\* _generate_title, a background task: best effort, in no hurry.
Title(t) ==
  LET c == task[t].conv IN
  /\ t \in titles /\ titles' = titles \ {t}
  /\ \/ conv' = IF Found(task[t].session, c) THEN [conv EXCEPT ![c].title = t] ELSE conv
     \/ "claude" \in Faults /\ conv' = conv
  /\ UNCHANGED <<task, summaries, unlogged, overlapped, crashes>>

\* History and log are files; everything else is in the process.
Crash ==
  /\ crashes < MaxCrashes /\ crashes' = crashes + 1
  /\ task' = [t \in Turn |-> IF task[t].at \in Active THEN Over(t, "lost") ELSE task[t]]
  /\ titles' = {}
  /\ UNCHANGED <<conv, summaries, unlogged, overlapped>>

Next ==
  \/ \E s \in Session, c \in Conv : Create(s, c) \/ Delete(s, c)
  \/ \E s \in Session, t \in Turn, c \in Conv : Ask(s, t, c) \/ Refuse(s, t, c)
  \/ \E t \in Turn : CallTools(t) \/ RunQueries(t) \/ LogQuery(t)
  \/ \E t \in Turn : Answer(t) \/ Truncate(t) \/ StoreAnswer(t) \/ StoreQuestion(t)
  \/ \E t \in Turn : Exception(t) \/ Leave(t) \/ Disconnect(t) \/ Title(t)
  \/ Crash

Spec == Init /\ [][Next]_vars

-----------------------------------------------------------------------------
(* Properties *)

MessageType == [kind : {"ask", "call", "result", "answer"}, turn : Turn, round : 0..MaxRounds]
StoredType == [turn : Turn, own : Seq(MessageType), transcript : Seq(MessageType)]

\* Every variable has its shape, and a conversation that is gone, or not there
\* yet, has no turns and no title.
TypeOK ==
  /\ \A c \in Conv :
       /\ conv[c].state \in {"none", "live", "gone"}
       /\ conv[c].owner \in Session \cup {Nobody} /\ conv[c].title \in Turn \cup {Nobody}
       /\ conv[c].turns \in Seq(StoredType)
       /\ conv[c].state # "live" => conv[c].turns = <<>> /\ conv[c].title = Nobody
  /\ \A t \in Turn :
       /\ task[t].at \in Active \cup {"idle", "refused", "done", "lost"}
       /\ task[t].transcript \in Seq(MessageType)
       /\ task[t].start \in 0..Len(task[t].transcript)
       /\ {task[t].left, task[t].ran, task[t].logged} \subseteq Nat
       /\ task[t].status \in {"aborted", "ok", "error"}
  /\ titles \cup unlogged \subseteq Turn /\ overlapped \subseteq Conv /\ crashes \in 0..MaxCrashes
  /\ summaries \in [Turn -> Seq({"aborted", "ok", "error"})]

\* What Claude is sent has the form of a conversation the API accepts, whatever
\* was stored, capped, healed and compressed on the way: it starts with a
\* question, ends with a user message, and each tool call is followed by its own
\* results.  The form only: a reply without text is stored as an empty answer,
\* and the API would refuse it in the next request for its content.
RequestsValid ==
  \A t \in Turn : task[t].at = "calling" =>
    LET m == Compress(task[t].transcript) IN
    /\ m # <<>> /\ IsAsk(m[1]) /\ m[Len(m)].kind \in {"ask", "result"}
    /\ \A i \in DOMAIN m :
         /\ m[i].kind = "call" =>
              i < Len(m) /\ m[i + 1] = Message("result", m[i].turn, m[i].round)
         /\ m[i].kind = "result" =>
              i > 1 /\ m[i - 1] = Message("call", m[i].turn, m[i].round)

\* tr is the longest context of whole turns that fits, at least the last turn.
KeepsContext(all, tr) ==
  LET Suffix(i) == From(all, i) IN
  \E i \in DOMAIN all :
    /\ tr = Suffix(i) /\ IsAsk(all[i])
    /\ Len(tr) <= MaxMessages \/ Cardinality(Asks(tr)) = 1
    /\ \A j \in 1..(i - 1) : IsAsk(all[j]) => Len(Suffix(j)) > MaxMessages

\* "raw_transcript is what Claude sees when the user continues an old
\* conversation - so context is preserved across restores" (chat UI v2 design).
ContextOf(c) ==
  LET turns == conv[c].turns
  IN  turns # <<>> =>
        KeepsContext(FlattenSeq([i \in DOMAIN turns |-> turns[i].own]), Last(turns).transcript)
ContextPreserved == \A c \in Conv : ContextOf(c)

\* The same where no two turns of the conversation were under way at once.
ContextPreservedInTurn == \A c \in Conv \ overlapped : ContextOf(c)

\* A turn that was not cut short has an audit line for each of its queries, but
\* for lines the log could not take; no turn has one for a query that was not run.
AnswersAudited ==
  \A t \in Turn :
    /\ task[t].logged <= task[t].ran
    /\ task[t].at = "done" /\ task[t].status # "aborted" /\ t \notin unlogged =>
         task[t].logged = task[t].ran

\* "Wraps every SqlExecutor.run_query call regardless of outcome" (chat design,
\* of AuditLog.append): when a turn is over, whatever it ran has its line.
EveryQueryLogged == \A t \in Turn : task[t].at = "done" => task[t].logged = task[t].ran

\* Every turn that ended has one summary, unless the log could not take it, and
\* the summary can be believed: "ok" is a turn a reload will show, unless the
\* conversation was deleted, and "aborted" one that left nothing.
SummariesTell ==
  \A t \in Turn :
    LET c == task[t].conv
        kept == \E i \in DOMAIN conv[c].turns : conv[c].turns[i].turn = t
    IN
    /\ task[t].at # "done" => summaries[t] = <<>>
    /\ Len(summaries[t]) <= 1
    /\ task[t].at = "done" /\ t \notin unlogged => summaries[t] # <<>>
    /\ task[t].at = "done" /\ conv[c].state = "live" =>
         /\ summaries[t] = <<"ok">> => kept
         /\ summaries[t] = <<"aborted">> => ~ kept

\* A conversation holds turns of its owner only, each once, and its title comes
\* from one that was answered as a first turn.
TurnsBelong ==
  \A c \in Conv :
    LET turns == conv[c].turns IN
    /\ \A i \in DOMAIN turns : task[turns[i].turn].session = conv[c].owner
    /\ \A i, j \in DOMAIN turns : turns[i].turn = turns[j].turn => i = j
    /\ conv[c].title # Nobody =>
         \E i \in DOMAIN turns : turns[i].turn = conv[c].title /\ IsAsk(turns[i].transcript[1])
                                 /\ turns[i].transcript[1].turn = conv[c].title
=============================================================================
