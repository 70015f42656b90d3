# TLA+ models of the ERP agent

Models, checks and proofs of the parts of this repository where state, time and
failure meet: writing supplier bills into the ERP, staged changes to the clinic
database, turns of the chat, the page that shows them and the pool their queries run in, and
the registry and rules behind a payslip. Every definition is written from the code; the lines it stands for are in `PROJECT.json` under `map`.

## 1. The system

Three FastAPI services over SQL Server (two are on Render, one single-process
uvicorn worker each, on a free plan that restarts at will; see `render.yaml`), and a payroll library.

| Part | State it keeps | Operations | Talks to |
|---|---|---|---|
| Bill ingestion `src/logic/bills/` | pending proposals and write plans (a dict) | upload, stage, commit | extraction, matcher, ERP database, `bills_writes.jsonl`, review page |
| Bill extraction `src/logic/bills/extract/` | none | image preparation, OCR, QR, Claude, merge | external libraries |
| DevCare `src/logic/devcare/` | staged changes (a dict), conversations (SQLite) | propose (model), stage (form), commit | clinic database, `devcare_writes.jsonl`, page |
| Chat `src/logic/chat/` | conversations and transcripts (SQLite), reports (bounded dict), knowledge (a file), query log | create, delete, stream a turn, title, feedback | Claude, SQL executor and its thread pool, page |
| Chat page `src/ui/chat/` | current conversation, one view per conversation, the sidebar's list, the session cookie | start up, new, open, list, delete, send | chat |
| Payroll `src/logic/payroll/` | employees, contracts, periods, time inputs (dictionaries or SQL tables), a cache of rule files | registry calls, rule resolution, calculation plan, dry run | repositories, `business_rules/payroll/*.yaml` |
| Legacy payroll `conversation.py`, `engine.py`, ... | - | unreachable: shadowed or importing what is not there | - |

**How they interact.** A *bill* is uploaded and extracted into a proposal; the
operator corrects the review screen and presses Accept, which posts the screen to
`stage` and, if that succeeds, calls `commit`. `upload` and `stage` are coroutines
with synchronous bodies: the event loop runs one at a time. `commit` is a plain
function, so FastAPI runs it in a thread pool: commits interleave with each other
and with stages, through the pending store and the database. A *DevCare change* is
validated and staged by the model's tool or a form, and executed by the operator's
Confirm; all of it runs on the event loop without awaiting. A *chat turn* is an
async generator with an await at every call of Claude and every batch of queries,
and a yield at every event, where a disconnecting browser abandons it. The *page*
waits for every answer and lets the user go on meanwhile: handlers continue, in any
order, on a page that has moved on. A *payroll* call runs in a `session_scope`, whose
statements are flushed one by one and committed or rolled back together; what it
computes comes from rule files that are read once and cached, while authors edit them.

**What is hard**, at its lines, is the `hazards` list of `PROJECT.json`:
interleaved transactions that compute keys as MAX+1, plans executed long after
they were checked, transactions cut off by failures and restarts, logs written
apart from the data they describe, and lines these logs lose, turns that overlap or are
abandoned, answers applied to a page that has changed or whose session has expired, two writes that belong together, two
implementations of one repository, and a cache of files that change.

**What makes each part correct.** Bills: whole, audited documents, created master
data only as agreed, one document per approval, transactions that wait for each other in
no circle and end. DevCare: writes
only by confirmation and once, a log that replays. Chat: requests Claude's API
accepts, context that is kept, summaries that tell the truth, queries that
are answered with their own result; a page that shows what is stored and under way,
keeps its session until it expires, and settles. Payroll: references that hold, contracts entered whole
or not at all, repositories that agree, runs computed from one edition of the rules;
what several rule documents say together, locks that hold, an ordered plan, true citations.

## 2. Modules

| Module | What it models |
|---|---|
| `BillIngestion` | the review page, `BillService`, the matcher, the pending store, the write executor, the audit row and the mirror file, and the write database as these see it |
| `BillLedger` | what the database promises about bills: the abstract specification |
| `MCBillIngestion`, `Bills*.cfg` | instances for TLC |
| `BillIngestionProofs` | types, what the pending store holds, what a plan can be relied on for; one lemma per action |
| `BillSafetyProofs` | what the database, the audit and the file end with, who waits for whom, the step simulation of `BillLedger`, and what one Accept at a time adds |
| `DevCareChanges`, `MCDevCareChanges`, `DevCare*.cfg` | validator, staging store, write executor, audit log, the pending-change card |
| `DevCareProofs` | all safety properties of `DevCareChanges`, for any tables and changes |
| `ChatTurns`, `MCChatTurns`, `Chat*.cfg` | `stream_turn`, `HistoryStore`, the query log, titles |
| `ChatTurnsProofs` | all properties of `ChatTurns`, for any history, cap and number of turns |
| `ChatPage`, `MCChatPage`, `ChatPage.cfg` | one tab of the chat page: start-up, views, sidebar, cookie, streams, and the server as the page sees it |
| `ChatPageProofs` | all safety properties of `ChatPage`, for any number of requests and conversations |
| `SqlPool`, `MCSqlPool`, `SqlPool.cfg` | `run_query`, its thread pool and the look-up of columns |
| `SqlPoolProofs` | all safety properties of `SqlPool`, for any number of calls and workers |
| `PayrollRules`, `MCPayrollRules`, `Payroll*.cfg` | rule resolution, calculation plan, execution of a dry run |
| `PayrollRulesProofs` | all properties of `PayrollRules`, for all documents |
| `PayrollRegistry`, `MCPayrollRegistry`, `PayrollRegistry.cfg` | `PayrollService` on both kinds of repositories, `session_scope`, `RuleLoader` |
| `PayrollBook` | what the registry promises its callers: the abstract specification |
| `PayrollRegistryProofs` | references, the refinement of `PayrollBook`, plans, refusals and the agreement of the two repositories, for any registry |

**BillIngestion.** `screen` is the page's `proposal`, `plan` and `proposals` the
pending store, `run` the locals of `execute()`, `tx` the uncommitted rows of each
commit thread, `db` the tables, `mirror` the file. `pc[f]` is how far the Accept in
slot `f` is. `StageBegin` pops the old plan; `StageRefuse` ends a stage that is turned down, and
`StagePut` stores the plan of one that passes the gate, after which the ERP is read once more
for the duplicate warning: `StageOk` is that answer, `StageLost` a read that fails.
(All of it is one handler: the event loop does not interleave it, commit threads
do, hence the steps.) A read that fails in `_rematch` leaves nothing behind; one that fails
for the warning is answered with a 500 and leaves a plan that `commit` takes.
`CommitBegin` pops the plan, then one action per statement:
`ReadKey`, `InsertSupplier`, `InsertDocument`, `InsertArticle`, `InsertLine`,
`Audit` (audit row and mirror line), `Land` (COMMIT), `Answer`. `Fail` rolls back
and `RecordFailure` notes it. An insert waits while another open transaction holds
its key (`Held`, `Waits`) and fails if a committed row has it (`Clash`): read committed with
primary-key locks. If the service restarts, `Crash` empties what lives in the
process and rolls open transactions back.

*Abstracted:* a stage reads the database as one snapshot; a bill is its supplier,
document number, lines and whether its form is complete (amounts, dates, wording
and warnings other than the duplicate one are left out); the whitelist of columns
always holds for plans the server built; the page does not change the number of
lines; refused uploads, a missing operator cookie and other refusals ahead of the service
leave the state as it is; reads go through `DATABASE_URL` and writes through
`BILLS_WRITE_DATABASE_URL`, which are taken to be one database; `warned` is what the answer of
a stage says, which the page does not show (`ui/bills/app.js:127-134`); the file
is a set of lines; a bill without document number (for which no duplicate is looked for) is not enumerated; the ERP's own programs do not write.

**DevCareChanges.** `pending` is `PendingChangeStore`, `card` the card on the page,
`work` the commit under way. `Stage` is `_validate_and_stage` with every check of
the validator that depends on the database; `Confirm` pops and reads the row
before, `Execute` is the transaction, `Record` the log append. Because the handlers
hold the event loop, only failures and restarts come between them.
`LastChave` bounds the keys of the first tables, which `MAX(Chave) + 1` needs to exist.
A create may name a target (`StrayTargets`): nothing refuses it, and the check of uniqueness
leaves that row out.
*Abstracted:* entities are the shipped specialty (required code, unique among active
rows) and doctor (refers to a specialty, no uniqueness); patient adds an optional
unique field, which behaves like the code. Field formats, other columns, hard
delete (no shipped rule uses it), the check that the conversation exists, and other
programs writing to the clinic's database are left out.

**ChatTurns.** `task[t]` holds the locals of one `stream_turn`, `conv` the SQLite
history. `Ask` reads the transcript, `CallTools`, `RunQueries` and `LogQuery` are a
tool round, `Answer`/`StoreAnswer` and `Truncate`/`StoreQuestion` the two ways to
end, split where an event is yielded before the turn is stored; `Exception`,
`Leave` (the `finally`) and `Disconnect` are the others. `Cap`, `Sanitize` and
`Compress` are the three functions a transcript passes through; `Kept`, in `Compress`, is a
recursive function on the length, which the proofs can unfold by one message.
The fault "log" is an append that fails and is swallowed (`audit.py:16-22`), for the line of a
query and for the summary alike; `unlogged` remembers the turns that lost one.
*Abstracted:* a message is its kind, turn and round; an answer parses or does not;
a query is answered, rightly or with an error; a line is written or not, never torn; texts
are left out, and with them the empty reply that is stored and that the API would refuse to
be sent back (so `RequestsValid` is about the form of a request); listing and showing conversations
change nothing. A disk that is replaced by a redeploy starts again from `Init`.

**SqlPool.** A call of `run_query` is a thread (`asyncio.to_thread`) that submits a job
to `_QUERY_POOL` and waits for its future: `Enter` validates, wraps and submits,
`Collect` reads the future, `TimeOut` gives up. When the database does not know a
name, `_enrich_db_error` submits one look-up after the other to the same pool
(`GoOn`, `LookedUp`). `queue` and `busy` are the pool: `Take` and `Finish` are its
workers, who also do what nobody waits for any more. `ChatTurns.RunQueries` takes a
round's queries as answered; `SqlPool` is why it may.
*Abstracted:* a statement is whether it is valid, whether `_wrap` leaves it as it
is, how many rows it has and which tables it names; what the regular expressions
decide is thereby given. Names that are no identifiers count as unknown tables, and
a look-up that finds nothing as one that fails. Not modelled: the cut of long
messages (which may cut hints), the lock timeout, the connection pool, a restart
(which ends every call), and other users of the event loop's default executor
(`Threads` is its size, which the code leaves to Python).

**PayrollRules.** One dry run. `docs` are the three documents as far as they were
read, `resolved` the merged components; `Declare` is one turn of the resolver's loop
(`_merge_component` with its lock test), `Check` the builder's validation loop,
`Visit`/`Descend`/`Leave` the recursion of `_topological_sort` with `path` its stack,
`Execute` one step of the executor. The order in which dictionaries and lists are
walked is arbitrary: it is what the documents happen to say, and no property may
depend on it. *Abstracted:* `type` (which stands beside `phase` wherever it is
read), the tax flags, amounts and rounding; primitives other than the two registered
are "unknown"; a look-up that fails or a file that does not load ends the dry run
before it starts.

**ChatPage.** `call[k]` is a request under way, sent with the cookie of its moment;
`Serve` answers it from the server's conversations (`conv`), `Apply...` is the rest
of the handler that waited for it, and both happen in any order over all requests.
`view[c]` is what the page draws for a conversation and whether it counts as loaded,
`current` and `last` are `currentConversationId` and `localStorage`, `jar` the
session cookie, `stream` the questions and how far each got. `Boot` is `bootstrap`,
`Enter` is `send` up to its first await, `SendTo` the rest. `StartTurn` is the server's
side of a question, `Headers` the arrival of its cookie. `Expire` is the end of the cookie's
Max-Age, and a browser may also come back after it (`Init`): the page still remembers its
conversation then, and no request may read it. `Listed` is the list with its limit, the
latest conversations of a session. `unsure` remembers to which views a question was sent
before their load was over or after it failed, and whose load was refused to a later session.
*Abstracted:* a turn is its number, a text likewise; no two conversations are updated in the
same second (the order of the list would be arbitrary); what events draw, feedback, and
the links of reports and queries are left out; a turn ends at the server as `ChatTurns`
says, here with its being stored, refused or lost.

**PayrollRegistry.** Every call is made on the dictionaries (`memory`) and on the
tables (`db`, with `session` what the open `session_scope` sees of them). In memory a call is
one step; on the session `create_contract` is two (`CreateContract`, `PointEmployee`),
because a statement can fail in between (`Rollback`). `Commit` keeps what the columns
keep: NUMERIC(15,2) rounds. A dry run does its look-ups (`LookUps`), then reads one
rule file after the other through `cache` (`Load`) and builds its plan (`Calculate`);
`Edit` is an author saving a file. `plan` remembers the documents of the last plan.
*Abstracted:* an employee, a contract and a period are their ids and what other
records refer to (a contract its employee and one amount, a time input its hours);
a rule file is its edition and whether it can be read and merged; listing calls, the
payslip and the citations are in `PayrollRules` or left out. Two scopes at once are not
modelled: nothing in the code opens two.

## 3. Runs

| Run | Instance | Shows |
|---|---|---|
| `bills_solo` | 1 Accept at a time, 2 proposals, 3 presses, 4 names, 3 tax ids, failing reads and statements | the gate, matching and store keep their promises to one careful operator |
| `bills_duo` | 2 Accepts that overlap, 2 proposals, one new supplier, every fault, 1 restart | the database keeps its promises and implements `BillLedger`; one document per approval, of the latest stage |
| `bills_waits` | 2 Accepts that overlap, bills of a new and of a known supplier with their articles in opposite orders, failing statements, weak fairness | uncommitted headers exclude each other, nobody waits in a circle, every commit ends |
| `bills_duo_nif` (violation) | 2 Accepts that overlap, one new supplier, no faults | the same new supplier written twice |
| `devcare_faults` | 2 changes, 2 conversations, every fault, 2 restarts | confirmation, the log, references and keys survive failure |
| `devcare_unique` (violation) | 3 changes, no faults | two active rows with one unique code |
| `chat_turns` | 2 turns, 2 sessions, 1 conversation, cap of 3 messages, up to 2 rounds of up to 2 queries, faults of Claude, history and log, 1 restart | requests stay valid, context kept unless turns overlap, queries audited and summaries true but for lines the log lost |
| `chat_page` | 1 tab, 2 conversations of which 1 is listed, 4 sessions, 1 text, 2 requests at once, 1 failure, expiry, fairness | views tell, the session is kept till it expires, the sidebar settles, the page starts |
| `sql_pool` | 3 queries, 2 threads, 1 worker, cap of 2 rows, 2 look-ups, weak fairness | every call is answered, truthfully and with its own result |
| `payroll_rules` | every stack of 3 documents over 3 components, from a menu | what documents say together, refusals, order and citations |
| `payroll_locks` (violation) | as above | a lock above the first layer does not hold |
| `payroll_registry` | 2 employees, 2 contracts, 1 period, 2 amounts, 5 calls, 2 dry runs, 2 scopes, 2 rule files, 2 edits | references, refinement of `PayrollBook`, agreement of the repositories, one edition of the rules |

**Bounds and why they are enough.** *Two* overlapping Accepts are the least that
can clash, and each clash in the code is between two transactions; three presses
allow stage, restage and a press after the document was written. The instances are
picked so that every case of the matcher, the gate and the executor occurs: a wrong
tax id corrected, a name that matches two suppliers, a reused and a created article
in one bill. In `bills_duo` both bills are of one new supplier and meet first on its key. In
`bills_waits` each bill may also be of a known supplier, so transactions meet on the supplier,
on the header, or one holds a supplier's key while the other is past it; their articles
come in opposite orders. Two changes on tables that already hold an active and a deleted
specialty allow every pair of create, update and delete, staged before or after the
other is confirmed; a third one (the violation runs) adds no kind of pair, and with
every fault is too large to enumerate. `StrayTargets` holds the key of the active one.
One worker and three queries fill the pool
and let a statement or look-up time out at work, in the queue, or not at all; the
statements lie below, at and above the cap and name one table twice. A cap of three
messages makes a transcript fit, be cut at an earlier turn, and be one turn that is
larger than the cap (four messages or more); with the 40 of the code the same cases need
a longer history. Two rounds of two queries let a turn be abandoned, and the log fail, before,
between and after the lines of a round. `MaxRounds` bounds a loop the code does not bound, so
nothing is claimed about its end. `MaxClicks`, `MaxCrashes`, `MaxQueries` bound counters only.
The payroll menu lets every layer
override, disable or redeclare each component, makes cycles within and across phases,
and has every error occur. Symmetry is used over change, conversation, turn and session ids in
runs whose properties are invariants, and over employees and contracts in
`payroll_registry`, whose temporal properties are about single steps and proved as well;
never with a liveness property.
On the page, two requests under way are the least whose answers can change places; four
sessions are one for each request that may carry none, counting the one that fails
(`Expire` waits until there are enough, which here is after the failure; that the cookie had
expired before the page started is among the first states). One of the two conversations is
listed, so each deletion and answer changes which; a conversation can be remembered,
foreign, out of reach, deleted or new. In the registry, five calls make and re-make an
employee, give a contract twice or to another, and enter hours; two scopes let one
be kept and one rolled back; one amount of the two is rounded by its column. Types are
proved (`TypeCorrect`, in every component) and in no configuration. The models may stop where no operator does
anything more, hence no deadlock check; that commits do not stop is
`CommitAnswered`.

**Fairness** is assumed in three runs. In `bills_waits`: weak fairness of each commit thread's
next statement (`Transaction`, or `Fail` where the executor must fail). The threads
are the operating system's, and SQL Server wakes a waiting insert when the lock is
released. Operators, uploads and voluntary failures owe nothing. In `sql_pool`: weak fairness of
each calling thread, whose `result(timeout=...)` returns when the clock says so, and
of workers taking jobs. The database owes no answer: `QueryAnswered` holds without
one. In `chat_page`: weak fairness
of serving and applying each request and of the sidebar's timer; strong fairness of the
start-up, because the slots a request needs are a bound of the model, which the
browser does not have. The user owes nothing.

## 4. What the runs found

* **Suppliers written twice** (`bills_duo_nif`). `_rematch` is there so that the
  executor does not insert "a second row for a company we already have", but it runs
  while staging only; two bills of a new supplier staged before either is committed
  both insert it.
* **No second validation** (`devcare_unique`). The design document has the commit
  endpoint re-validate; it does not.
* **Locks of the collective agreement do not hold** (`payroll_locks`): a layer's
  `locked` counts only for components it introduces (models.py:27 says otherwise).

Divergences without a run of their own, each with the property that states it where
there is one:

* *Bills.* A comment in `stage()` (service.py:145-146) says that "only a stage() call that ends
  ok:True can leave a committable plan"; the plan is stored before the last read, and if that
  fails the page says "Stage failed (server error)" while another Accept of the proposal, or a
  direct call, can still commit it (`OkStagesOnly` fails in the instance of `BillsSolo.cfg`).
  The design document (2026-07-08, line 206) wants a warning "before commit" for a number
  "already staged/written"; the code looks at written ones, while staging (`DuplicatesWarned`
  fails in the instance of `BillsDuoNif.cfg`), and the page commits at once without showing what
  the stage's answer says (`ui/bills/app.js:127-134`).
* *DevCare, uniqueness.* A field of `uniqueness` "must be unique among active rows" (2026-06-04,
  line 109). The check leaves out the row that `target_pk` names (validator.py:128), and a create
  that names one is not refused (service.py:155-162): with `StrayTargets = {1}` one such create
  violates `UniqueAmongActive` in the instance of `DevCareUnique.cfg`.
* *Chat.* The stored transcript exists so that "context is preserved across restores" (2026-05-29,
  line 178), but two overlapping turns start from one transcript and the one that ends last
  overwrites the other's (`ContextPreserved` fails in the instance of `ChatTurns.cfg`).
  The audit log "wraps every `SqlExecutor.run_query` call regardless of outcome" (2026-05-28,
  line 156): a turn that is abandoned while its queries run, or between their lines, leaves
  queries without one (`EveryQueryLogged`, same instance, also without any fault).
* *Payslip citations.* "The highest-priority layer is the one whose values actually appear"
  (audit.py:11-12): a layer that redeclares a component with another phase or primitive and no
  parameters is cited, and nothing of it is used (`CitedValuesAppear` fails in the instance of
  `PayrollLocks.cfg`). What is true of the cited layer is `AuditCitesLastWord`.
* *DevCare.* "**Cancel** discards the staged change" (2026-06-04, line 213); it greys the
  card, and Confirm still commits (`CancelDiscards`). An empty final reply is stored as a
  message without content, here and in the chat, and later requests carry it.
* *Chat page.* In-flight streams are to "become visible again the moment the user comes
  back" (app.js:289); a question sent to a conversation whose stored turns are still
  under way is wiped from the view when they arrive (`StreamsStayVisible`; without
  failures the trace is: open, send, answer). A load that failed and is followed by a
  question never shows the history. `convIdAtSend` is taken after `ensureConversation`
  and not "at send time" (app.js:511): a conversation opened meanwhile receives the
  text, and Enter pressed twice sends it twice. On a first visit several requests carry
  no cookie and are each given a session; the conversation of a session that lost is refused.
  The cookie lasts a week from the last question, or from the request that was given the
  session (app.py:103, 252; lists and details do not renew it), while `lastConversationId`
  stays: after the expiry the page keeps conversations that no request may read, the next
  request is given another session, and a view whose load is refused stays empty and counts as
  loaded (`ViewsTell` leaves it out).
* *Payroll registry.* The design (2026-05-26, line 260) has every call "raise typed
  exceptions on rule violations": an employee with a second contract gets
  SQLAlchemy's `MultipleResultsFound` (`TypedErrors`), where memory answers with the
  newer contract; `current_contract_id`, which line 269 looks contracts up by, is never
  read. In memory a contract that is given to another employee also stays with the
  first. `create_employee` for an employee there is resets the current contract;
  `set_time_input` accepts closed periods and `open_period` re-opens them; amounts of more than
  two places are rounded by the tables only. `reload_rules` (line 301) does not exist and
  nothing calls `reload`: a process computes with the editions it first read, which may be of
  different days if a load failed between two layers, and a document that clashes stays cached.
  (That is why `StandIn` speaks of employees with one contract and amounts of two places.)

And: a DevCare write is without its record after a
restart between COMMIT and append; nothing in
`stream_turn` counts queries although the design document limits them to ten; of a
component's scalars only parameters are "replaced by higher layers", as
`ResolvedAsDeclared` spells out; `select_primary_citation` says that of equal layers
the last citation wins, `max` returns the first (no document can produce two);
the chat's design document (2026-05-28) meets "Long-running queries lock the server"
with the 30 s timeout, which ends the wait and not the query, so a query may
be answered "query exceeded 30s" without having begun; and it defines `truncated` as
a row count of 1000, of which a statement with ORDER BY or WITH and exactly 1000
rows is an exception (for the better: `TruncationTold` holds of both).

## 5. What is proved

With TLAPS: every safety property and every refinement that a passing run checks, and the
types of every component, for all values of the constants that the ASSUMEs of its module
allow (one theorem about bills assumes `Solo` and one that the mirror file takes every line, as
the run does that checks them). Each follows from an inductive invariant that says more than the property.

**Bills**, for any number of proposals, Accepts, lines, rows, presses and restarts, and
any set of faults (`BillConstants`).

* `TypeCorrect == Spec => []TypeOK`. The inductive invariant `TInv` adds to `TypeOK`
  that keys stay within what `NextKey` hands out (so that rows are finite-keyed and
  MAX exists: `KeysBounded`) and where each Accept's locals are meaningful
  (`Located`). One lemma per action shows that it preserves the invariant.
* `StageCorrect` needs `LatestInv`: until a stage puts one there, its proposal has no plan. (What
  is in the store passed the gate in the last stage that reached a decision; the answer of that
  stage may still have been a 500.)
  `PlansCorrect` needs `PlanInv`: a pending or executing plan passed the gate, points at
  rows that are there, and creates only what was ticked (`Sound`); what a *request* holds
  may be stale, but rows and ticks are never taken back (`Grows`).
* `CommitsSerialise` and `HeadersAudited`. By themselves neither is inductive: that
  a document has exactly one "ok" audit row needs that the row an open transaction
  is about to write names a header nobody else holds. `DInv` therefore says where an
  open transaction's header is (`HeldHeader`), that its key is the next free one
  (`HeaderKey`), and what its audit row names (`HeldAudit`). The argument: a header's
  key is always one more than the greatest committed key (`Top`), so two open
  transactions that hold a header would hold the same key, which the lock excludes.
* `CreationAgreed` and `LedgerImplemented == Spec => ImplementsLedger` from `PostInv`: what
  each open transaction has written is whole so far (`Whole`), ticked (`Ticked`), and under
  keys no one else has (`Distinct`). `Land` is then the posting of one whole bill,
  `RecordFailure` a note, and every other step leaves the database (`NextLedger`).
* `WaitsEnd == Spec => []NoWaitCycle`, from `DInv` and `PostInv`: a transaction
  waits for a supplier's key only before it has written one, for a header's only before it has
  one, and for others never, because whoever holds those has a header too (`WaitsUpward`). Each
  wait leads to a transaction that is further on, so no group waits in a circle.
* `ApprovalsSpentOnce` from `SpendInv`, which counts: the documents of a proposal, the
  commits under way and the pending plan together never exceed the times it passed the gate,
  whether the answer that said so was delivered or lost to a failing read.
* `MirrorRetracted`, if the file takes every line (`"mirror" \notin Faults`) and as long as
  the service has not stopped: otherwise an "ok" line may outlive its rolled-back
  document, as the model shows. `MirrorInv` adds the lines whose document is about to land or whose
  "error" line is about to be written.
* `SuppliersStayUnique`, where Accepts do not overlap (`Solo`: one slot), from tables that are
  unique to begin with. Without `Solo` it is false; `bills_duo_nif` is the counterexample.
  `NifInv` carries what the stage looked up to the commit that relies on it.

**DevCare**, for any conversations, changes, codes, first tables whose `Chave` is a key and
whose references hold (`DevCareConstants`), faults and restarts.

* `TypeCorrect` and `ReferencesHold` from `TInv`: a validated change points at rows that are
  there (`Sound`), and no key ever goes, since a delete sets `Hist`.
* `WritesConfirmed` from `CInv` (a change is pending, under way or written, never two of
  them), `KeysNeverReused` from `KInv` (a logged creation's key is in use for good).
* `LogReplays` from `JInv`. The replay (`told`) is a recursive function of the log; instead of an
  induction over it, `JInv` speaks of *every* function that tells the log entry by entry
  (`Telling`), so a step that appends an entry adds one application of `Tell`.

**Chat turns**, for any sessions, conversations, turns, rounds, queries, faults, restarts and
any cap of at least one message (`ChatConstants`).

* `TypeCorrect` from `TInv`, `QueriesAudited` from `AInv` (the line is written, or swallowed
  and remembered in `unlogged`, before the step event, which is where a turn can be abandoned).
* `RequestsCorrect` from `WInv`: stored and running transcripts are `Well`, that is, they begin
  with a question and each tool call is followed by its own results, except for the call
  whose results the turn is waiting for. Lemmas say that `Cap`, `Sanitize`, `Compress` and
  appending keep or make this so, for every transcript.
* `SummariesBelieved` and `TurnsOwned` from `HInv`: which turns a conversation holds
  (`ConvHolds`), which turn is bound to be stored or to have been the first (`TurnHeld`). A turn
  without a summary is one whose line the log lost.
* `ContextKept` from `XInv`: a turn that is alone in its conversation has what is stored
  there before its own question (`Continues`). The rest is arithmetic of the cap: what
  `Cap` keeps of a context it kept before and a new turn is the longest run of whole turns
  that fits.

**Chat page**, for any number of conversations, sessions, texts, questions, requests under way
and failures (`PageConstants`).

* `TypeCorrect` from `TInv`: requests and answers name only sessions handed out and
  conversations created (`CallGood`), and the texts that wait for a conversation
  (`Ensuring`, counted) leave room for what was promised them.
* `SessionKeptTillExpiry == Spec => SessionKept`, the action property: once all that is under way
  carries the browser's session, a request is answered without another cookie, new ones carry
  the one in the jar, and the only step that takes it is `Expire`.
* `ViewsCorrect == Spec => []ViewsTell`. Two things have to be known beyond the views. `SInv`:
  each stored turn is over and was sent to its conversation, and a detail that was answered
  with the conversation holds the turns of an earlier visit if there are any, so a load that is
  not refused cannot miss them; one that is refused makes the view `unsure`. `VInv`: a view that a
  question was sent to is loaded and not loading, unless it is `unsure`. So an answer that
  replaces a view (`FilledVInv`) replaces one that has no question under way.

**Payroll rules**, for every set of components, every set of rates and all documents (`MenuAssumption`
only says that documents are documents), all properties of `payroll_rules`:

* `ResolutionCorrect`, `FirstLock`. The recursive-looking merge needs no induction
  over data: `MInv` says at every moment that each component is what the documents
  *read so far* say together, and that a locked component is `Sealed` (no later layer
  gives it parameters). A step adds one layer above all others (`AddLayer`), which
  becomes the highest and leaves the lowest alone.
* `PlanCorrect`, `CyclesCorrect`. `SInv` says that the visits under way are a chain of
  inputs within the phase, none of them planned (`PathInv`), and that every planned
  step has its inputs of the phase before it (`InputsFirst`). A component is
  planned when the chain returns to it, so the input it closes on is either planned,
  hence earlier, or on the chain: then the chain from there on is a cycle. Conversely
  the first planned step of a cycle has no step to take its input from.
* `BasesCorrect`, `AuditCorrect` and `TypeCorrect` follow from these: execution sees
  inputs that are checked and ordered, and whose last citation is that of the highest layer
  that names them (`AuditCitesLastWord`).

That the recursion ends is not stated (it is liveness under fairness).

**SQL pool**, for any number of calls, workers, threads and tables, and any cap: `TypeCorrect`, `NoLostResult`, `TruncationHonest` and
`HintsHonest`. `NothingLost` alone is not inductive: a job that was given up must
not be taken for the one its call waits for now. `JobInv` says that the jobs of a
call are numbered up to its current one, so a new job is new to the pool;
`AnswerInv` carries what a call has found so far (`hints`, `future`) to its answer.

**Payroll registry**, for any employees, contracts, periods, amounts, number of rule layers, calls, scopes and
edits (`SumAssumption`, `LayersAssumption`):

* `TypeCorrect` and `ReferencesCorrect == Spec => []ReferencesHold`. That the committed
  tables are sound is not inductive: a commit copies the session, so the session must
  be sound too (`InSession`), also between the two writes of `create_contract`, where
  `Calling` says that what the second will name is there. Each write of a repository has
  a lemma on its shape and one on its references, and each variable one on its steps.
* `BookImplemented == Spec => ImplementsBook`: under the mapping that shows a half-made
  contract as made (`Completed`), every step is a step of `PayrollBook` or a stutter
  (`NextBook`); `PointEmployee` is the stutter, `Rollback` is `GiveUp` wherever it comes.
* `PlansCorrect == Spec => PlansRepeat` by `PlanInv`: a run has cached the layers it is
  past, and a plan that was built is the cache, which then holds every layer and so
  cannot change. `RefusalsCorrect == Spec => RefusalsAreCurrent`, because nothing that is
  cached is unreadable.
  `StandInCorrect == Spec => []StandIn` needs `AgreeInv`: the session and the dictionaries
  hold the same keys and their salaries differ at most by what the column rounds
  (`Alike`); what is filed under an employee is on record, as it is there unless the
  contract went to another (`FiledRight`); and a closed scope leaves the session with what
  was committed. `StandIn` alone is not inductive: it says nothing of the employees it
  leaves out, whose contracts the next call may change.

**Model-checked only**, being out of the prover's reach: `CommitAnswered`, `QueryAnswered`,
`ListSettles` and `PageStarts` (liveness under fairness), and the three runs that
expect a violation, which are counterexamples and no theorems.

## 6. Not modelled, and why

OCR, OpenCV and Claude are external: what they return is a choice. DevCare's rule documents
are loaded once and constant. The password gate, prompts, renderers, migrations and
scripts keep no state the properties could speak of. The legacy payroll conversation
is unreachable, and the payslip repositories have no caller. The report and knowledge
stores are sequential; the one evicts the oldest report, where its docstring (report_store.py:17)
says LRU, the other gives the id of a removed last entry again. DevCare's conversation
that leads to a proposal (its eleven tool rounds where the constant says ten, and a turn
that fails after staging and stores nothing) is left out: what it stages is any change.
Everything else is in the plan below.

## 7. Plan

In order of what matters to the system:

1. Done: `BillIngestion`, `BillLedger`; `DevCareChanges`; `ChatTurns`; `ChatPage`;
   `SqlPool`; `PayrollRules`; `PayrollRegistry`, `PayrollBook`; the proofs of section 5.
2. `validate_sql` and `_wrap` as operators on statements made of tokens (comments,
   literals, keywords), against a definition of what a read-only statement is; the
   chat's rounds composed with `SqlPool`, and `ChatPage` with `ChatTurns`.
3. `AtQr`: the fields of the tax authority's QR code parsed, and merged with the
   extraction; the tax id's check digit against its definition (mod 11); amounts and
   rounding of a payslip.
4. `DevCareTurns`: the conversation that leads to proposals.
5. Proofs: uniqueness of codes in DevCare and of tax ids in
   the bills as theorems of one change, or one Accept, at a time between stage and commit
   (instead of `Solo`); the variants that make the liveness properties plausible (what
   decreases with every step of a commit, of a call, of a look-up) as safety theorems; an
   abstract specification of the chat's history, implemented by `ChatTurns`.
