--------------------------- MODULE BillIngestion ---------------------------
(***************************************************************************)
(* Supplier bills on their way into the ERP: a bill is extracted into a     *)
(* proposal (upload), the operator corrects it and presses Accept, the      *)
(* service re-matches and gates it into a write plan (stage), and the plan  *)
(* is executed as one database transaction (commit).                        *)
(*                                                                         *)
(* Uploads and stages are coroutines of one event loop with synchronous     *)
(* bodies: one at a time.  Commits are plain functions, run by a pool of    *)
(* threads: they interleave with each other and with the event loop, and    *)
(* meet only in the pending store and in the database.                      *)
(*                                                                         *)
(* The service reads through DATABASE_URL and writes through                *)
(* BILLS_WRITE_DATABASE_URL; both are taken to be the same database.  The   *)
(* database is read committed: a transaction sees what others have      *)
(* committed and what it wrote itself; Chave is each table's primary key.   *)
(***************************************************************************)
EXTENDS Naturals, Sequences, FiniteSets, FiniteSetsExt

CONSTANTS
  Pid,          \* proposal ids (bill_<uuid>), one per upload
  Flow,         \* presses of Accept that may be in progress at once
  Text,         \* supplier names and article descriptions
  Like,         \* <<pattern, stored>>: stored LIKE '%pattern%'
  Nif,          \* Portuguese tax ids an operator or an extraction may yield
  BadNif,       \* the ones among them whose check digit is wrong
  NoNif,        \* no tax id on the bill
  Ref,          \* the supplier's own document numbers (VRef)
  Extracted,    \* bills the extraction may yield
  Typed,        \* bills the operator may leave on the review screen
  Entidades0,   \* suppliers already in the ERP
  Artigos0,     \* articles already in the ERP
  LastChave,    \* no key in the ERP is above it at the start
  Absent,       \* "there is none": no proposal, no plan, no event-loop task
  Faults,       \* what may go wrong besides restarts, see FaultKind
  MaxClicks,    \* bound: presses of Accept in a behaviour
  MaxCrashes    \* bound: restarts of the service in a behaviour

Supplier == [nif : Nif \cup {NoNif}, name : Text]

\* form: "invalid" fails pydantic (a blanked name or description), "incomplete"
\* lacks a field the rule document requires (date, total), "ok" has them all.
Bill == [sup : Supplier, vref : Ref, form : {"ok", "incomplete", "invalid"},
         lines : Seq(Text)]

\* A read of stage() fails; a statement of a transaction fails; the connection
\* breaks after COMMIT took effect; the note of a failure, or a line of the
\* mirror file, is lost.
FaultKind == {"read", "statement", "commit", "note", "mirror"}

Chaves(rows) == {r.Chave : r \in rows}

ASSUME BillConstants ==
  /\ Absent \notin Flow \cup Supplier \cup Text
  /\ NoNif \notin Nif /\ BadNif \subseteq Nif
  /\ Like \subseteq Text \X Text
  /\ Extracted \subseteq {b \in Bill : b.form # "invalid"}
  /\ Typed \subseteq Bill
  /\ LastChave \in Nat
  /\ Entidades0 \subseteq [Chave : 1..LastChave, nif : Nif \cup {NoNif}, name : Text]
  /\ Artigos0 \subseteq [Chave : 1..LastChave, name : Text]
  /\ Faults \subseteq FaultKind
  /\ MaxClicks \in Nat /\ MaxCrashes \in Nat

Table == {"Entidades", "Doc001", "Artigos", "LinDoc001", "BillAudit"}
NoRows == [t \in Table |-> {}]

VARIABLES
  screen,     \* the review screen of a proposal: app.js's `proposal`
  clicks,     \* Accepts pressed so far
  ticked,     \* history: what an operator has agreed to see created
  pc,         \* how far each Accept is
  req,        \* what an Accept sent, and whether the answer warned of a duplicate
  loop,       \* the Accept whose stage() the event loop is running
  proposals,  \* pending store: ids of the proposals it holds
  plan,       \* pending store: the staged write plan of each proposal
  fresh,      \* history: what the last stage() to get past the gate, or be refused,
              \* left committable, per proposal
  approvals,  \* history: stage() calls that got past the gate, per proposal
  run,        \* locals of execute(): the plan, the line it is at, the key read for
              \* the next insert (0: none yet), and the keys it has resolved
  tx,         \* rows a commit thread has not committed
  db,         \* committed rows
  mirror,     \* bills_writes.jsonl
  crashes     \* restarts so far

browser == <<screen, clicks, ticked>>
service == <<loop, proposals, plan, fresh, approvals>>
storage == <<db, mirror>>
vars == <<browser, pc, req, service, run, tx, storage, crashes>>

Stopped == [plan |-> Absent, at |-> 1, key |-> 0, sup |-> 0, doc |-> 0, art |-> 0]

-----------------------------------------------------------------------------
(* Matching *)

\* A MatchResult: which row a supplier or an article is, and what the operator
\* said about it.  chave = 0 stands for None.
Matched(k)  == [status |-> "matched", chave |-> k, candidates |-> {},
                new |-> Absent, confirmed |-> FALSE]
Ambiguous(ks) == [status |-> "ambiguous", chave |-> 0, candidates |-> ks,
                  new |-> Absent, confirmed |-> FALSE]
New(value)  == [status |-> "new", chave |-> 0, candidates |-> {},
                new |-> value, confirmed |-> FALSE]

Resolve(rows, value) ==
  IF rows = {} THEN New(value)
  ELSE IF Cardinality(rows) = 1 THEN Matched((CHOOSE r \in rows : TRUE).Chave)
  ELSE Ambiguous(Chaves(rows))

NamedLike(rows, name) == {r \in rows : <<name, r.name>> \in Like}

\* One row with the bill's tax id wins; otherwise the name decides.
MatchSupplier(s) ==
  LET sameNif == {r \in db["Entidades"] : s.nif # NoNif /\ r.nif = s.nif}
  IN  IF Cardinality(sameNif) = 1 THEN Resolve(sameNif, s)
      ELSE Resolve(NamedLike(db["Entidades"], s.name), s)

MatchLine(text) == Resolve(NamedLike(db["Artigos"], text), text)

\* A tax id with a wrong check digit never reaches the matcher at upload.
Blanked(b) == IF b.sup.nif \in BadNif THEN [b EXCEPT !.sup.nif = NoNif] ELSE b

Proposal(b) == [bill |-> b, sup |-> MatchSupplier(b.sup),
                lines |-> [i \in DOMAIN b.lines |-> MatchLine(b.lines[i])]]

KeepConfirmationAlways(old, now) ==   \* mutant: every fresh "new" comes confirmed
  IF now.status = "new" THEN [now EXCEPT !.confirmed = TRUE] ELSE now
KeepConfirmation(old, now) ==
  IF now.status = "new" THEN [now EXCEPT !.confirmed = old.confirmed] ELSE now

\* Only "new" is looked up again: "matched" and "ambiguous" point at real rows.
Renewed(old, now) == IF old.status = "new" THEN KeepConfirmation(old, now) ELSE old

RematchValues(p) ==   \* mutant: the edited values are taken over, nothing is looked up
  [p EXCEPT !.sup = IF @.status = "new" THEN [@ EXCEPT !.new = p.bill.sup] ELSE @]
Rematch(p) ==
  [bill  |-> p.bill,
   sup   |-> Renewed(p.sup, MatchSupplier(p.bill.sup)),
   lines |-> [i \in DOMAIN p.lines |-> Renewed(p.lines[i], MatchLine(p.bill.lines[i]))]]

-----------------------------------------------------------------------------
(* The gate of stage() *)

Confirmed(m) == m.status = "new" => m.confirmed
Picked(m)    == m.status = "ambiguous" => m.chave # 0

PassesWithoutLinePicks(p) ==   \* mutant: only the supplier has to be picked
  /\ p.bill.sup.nif \notin BadNif
  /\ p.bill.form = "ok"
  /\ Confirmed(p.sup) /\ Picked(p.sup)
  /\ \A i \in DOMAIN p.lines : Confirmed(p.lines[i])
Passes(p) ==
  /\ p.bill.sup.nif \notin BadNif
  /\ Len(p.bill.lines) = Len(p.lines)
  /\ Confirmed(p.sup) /\ Picked(p.sup)
  /\ \A i \in DOMAIN p.lines : Confirmed(p.lines[i]) /\ Picked(p.lines[i])
  /\ p.bill.form = "ok"

PlanOf(p) == [sup |-> p.sup, vref |-> p.bill.vref, lines |-> p.lines]

SameRef(rows, v) == {d \in rows : d.VRef = v}

Duplicate(v) == SameRef(db["Doc001"], v) # {}

-----------------------------------------------------------------------------
(* Browser: ui/bills/app.js *)

\* What collectEdits() may turn a rendered match into: a candidate picked from
\* the list, or the "create" box ticked or not.
Edited(m) ==
  IF m.candidates # {}
  THEN {m} \cup {[m EXCEPT !.status = "matched", !.chave = c] : c \in m.candidates}
  ELSE IF m.status = "new" THEN {[m EXCEPT !.confirmed = b] : b \in BOOLEAN}
  ELSE {m}

Edits(p) ==
  {[bill |-> b, sup |-> s, lines |-> ls] :
     b \in {t \in Typed : Len(t.lines) = Len(p.lines)},
     s \in Edited(p.sup),
     ls \in {l \in [DOMAIN p.lines -> UNION {Edited(p.lines[i]) : i \in DOMAIN p.lines}] :
               \A i \in DOMAIN p.lines : l[i] \in Edited(p.lines[i])}}

\* The new records a submitted proposal asks for with its boxes ticked.
Agreed(p) ==
  (IF p.sup.confirmed THEN {<<"Entidades", p.bill.sup>>} ELSE {})
    \cup {<<"Artigos", p.bill.lines[i]>> : i \in {j \in DOMAIN p.lines : p.lines[j].confirmed}}

-----------------------------------------------------------------------------
(* Initial state *)

Init ==
  /\ screen = [p \in Pid |-> Absent] /\ clicks = 0 /\ ticked = {}
  /\ pc = [f \in Flow |-> "idle"]
  /\ req = [f \in Flow |-> Absent]
  /\ loop = Absent /\ proposals = {}
  /\ plan = [p \in Pid |-> Absent] /\ fresh = [p \in Pid |-> Absent]
  /\ approvals = [p \in Pid |-> 0]
  /\ run = [f \in Flow |-> Stopped] /\ tx = [f \in Flow |-> NoRows]
  /\ db = [NoRows EXCEPT !["Entidades"] = Entidades0, !["Artigos"] = Artigos0]
  /\ mirror = {} /\ crashes = 0

-----------------------------------------------------------------------------
(* Upload and Accept *)

\* upload(): the extraction itself (OCR, Claude, QR) yields any Extracted bill.
Upload(p) ==
  /\ loop = Absent /\ screen[p] = Absent
  /\ \E b \in Extracted : screen' = [screen EXCEPT ![p] = Proposal(Blanked(b))]
  /\ proposals' = proposals \cup {p}
  /\ UNCHANGED <<clicks, ticked, pc, req, loop, plan, fresh, approvals, run, tx,
                 storage, crashes>>

\* accept(): the edits go into the local proposal, which is then posted to
\* /bills/stage.  The button stays enabled: another Accept of the same screen
\* may follow while this one is under way, or after it wrote the document.
Accept(f, p) ==
  /\ pc[f] = "idle" /\ screen[p] # Absent /\ clicks < MaxClicks
  /\ \E e \in Edits(screen[p]) :
       /\ screen' = [screen EXCEPT ![p] = e]
       /\ req' = [req EXCEPT ![f] = [pid |-> p, body |-> e, warned |-> FALSE]]
       /\ ticked' = ticked \cup Agreed(e)
  /\ clicks' = clicks + 1
  /\ pc' = [pc EXCEPT ![f] = "staging"]
  /\ UNCHANGED <<service, run, tx, storage, crashes>>

\* The answer is on screen; nothing of the request is left.
Finish(f) ==
  /\ pc' = [pc EXCEPT ![f] = "idle"]
  /\ req' = [req EXCEPT ![f] = Absent]

-----------------------------------------------------------------------------
(* stage() on the event loop *)

PopNothing(f) == plan   \* mutant: stage() leaves the previous plan in the store
PopPlan(f) == [plan EXCEPT ![req[f].pid] = Absent]

\* The plan left by an earlier stage goes first.
StageBegin(f) ==
  /\ pc[f] = "staging" /\ loop = Absent
  /\ loop' = f
  /\ plan' = PopPlan(f)
  /\ pc' = [pc EXCEPT ![f] = "checking"]
  /\ UNCHANGED <<browser, req, proposals, fresh, approvals, run, tx, storage, crashes>>

\* Violations are answered and nothing is left to commit.
StageRefuse(f) ==
  LET p == req[f].pid
      body == req[f].body
      parsed == body.bill.form # "invalid"
  IN
  /\ pc[f] = "checking" /\ loop = f
  /\ parsed => ~ Passes(Rematch(body))
  /\ proposals' = IF parsed THEN proposals \cup {p} ELSE proposals
  /\ fresh' = [fresh EXCEPT ![p] = Absent]
  /\ loop' = Absent
  /\ Finish(f)
  /\ UNCHANGED <<browser, plan, approvals, run, tx, storage, crashes>>

\* The plan is stored before the answer is made...
StagePut(f) ==
  LET p == req[f].pid
      r == Rematch(req[f].body)
  IN
  /\ pc[f] = "checking" /\ loop = f
  /\ req[f].body.bill.form # "invalid" /\ Passes(r)
  /\ proposals' = proposals \cup {p}
  /\ plan' = [plan EXCEPT ![p] = PlanOf(r)]
  /\ fresh' = [fresh EXCEPT ![p] = PlanOf(r)]
  /\ approvals' = [approvals EXCEPT ![p] = @ + 1]
  /\ pc' = [pc EXCEPT ![f] = "warning"]
  /\ UNCHANGED <<browser, req, loop, run, tx, storage, crashes>>

\* ... with one more read, for _duplicate_warnings.
StageOk(f) ==
  /\ pc[f] = "warning" /\ loop = f
  /\ req' = [req EXCEPT ![f].warned = Duplicate(req[f].body.bill.vref)]
  /\ loop' = Absent
  /\ pc' = [pc EXCEPT ![f] = "staged"]
  /\ UNCHANGED <<browser, proposals, plan, fresh, approvals, run, tx, storage, crashes>>

\* A read that fails is no RuntimeError: app.py answers 500 and the page says
\* "Stage failed (server error)".  In _rematch it comes before anything is
\* stored; in _duplicate_warnings the plan stays in the store.
StageLost(f) ==
  LET p == req[f].pid
      body == req[f].body
      rematches == body.sup.status = "new" \/ \E i \in DOMAIN body.lines : body.lines[i].status = "new"
  IN
  /\ "read" \in Faults /\ loop = f
  /\ \/ /\ pc[f] = "checking" /\ body.bill.form # "invalid" /\ rematches
        /\ fresh' = [fresh EXCEPT ![p] = Absent]
     \/ pc[f] = "warning" /\ fresh' = fresh
  /\ loop' = Absent
  /\ Finish(f)
  /\ UNCHANGED <<browser, proposals, plan, approvals, run, tx, storage, crashes>>

-----------------------------------------------------------------------------
(* commit() in a thread of the pool *)

KeepPlan(p) == plan   \* mutant: commit() reads the plan without removing it
SpendPlan(p) == [plan EXCEPT ![p] = Absent]

\* The plan is popped before it is used.
CommitBegin(f) ==
  LET p == req[f].pid IN
  /\ pc[f] = "staged" /\ plan[p] # Absent
  /\ plan' = SpendPlan(p)
  /\ run' = [run EXCEPT ![f] = [Stopped EXCEPT !.plan = plan[p]]]
  /\ pc' = [pc EXCEPT ![f] = "supplier"]
  /\ UNCHANGED <<browser, req, loop, proposals, fresh, approvals, tx, storage, crashes>>

\* "no staged plan; stage first": another Accept took it, or is staging again,
\* or the service has restarted.
CommitNothing(f) ==
  /\ pc[f] = "staged" /\ plan[req[f].pid] = Absent
  /\ Finish(f)
  /\ UNCHANGED <<browser, service, run, tx, storage, crashes>>

Written == [supplier |-> "Entidades", document |-> "Doc001", article |-> "Artigos",
            line |-> "LinDoc001"]
Open(f) == pc[f] \in {"supplier", "document", "article", "line", "audit", "landing"}

\* The supplier or article the transaction has to resolve now.
Match(f) == IF pc[f] = "supplier" THEN run[f].plan.sup ELSE run[f].plan.lines[run[f].at]
Resolved(m) == m.status = "matched" /\ m.chave # 0
Creatable(m) == m.status = "new" /\ m.confirmed /\ m.new # Absent

\* SELECT COALESCE(MAX(Chave), 0) + 1: committed rows and this session's own.
NextKeyDirty(f, t) ==   \* mutant: rows other sessions have not committed count too
  Max({0} \cup Chaves(db[t]) \cup UNION {Chaves(tx[g][t]) : g \in Flow}) + 1
NextKeySequence(f, t) ==   \* mutant: headers are numbered without waiting
  IF t = "Doc001" THEN NextKeyDirty(f, t) ELSE Max({0} \cup Chaves(db[t] \cup tx[f][t])) + 1
NextKey(f, t) == Max({0} \cup Chaves(db[t] \cup tx[f][t])) + 1

\* An insert waits for the transaction that holds its key uncommitted, and
\* fails on a key that is committed.
Held(f, t)  == \E g \in Flow \ {f} : run[f].key \in Chaves(tx[g][t])
Clash(f, t) == run[f].key \in Chaves(db[t] \cup tx[f][t])

With(f, t, row) == [tx[f] EXCEPT ![t] = @ \cup {row}]

\* Write a row of table t and go on to the step named next with the locals r.
Insert(f, t, row, r, next) ==
  /\ run[f].key # 0 /\ ~ Held(f, t) /\ ~ Clash(f, t)
  /\ tx' = [tx EXCEPT ![f] = With(f, t, row)]
  /\ run' = [run EXCEPT ![f] = [r EXCEPT !.key = 0]]
  /\ pc' = [pc EXCEPT ![f] = next]
  /\ UNCHANGED <<browser, req, service, storage, crashes>>

\* _resolve_entity of a record that exists: nothing is written.
Reuse(f) ==
  /\ pc[f] \in {"supplier", "article"} /\ Resolved(Match(f))
  /\ run' = IF pc[f] = "supplier" THEN [run EXCEPT ![f].sup = Match(f).chave]
                                  ELSE [run EXCEPT ![f].art = Match(f).chave]
  /\ pc' = [pc EXCEPT ![f] = IF @ = "supplier" THEN "document" ELSE "line"]
  /\ UNCHANGED <<browser, req, service, tx, storage, crashes>>

\* _next_key, before each insert of a keyed row.
ReadKey(f) ==
  /\ pc[f] \in DOMAIN Written /\ run[f].key = 0
  /\ pc[f] \in {"supplier", "article"} => Creatable(Match(f))
  /\ run' = [run EXCEPT ![f].key = NextKey(f, Written[pc[f]])]
  /\ UNCHANGED <<browser, pc, req, service, tx, storage, crashes>>

InsertSupplier(f) ==
  /\ pc[f] = "supplier"
  /\ Insert(f, "Entidades",
            [Chave |-> run[f].key, nif |-> Match(f).new.nif, name |-> Match(f).new.name],
            [run[f] EXCEPT !.sup = run[f].key], "document")

Header(f) ==
  [Chave |-> run[f].key, Entidade |-> run[f].sup, VRef |-> run[f].plan.vref]

InsertDocument(f) ==
  /\ pc[f] = "document"
  /\ Insert(f, "Doc001", Header(f), [run[f] EXCEPT !.doc = run[f].key],
            IF run[f].plan.lines = <<>> THEN "audit" ELSE "article")

InsertArticle(f) ==
  /\ pc[f] = "article"
  /\ Insert(f, "Artigos", [Chave |-> run[f].key, name |-> Match(f).new],
            [run[f] EXCEPT !.art = run[f].key], "line")

InsertLine(f) ==
  /\ pc[f] = "line"
  /\ Insert(f, "LinDoc001",
            [Chave |-> run[f].key, Documento |-> run[f].doc, ChaveProd |-> run[f].art],
            [run[f] EXCEPT !.at = @ + 1],
            IF run[f].at < Len(run[f].plan.lines) THEN "article" ELSE "audit")

AuditEntry(f, status) ==
  [proposal |-> req[f].pid, status |-> status,
   document |-> IF status = "ok" THEN run[f].doc ELSE 0]

\* AuditLog.append swallows its errors: a line may be missing from the file.
Mirror(entry) ==
  \/ mirror' = mirror \cup {entry}
  \/ "mirror" \in Faults /\ mirror' = mirror

\* mutant: the audit row goes through a session of its own
AuditApart(f) ==
  /\ pc[f] = "audit"
  /\ db' = [db EXCEPT !["BillAudit"] = @ \cup {AuditEntry(f, "ok")}]
  /\ Mirror(AuditEntry(f, "ok"))
  /\ pc' = [pc EXCEPT ![f] = "landing"]
  /\ UNCHANGED <<browser, req, service, run, tx, crashes>>
\* The audit row on the document's own session, then its line in the file.
Audit(f) ==
  /\ pc[f] = "audit"
  /\ tx' = [tx EXCEPT ![f] = With(f, "BillAudit", AuditEntry(f, "ok"))]
  /\ Mirror(AuditEntry(f, "ok"))
  /\ pc' = [pc EXCEPT ![f] = "landing"]
  /\ UNCHANGED <<browser, req, service, run, db, crashes>>

\* session.commit(): every row at once.  An error of the connection may reach
\* the service although the server has committed.
Land(f) ==
  /\ pc[f] = "landing"
  /\ db' = [t \in Table |-> db[t] \cup tx[f][t]]
  /\ tx' = [tx EXCEPT ![f] = NoRows]
  /\ \/ pc' = [pc EXCEPT ![f] = "landed"]
     \/ "commit" \in Faults /\ pc' = [pc EXCEPT ![f] = "failing"]
  /\ UNCHANGED <<browser, req, service, run, mirror, crashes>>

\* An insert on a taken key, or a match that is neither there nor creatable.
MustFail(f) ==
  /\ pc[f] \in DOMAIN Written
  /\ \/ run[f].key # 0 /\ ~ Held(f, Written[pc[f]]) /\ Clash(f, Written[pc[f]])
     \/ pc[f] \in {"supplier", "article"} /\ ~ Resolved(Match(f)) /\ ~ Creatable(Match(f))

KeepLocks(f) == tx   \* mutant: the session is neither rolled back nor closed
Rollback(f) == [tx EXCEPT ![f] = NoRows]

\* An exception inside the session rolls it back and reaches commit().
Fail(f) ==
  /\ MustFail(f) \/ ("statement" \in Faults /\ Open(f))
  /\ tx' = Rollback(f)
  /\ pc' = [pc EXCEPT ![f] = "failing"]
  /\ UNCHANGED <<browser, req, service, run, storage, crashes>>

\* mutant: failures go to the table only
RecordFailureInTable(f) ==
  /\ pc[f] = "failing"
  /\ db' = [db EXCEPT !["BillAudit"] = @ \cup {AuditEntry(f, "error")}]
  /\ run' = [run EXCEPT ![f] = Stopped]
  /\ Finish(f)
  /\ UNCHANGED <<browser, service, tx, mirror, crashes>>
\* record_failure(): best effort in a session of its own, then the file.
RecordFailure(f) ==
  /\ pc[f] = "failing"
  /\ \/ db' = [db EXCEPT !["BillAudit"] = @ \cup {AuditEntry(f, "error")}]
     \/ "note" \in Faults /\ db' = db
  /\ Mirror(AuditEntry(f, "error"))
  /\ run' = [run EXCEPT ![f] = Stopped]
  /\ Finish(f)
  /\ UNCHANGED <<browser, service, tx, crashes>>

\* The proposal leaves the store and the document's key is answered.
Answer(f) ==
  /\ pc[f] = "landed"
  /\ proposals' = proposals \ {req[f].pid}
  /\ run' = [run EXCEPT ![f] = Stopped]
  /\ Finish(f)
  /\ UNCHANGED <<browser, loop, plan, fresh, approvals, tx, storage, crashes>>

-----------------------------------------------------------------------------
(* A restart of the service *)

\* The stores live in the process; requests in it are lost and their
\* transactions rolled back by the server.  Review screens survive in the
\* browser, as does an Accept that has its stage answer and not yet its commit.
\* A redeploy also discards the disk and the file with it.
Crash ==
  /\ crashes < MaxCrashes
  /\ crashes' = crashes + 1
  /\ loop' = Absent /\ proposals' = {}
  /\ plan' = [p \in Pid |-> Absent] /\ fresh' = [p \in Pid |-> Absent]
  /\ pc' = [f \in Flow |-> IF pc[f] = "staged" THEN pc[f] ELSE "idle"]
  /\ req' = [f \in Flow |-> IF pc[f] = "staged" THEN req[f] ELSE Absent]
  /\ run' = [f \in Flow |-> Stopped]
  /\ tx' = [f \in Flow |-> NoRows]
  /\ mirror' \in {mirror, {}}
  /\ UNCHANGED <<browser, approvals, db>>

-----------------------------------------------------------------------------
(* Specification *)

Transaction(f) ==
  \/ Reuse(f) \/ ReadKey(f) \/ InsertSupplier(f) \/ InsertDocument(f)
  \/ InsertArticle(f) \/ InsertLine(f) \/ Audit(f) \/ Land(f)
  \/ RecordFailure(f) \/ Answer(f)

Next ==
  \/ \E p \in Pid : Upload(p)
  \/ \E f \in Flow, p \in Pid : Accept(f, p)
  \/ \E f \in Flow : StageBegin(f) \/ StageRefuse(f) \/ StagePut(f) \/ StageOk(f) \/ StageLost(f)
  \/ \E f \in Flow : CommitBegin(f) \/ CommitNothing(f)
  \/ \E f \in Flow : Transaction(f) \/ Fail(f)
  \/ Crash

Spec == Init /\ [][Next]_vars

\* A running thread goes on: its next statement completes, or fails where it
\* must.  Nothing obliges operators to press, or a statement to fail.
Fairness == \A f \in Flow : WF_vars(Transaction(f) \/ (MustFail(f) /\ Fail(f)))

FairSpec == Spec /\ Fairness

-----------------------------------------------------------------------------
(* Properties *)

OkAudits == {a \in db["BillAudit"] : a.status = "ok"}

PlanOK(w) ==
  /\ Resolved(w.sup) \/ Creatable(w.sup)
  /\ \A i \in DOMAIN w.lines : Resolved(w.lines[i]) \/ Creatable(w.lines[i])

MatchOf(value) ==
  [status : {"matched", "ambiguous", "new"}, chave : Nat, candidates : SUBSET Nat,
   new : value \cup {Absent}, confirmed : BOOLEAN]
ProposalType == [bill : Bill, sup : MatchOf(Supplier), lines : Seq(MatchOf(Text))]
PlanType == [sup : MatchOf(Supplier), vref : Ref, lines : Seq(MatchOf(Text))]
RequestType == [pid : Pid, body : ProposalType, warned : BOOLEAN]
RunType == [plan : PlanType \cup {Absent}, at : Nat \ {0}, key : Nat, sup : Nat,
            doc : Nat, art : Nat]
PcType == {"idle", "staging", "checking", "warning", "staged", "supplier", "document", "article",
           "line", "audit", "landing", "landed", "failing"}
AuditType == [proposal : Pid, status : {"ok", "error"}, document : Nat]

Tables(rows) ==
  /\ rows = [t \in Table |-> rows[t]]
  /\ rows["Entidades"] \subseteq [Chave : Nat \ {0}, nif : Nif \cup {NoNif}, name : Text]
  /\ rows["Artigos"] \subseteq [Chave : Nat \ {0}, name : Text]
  /\ rows["Doc001"] \subseteq [Chave : Nat \ {0}, Entidade : Nat \ {0}, VRef : Ref]
  /\ rows["LinDoc001"] \subseteq [Chave : Nat \ {0}, Documento : Nat \ {0}, ChaveProd : Nat \ {0}]
  /\ rows["BillAudit"] \subseteq AuditType

\* Every variable has its shape; whoever runs a request has one, whoever runs
\* execute() has a plan, and what is written refers to real keys (never 0).
TypeOK ==
  /\ screen \in [Pid -> ProposalType \cup {Absent}]
  /\ clicks \in Nat /\ crashes \in Nat
  /\ pc \in [Flow -> PcType]
  /\ req \in [Flow -> RequestType \cup {Absent}]
  /\ \A f \in Flow : pc[f] # "idle" => req[f] \in RequestType
  /\ loop \in Flow \cup {Absent} /\ proposals \subseteq Pid
  /\ plan \in [Pid -> PlanType \cup {Absent}]
  /\ fresh \in [Pid -> PlanType \cup {Absent}]
  /\ approvals \in [Pid -> Nat]
  /\ run \in [Flow -> RunType]
  /\ \A f \in Flow : Open(f) => run[f].plan \in PlanType
  /\ tx = [f \in Flow |-> tx[f]] /\ \A f \in Flow : Tables(tx[f])
  /\ Tables(db)
  /\ mirror \subseteq AuditType

\* Every document was written together with exactly one "ok" audit row, and no
\* "ok" row speaks of a document that is not there: "the audit row commits with
\* the document or rolls back with it" (write_executor.py).
AuditedOnce ==
  /\ \A d \in db["Doc001"] :
       \E a \in OkAudits : {b \in OkAudits : b.document = d.Chave} = {a}
  /\ \A a \in OkAudits : a.document \in Chaves(db["Doc001"])

\* A pass of the gate pays for one document: written, being written or, as a
\* plan, still to be written, and never two of these, even when two Accepts of
\* one screen overlap: commit() pops the plan before it uses it.  (The answer
\* of that stage may still have been a 500, see StageLost.)
OneDocumentPerApproval ==
  \A p \in Pid :
    Cardinality({a \in OkAudits : a.proposal = p})
      + Cardinality({f \in Flow : Open(f) /\ req[f].pid = p})
      + (IF plan[p] = Absent THEN 0 ELSE 1) <= approvals[p]

\* What a commit may pick up is what the last stage of that proposal to reach a
\* decision let through the gate, never what an earlier one did: a stage that
\* is refused, or cannot re-match, leaves nothing (service.py, stage()).
OnlyLatestStageCommits == \A p \in Pid : plan[p] # Absent => plan[p] = fresh[p]

\* A plan that passed the gate gives the executor nothing to refuse.
PlansAreWritable ==
  /\ \A p \in Pid : plan[p] # Absent => PlanOK(plan[p])
  /\ \A f \in Flow : Open(f) => PlanOK(run[f].plan)

\* Master data appears only as an operator saw it and ticked it: a created
\* supplier or article has the values some submitted screen had, box ticked.
CreatedAsAgreed ==
  /\ \A r \in db["Entidades"] \ Entidades0 :
       <<"Entidades", [nif |-> r.nif, name |-> r.name]>> \in ticked
  /\ \A r \in db["Artigos"] \ Artigos0 : <<"Artigos", r.name>> \in ticked

\* Two open transactions never both hold an uncommitted header: the second
\* reads the same MAX and waits.  This is what keeps line and article keys free
\* of clashes and the waits of transactions free of cycles.
HeadersSerialise ==
  \A f, g \in Flow : tx[f]["Doc001"] # {} /\ tx[g]["Doc001"] # {} => f = g

\* f cannot insert because g holds the key it read, uncommitted.
Waits(f, g) ==
  /\ f # g /\ pc[f] \in DOMAIN Written /\ run[f].key # 0
  /\ run[f].key \in Chaves(tx[g][Written[pc[f]]])

\* Whichever transactions wait for keys of suppliers, headers, articles and
\* lines that others hold, one in every group waits for none of the group: no
\* deadlock, although each takes keys of four tables and the articles of two
\* bills may come in opposite orders.
NoWaitCycle ==
  \A S \in SUBSET Flow : S # {} => \E f \in S : \A g \in S : ~ Waits(f, g)

\* One supplier row per tax id, as long as the ERP started so: "otherwise the
\* executor inserts a second row for a company we already have" (_rematch).
OneSupplierPerNif ==
  \A r, s \in db["Entidades"] : r.nif = s.nif /\ r.nif # NoNif => r = s

\* A plan in the store is that of a stage whose answer was, or will be, ok:
\* "only a stage() call that ends ok:True can leave a committable plan for
\* commit()" (service.py, stage()).
OkStagesOnly ==
  \A p \in Pid : plan[p] # Absent =>
    \E f \in Flow : pc[f] \in {"warning", "staged"} /\ req[f].pid = p

\* Nobody writes a second document under a supplier number without the stage
\* response having said so: "Duplicate bill (same supplier + invoice number
\* already staged/written) -> warn before commit" (design document).
DuplicatesWarned ==
  \A f \in Flow : pc[f] = "landing" /\ SameRef(db["Doc001"], run[f].plan.vref) # {} => req[f].warned

\* The mirror file gets its "ok" line before the transaction commits.  Where
\* the commit then fails, an "error" line of the same proposal follows, so the
\* file alone never ends with a document the ERP does not have - as long as
\* the service does not stop in between and the file takes every line.
MirrorRetracts ==
  \A m \in mirror :
    m.status = "ok" /\ m \notin OkAudits =>
      \/ \E f \in Flow : pc[f] \in {"landing", "failing"} /\ req[f].pid = m.proposal
      \/ \E e \in mirror : e.status = "error" /\ e.proposal = m.proposal

\* A commit thread that has started its transaction comes to an end, however
\* long it had to wait for the keys of others.
CommitAnswered == \A f \in Flow : (pc[f] = "supplier") ~> (pc[f] = "idle")

Ledger == INSTANCE BillLedger WITH books <- db

\* The service only ever posts whole bills and notes of failure.
ImplementsLedger == Ledger!Spec
=============================================================================
