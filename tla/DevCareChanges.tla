--------------------------- MODULE DevCareChanges ---------------------------
(***************************************************************************)
(* Conversational CRUD on the clinic database: a change is proposed (by the *)
(* model's propose_change tool or by a form), validated and staged without  *)
(* writing; the operator's Confirm pops it, reads the row as it was,        *)
(* executes it as one transaction and appends to the audit log.             *)
(*                                                                         *)
(* Every handler runs on the event loop without awaiting: a commit is       *)
(* interrupted by nothing but a failure or a restart of the service.        *)
(* Rules, as shipped: a specialty has a required code, unique among active  *)
(* rows; a doctor may refer to a specialty; deleting sets Hist.             *)
(***************************************************************************)
EXTENDS Naturals, Sequences, FiniteSetsExt

CONSTANTS
  Conversation,  \* conversation ids
  Change,        \* change ids (chg_<uuid>), one per staged change
  Code,          \* specialty codes
  Blank,         \* a field that is not given, a NULL
  Absent,        \* "there is none": no staged change, no row before
  Specialties0,  \* specialties at the start
  Doctors0,      \* doctors at the start
  LastChave,     \* no key in the tables is above it at the start
  StrayTargets,  \* keys a create may name as its target, though it has none
  Faults,        \* what may go wrong besides restarts, see FaultKind
  MaxCrashes     \* bound: restarts in a behaviour

\* The read of the row before fails; a statement fails; the connection breaks
\* after COMMIT took effect; the log does not take a line.
FaultKind == {"read", "statement", "commit", "log"}

Entity == {"specialty", "doctor"}
Operation == {"create", "update", "delete"}

Pks(t) == {r.pk : r \in t}
Rows0 == [e \in Entity |-> IF e = "specialty" THEN Specialties0 ELSE Doctors0]

\* col: the code of a specialty, the specialty of a doctor.  hist: soft-deleted.
Row(value) == [pk : Nat \ {0}, col : value \cup {Blank}, hist : BOOLEAN]

ASSUME DevCareConstants ==
  /\ Blank \notin Code \cup Nat
  /\ Specialties0 \subseteq Row(Code) /\ Doctors0 \subseteq Row(Nat)
  /\ LastChave \in Nat /\ Pks(Specialties0) \cup Pks(Doctors0) \subseteq 1..LastChave
  /\ \A r, s \in Specialties0 : r.pk = s.pk => r = s
  /\ \A r, s \in Doctors0 : r.pk = s.pk => r = s
  /\ \A d \in Doctors0 : d.col # Blank => d.col \in Pks(Specialties0)
  /\ StrayTargets \subseteq Nat \ {0}
  /\ Faults \subseteq FaultKind /\ MaxCrashes \in Nat

VARIABLES
  rows,      \* committed rows of each entity's table
  pending,   \* staged changes, by id
  card,      \* the pending-change card of each id, and whose conversation shows it
  work,      \* the commit under way: its change, the row before, how far it is
  log,       \* devcare_writes.jsonl; each entry also names its change here
  confirms,  \* history: <<conversation, change>> of each Confirm that was taken
  writes,    \* history: transactions committed per change
  crashes    \* restarts so far

vars == <<rows, pending, card, work, log, confirms, writes, crashes>>

Idle == [at |-> "idle", id |-> Absent, conv |-> Absent, change |-> Absent,
         before |-> Absent, pk |-> Absent]
NoCard == [at |-> "none", conv |-> Absent]

-----------------------------------------------------------------------------
(* Validation *)

Active(e) == {r \in rows[e] : ~ r.hist}

\* _check_uniqueness and _check_references run on the fields that are given;
\* a reference may be to a soft-deleted row.  The row a change names as its
\* target does not count as a duplicate, for a create neither.
FieldsOK(ch) ==
  IF ch.entity = "specialty"
  THEN /\ ch.op = "create" => ch.col # Blank
       /\ ch.col # Blank => \A r \in Active("specialty") : r.col = ch.col => r.pk = ch.target
  ELSE ch.col # Blank => ch.col \in Pks(rows["specialty"])

\* _check_target_exists does not ask whether the row is active.
TargetExists(ch) == ch.target \in Pks(rows[ch.entity])

Valid(ch) ==
  /\ ch.op # "delete" => FieldsOK(ch)
  /\ ch.op # "create" => TargetExists(ch)

\* What the model or a form may ask for.  Nothing removes the target that a
\* proposal to create, or a form for one, carries along.
Asked ==
  LET Ask(e, value) ==
        [entity : {e}, op : {"create"}, col : value \cup {Blank},
         target : {Absent} \cup StrayTargets]
          \cup [entity : {e}, op : {"update"}, col : value \cup {Blank}, target : Pks(rows[e])]
          \cup [entity : {e}, op : {"delete"}, col : {Blank}, target : Pks(rows[e])]
  IN  Ask("specialty", Code) \cup Ask("doctor", Pks(rows["specialty"]))

-----------------------------------------------------------------------------
Init ==
  /\ rows = Rows0
  /\ pending = [c \in Change |-> Absent] /\ card = [c \in Change |-> NoCard]
  /\ work = Idle /\ log = <<>>
  /\ confirms = {} /\ writes = [c \in Change |-> 0]
  /\ crashes = 0

\* A refused proposal changes nothing.
Stage(v, c) ==
  /\ work = Idle /\ card[c] = NoCard
  /\ \E ch \in {a \in Asked : Valid(a)} :
       pending' = [pending EXCEPT ![c] = [conv |-> v, change |-> ch]]
  /\ card' = [card EXCEPT ![c] = [at |-> "open", conv |-> v]]
  /\ UNCHANGED <<rows, work, log, confirms, writes, crashes>>

\* The card is greyed out; the service is not told.  (A Cancel of a change that
\* is no longer staged is of no consequence and left out.)
Cancel(c) ==
  /\ card[c].at = "open" /\ pending[c] # Absent
  /\ card' = [card EXCEPT ![c].at = "cancelled"]
  /\ UNCHANGED <<rows, pending, work, log, confirms, writes, crashes>>

TakeAgain(v, c) == pending[c] # Absent /\ pending[c].conv = v /\ pending' = pending   \* mutant: get, not pop
\* PendingChangeStore.pop: only for the conversation that staged it, only once.
Take(v, c) ==
  pending[c] # Absent /\ pending[c].conv = v /\ pending' = [pending EXCEPT ![c] = Absent]

RowAt(e, pk) ==
  LET found == {r \in rows[e] : r.pk = pk}
  IN  IF found = {} THEN Absent ELSE CHOOSE r \in found : TRUE

\* mutant: the row before is read although the change creates one
BeforeAlways(ch) == IF rows[ch.entity] = {} THEN Absent ELSE CHOOSE r \in rows[ch.entity] : TRUE
Before(ch) == IF ch.op = "create" THEN Absent ELSE RowAt(ch.entity, ch.target)

\* The button of a card, cancelled or not, works until the answer is there and
\* after it; a Confirm of a change that is not in the store is answered so.
Confirm(v, c) ==
  LET ch == pending[c].change IN
  /\ work = Idle /\ card[c] # NoCard
  /\ Take(v, c)
  /\ confirms' = confirms \cup {<<v, c>>}
  /\ \/ work' = [at |-> "execute", id |-> c, conv |-> v, change |-> ch,
                 before |-> Before(ch), pk |-> ch.target]
     \/ /\ "read" \in Faults /\ ch.op # "create"
        /\ work' = [at |-> "error", id |-> c, conv |-> v, change |-> ch,
                    before |-> Absent, pk |-> ch.target]
  /\ UNCHANGED <<rows, card, log, writes, crashes>>

NextKeyActive(e) == Max({0} \cup Pks(Active(e))) + 1   \* mutant: deleted rows are not counted
NextKey(e) == Max({0} \cup Pks(rows[e])) + 1

DeleteForGood(t, pk) == {r \in t : r.pk # pk}   \* mutant: DELETE instead of Hist = 1
SoftDelete(t, pk) == {IF r.pk = pk THEN [r EXCEPT !.hist = TRUE] ELSE r : r \in t}

Updated(t, pk, col) ==
  {IF r.pk = pk /\ col # Blank THEN [r EXCEPT !.col = col] ELSE r : r \in t}

\* The table after a change; pk is the key of the row it is about.
Applied(t, ch, pk) ==
  CASE ch.op = "create" -> t \cup {[pk |-> pk, col |-> ch.col, hist |-> FALSE]}
    [] ch.op = "update" -> Updated(t, pk, ch.col)
    [] ch.op = "delete" -> SoftDelete(t, pk)

\* WriteExecutor.execute, one transaction.
Execute ==
  LET ch == work.change
      pk == IF ch.op = "create" THEN NextKey(ch.entity) ELSE ch.target
  IN
  /\ work.at = "execute"
  /\ \/ /\ rows' = [rows EXCEPT ![ch.entity] = Applied(@, ch, pk)]
        /\ writes' = [writes EXCEPT ![work.id] = @ + 1]
        /\ \/ work' = [work EXCEPT !.at = "ok", !.pk = pk]
           \/ "commit" \in Faults /\ work' = [work EXCEPT !.at = "error"]
     \/ /\ "statement" \in Faults
        /\ work' = [work EXCEPT !.at = "error"]
        /\ UNCHANGED <<rows, writes>>
  /\ UNCHANGED <<pending, card, log, confirms, crashes>>

\* AuditWriter.record; AuditLog.append swallows its errors.
Record ==
  /\ work.at \in {"ok", "error"}
  /\ \/ log' = Append(log, [id |-> work.id, status |-> work.at, entity |-> work.change.entity,
                            op |-> work.change.op, pk |-> work.pk, before |-> work.before,
                            after |-> work.change.col])
     \/ "log" \in Faults /\ log' = log
  /\ work' = Idle
  /\ UNCHANGED <<rows, pending, card, confirms, writes, crashes>>

\* Staged changes live in the process; the log and the cards do not.
Crash ==
  /\ crashes < MaxCrashes /\ crashes' = crashes + 1
  /\ pending' = [c \in Change |-> Absent] /\ work' = Idle
  /\ UNCHANGED <<rows, card, log, confirms, writes>>

Next ==
  \/ \E v \in Conversation, c \in Change : Stage(v, c) \/ Confirm(v, c)
  \/ \E c \in Change : Cancel(c)
  \/ Execute \/ Record \/ Crash

Spec == Init /\ [][Next]_vars

-----------------------------------------------------------------------------
(* Properties *)

ChangeType ==
  [entity : Entity, op : Operation, col : Code \cup Nat \cup {Blank}, target : Nat \cup {Absent}]

\* Every variable has its shape, a commit under way has a change, and Chave is a
\* key of each table.
TypeOK ==
  /\ \A e \in Entity : \A r, s \in rows[e] : r.pk = s.pk => r = s
  /\ rows["specialty"] \subseteq Row(Code) /\ rows["doctor"] \subseteq Row(Nat)
  /\ pending \in [Change -> [conv : Conversation, change : ChangeType] \cup {Absent}]
  /\ card \in [Change -> {NoCard} \cup [at : {"open", "cancelled"}, conv : Conversation]]
  /\ work = Idle \/ (work.at \in {"execute", "ok", "error"} /\ work.change \in ChangeType)
  /\ confirms \subseteq Conversation \X Change
  /\ writes \in [Change -> Nat] /\ crashes \in 0..MaxCrashes

\* A change is written at most once, however often Confirm is pressed, and only
\* because the conversation that staged it confirmed it: "the model cannot
\* self-commit" (design document), test_pop_is_one_shot.
ConfirmedWrites ==
  \A c \in Change : writes[c] <= 1 /\ (writes[c] = 1 => <<card[c].conv, c>> \in confirms)

\* What an entry tells of the tables, and whether its "before" is the row as it
\* was at that point.
Tell(s, e) ==
  IF e.status # "ok" THEN s
  ELSE [rows |-> [s.rows EXCEPT ![e.entity] = Applied(@, [op |-> e.op, col |-> e.after], e.pk)],
        true |-> s.true /\ e.before = (IF e.op = "create" THEN Absent
                   ELSE LET old == {r \in s.rows[e.entity] : r.pk = e.pk}
                        IN  IF old = {} THEN Absent ELSE CHOOSE r \in old : TRUE)]

\* The tables as the log tells them, from the first entry to the last.
Told ==
  LET told[n \in 0..Len(log)] ==
        IF n = 0 THEN [rows |-> Rows0, true |-> TRUE] ELSE Tell(told[n - 1], log[n])
  IN  told[Len(log)]

\* The log is a journal: as long as it has an entry for every write, replaying
\* it from the initial tables gives the tables, and each "before" was true.
AuditReplays ==
  LET told == {e.id : e \in {log[i] : i \in {j \in DOMAIN log : log[j].status = "ok"}}}
  IN  work = Idle /\ (\A c \in Change : writes[c] = 1 => c \in told)
        => Told.rows = rows /\ Told.true

\* A created record's key is none that a row, deleted or not, had before: the
\* key of an entry names one record for good.
KeysNameOneRecord ==
  LET created == {i \in DOMAIN log : log[i].op = "create" /\ log[i].status = "ok"}
  IN  /\ \A i \in created : log[i].pk \notin Pks(Rows0[log[i].entity])
      /\ \A i, j \in created : log[i].entity = log[j].entity /\ log[i].pk = log[j].pk => i = j

\* "logical FK checks (no real FKs in DB)" hold although the check is made when
\* a change is staged and specialties may be deleted before it is committed.
ReferencesExist ==
  \A d \in rows["doctor"] : d.col # Blank => d.col \in Pks(rows["specialty"])

\* "must be unique among active rows" (design document, section 5).
UniqueAmongActive ==
  \A r, s \in Active("specialty") : r.col = s.col => r.pk = s.pk

\* "Cancel discards the staged change" (design document, section 9).
CancelDiscards == \A c \in Change : card[c].at = "cancelled" => writes[c] = 0
=============================================================================
