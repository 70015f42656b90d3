--------------------------- MODULE PayrollRegistry ---------------------------
(* Employees, contracts, periods and hours, and the dry run that reads them:  *)
(* PayrollService over its repositories and its rule loader.                  *)
(*                                                                            *)
(* The repositories come in two kinds, dictionaries in memory and SQL tables  *)
(* behind a session; the same calls are made on both here.  A session lives   *)
(* in one session_scope: its statements can fail between any two of a call,   *)
(* and what it wrote is then gone.  The rule files are edited by their        *)
(* authors while the process that caches them runs.                           *)
EXTENDS Naturals, FiniteSets

CONSTANTS
  Employee, Contract, Period,
  Sum,        \* amounts and hours, in tenths of the last place a column keeps
  NumLayers,  \* rule files of the stack
  None,
  MaxCalls,   \* bounds: calls that enter something,
  MaxRuns,    \* dry runs,
  MaxScopes,  \* scopes,
  MaxEdits    \* and edits of a rule file

ASSUME SumAssumption == Sum \subseteq Nat
ASSUME LayersAssumption == NumLayers \in Nat \ {0}

Layer == 1..NumLayers   \* in the order they are read

VARIABLES
  memory,   \* the dictionaries of the in-memory repositories
  db,       \* the tables, as committed
  session,  \* the tables as the session sees them
  scope,    \* "closed", "open"
  lost,     \* TRUE: a scope was rolled back
  call,     \* the call under way
  answer,   \* what the last finished call answered on the SQL repositories
  files,    \* files[l]: the rule file of layer l
  cache,    \* RuleLoader._cache
  plan,     \* cache's documents as of the last plan that was built
  spent     \* bounds used up

registry == <<memory, db, session, scope, lost>>
rules == <<files, cache, plan>>
vars == <<registry, call, answer, rules, spent>>

Updated(f, g) ==
  [n \in DOMAIN f \cup DOMAIN g |-> IF n \in DOMAIN g THEN g[n] ELSE f[n]]

Entry(k, v) == [x \in {k} |-> v]

Nothing == [x \in {} |-> x]

Blank ==
  [employees |-> Nothing, contracts |-> Nothing, periods |-> {}, times |-> Nothing]

\* A file can be read and merged with the others, cannot be read (absent, not
\* YAML, a float literal, not the schema), or contradicts a layer below it.
Condition == {"good", "unreadable", "clashing"}

Idle == [at |-> "idle"]

Init ==
  /\ memory = [employees |-> Nothing, contracts |-> Nothing, periods |-> {},
               times |-> Nothing, byEmployee |-> Nothing]
  /\ db = Blank
  /\ session = Blank
  /\ scope = "closed"
  /\ lost = FALSE
  /\ call = Idle
  /\ answer = "none"
  /\ files = [l \in Layer |-> [edition |-> 0, is |-> "good"]]
  /\ cache = Nothing
  /\ plan = Nothing
  /\ spent = [calls |-> 0, runs |-> 0, scopes |-> 0, edits |-> 0]

Spend(what, max) ==
  /\ spent[what] < max
  /\ spent' = [spent EXCEPT ![what] = @ + 1]

-----------------------------------------------------------------------------
(* The repositories.  Each table t is a record of what upsert has stored.     *)

PutEmployee(t, e, current) ==
  [t EXCEPT !.employees = Updated(@, Entry(e, current))]

PutRow(t, c, e, s) ==
  [t EXCEPT !.contracts = Updated(@, Entry(c, [employee |-> e, salary |-> s]))]

PutPeriod(t, p) == [t EXCEPT !.periods = @ \cup {p}]

PutTimes(t, p, e, h) == [t EXCEPT !.times = Updated(@, Entry(<<p, e>>, h))]

\* In memory a contract is also filed under its employee, and stays there when
\* it is given to another.
KeepFirst(t, c, e, s) ==   \* mutant: a contract in place is not replaced
  IF e \in DOMAIN t.byEmployee THEN PutRow(t, c, e, s)
  ELSE [PutRow(t, c, e, s) EXCEPT
    !.byEmployee = Updated(@, Entry(e, [contract |-> c, salary |-> s]))]
PutContract(t, c, e, s) ==
  [PutRow(t, c, e, s) EXCEPT
    !.byEmployee = Updated(@, Entry(e, [contract |-> c, salary |-> s]))]

FiledFor(t, e) ==
  IF e \in DOMAIN t.byEmployee THEN {t.byEmployee[e]} ELSE {}

RowsFor(t, e) ==
  {[contract |-> c, salary |-> t.contracts[c].salary] :
     c \in {d \in DOMAIN t.contracts : t.contracts[d].employee = e}}

\* NUMERIC columns keep a last place and round what comes after it.
Rounded(x) == ((x + 5) \div 10) * 10

\* A commit expires the session: what is read next is what the columns kept.
Kept(t) ==
  [t EXCEPT
    !.contracts = [c \in DOMAIN @ |->
      [employee |-> @[c].employee, salary |-> Rounded(@[c].salary)]],
    !.times = [k \in DOMAIN @ |-> Rounded(@[k])]]

-----------------------------------------------------------------------------
(* Scopes *)

Open ==
  /\ scope = "closed"
  /\ scope' = "open"
  /\ session' = db
  /\ Spend("scopes", MaxScopes)
  /\ UNCHANGED <<memory, db, lost, call, answer, rules>>

Commit ==
  /\ scope = "open" /\ call = Idle
  /\ scope' = "closed"
  /\ db' = Kept(session)
  /\ session' = Kept(session)
  /\ UNCHANGED <<memory, lost, call, answer, rules, spent>>

\* The caller raises, or a statement, the commit or the process fails.
RollbackKeeps == /\ scope = "open"   \* mutant: what was flushed stays
                 /\ scope' = "closed"
                 /\ db' = Kept(session) /\ session' = Kept(session)
                 /\ lost' = TRUE /\ call' = Idle /\ answer' = "none"
                 /\ UNCHANGED <<memory, rules, spent>>
Rollback ==
  /\ scope = "open"
  /\ scope' = "closed"
  /\ session' = db
  /\ lost' = TRUE
  /\ call' = Idle
  /\ answer' = "none"
  /\ UNCHANGED <<memory, db, rules, spent>>

-----------------------------------------------------------------------------
(* Calls of the service.  In memory a call has no statement to fail, and is   *)
(* made whole when it begins.                                                 *)

Called ==
  /\ scope = "open" /\ call = Idle
  /\ UNCHANGED <<db, scope, lost, rules>>

Entering == Called /\ Spend("calls", MaxCalls)

Says(a) == answer' = a

CreateEmployee(e) ==
  /\ Entering
  /\ memory' = PutEmployee(memory, e, None)
  /\ session' = PutEmployee(session, e, None)
  /\ Says("ok")
  /\ UNCHANGED call

\* Stores the contract and goes on to the employee it names; does nothing for
\* an employee there is not.
CreateContract(c, e, s) ==
  /\ Entering
  /\ \/ /\ e \in DOMAIN session.employees
        /\ session' = PutRow(session, c, e, s)
        /\ call' = [at |-> "pointing", employee |-> e, contract |-> c]
        /\ UNCHANGED answer
     \/ /\ e \notin DOMAIN session.employees
        /\ Says("EMPLOYEE_NOT_FOUND")
        /\ UNCHANGED <<session, call>>
  /\ memory' = IF e \in DOMAIN memory.employees
               THEN PutEmployee(PutContract(memory, c, e, s), e, c)
               ELSE memory

\* The second write of create_contract.
PointEmployee ==
  /\ call.at = "pointing"
  /\ session' = PutEmployee(session, call.employee, call.contract)
  /\ call' = Idle
  /\ Says("ok")
  /\ UNCHANGED <<memory, db, scope, lost, rules, spent>>

OpenPeriod(p) ==
  /\ Entering
  /\ memory' = PutPeriod(memory, p)
  /\ session' = PutPeriod(session, p)
  /\ Says("ok")
  /\ UNCHANGED call

KnownPeriod(t, p, e) ==   \* mutant: set_time_input does not look the employee up
  IF p \notin t.periods THEN "PERIOD_NOT_FOUND" ELSE "ok"

\* What get_period and get_employee answer, asked in this order.
Known(t, p, e) ==
  CASE p \notin t.periods          -> "PERIOD_NOT_FOUND"
    [] e \notin DOMAIN t.employees -> "EMPLOYEE_NOT_FOUND"
    [] OTHER                       -> "ok"

SetTimeInput(p, e, h) ==
  /\ Entering
  /\ memory' = IF Known(memory, p, e) = "ok" THEN PutTimes(memory, p, e, h) ELSE memory
  /\ session' = IF Known(session, p, e) = "ok" THEN PutTimes(session, p, e, h) ELSE session
  /\ Says(Known(session, p, e))
  /\ UNCHANGED call

-----------------------------------------------------------------------------
(* The dry run *)

\* The contract an employee is paid by.  The SQL repository insists on one.
OneOf(found) ==
  CASE found = {}               -> "CONTRACT_NOT_FOUND"
    [] Cardinality(found) = 1   -> "ok"
    [] OTHER                    -> "MultipleResultsFound"

\* What the look-ups of a dry run answer, in their order, in a table t in which
\* e's contracts are found.
LookUps(t, found, p, e) ==
  CASE Known(t, p, e) # "ok"      -> Known(t, p, e)
    [] OneOf(found) # "ok"        -> OneOf(found)
    [] <<p, e>> \notin DOMAIN t.times -> "TIME_INPUT_NOT_FOUND"
    [] OTHER                      -> "ok"

DryRun(p, e) ==
  /\ Called
  /\ Spend("runs", MaxRuns)
  /\ LET seen == LookUps(session, RowsFor(session, e), p, e) IN
       \/ /\ seen = "ok"
          /\ call' = [at |-> "loading", layer |-> 1]
          /\ UNCHANGED answer
       \/ /\ seen # "ok"
          /\ Says(seen)
          /\ UNCHANGED call
  /\ UNCHANGED <<memory, session>>

DocumentNow(l) == files[l]   \* mutant: the file is read again for every plan
\* load_document of the next layer: from the cache, or from the file as it is
\* now; a file that cannot be read is not cached.
Document(l) == IF l \in DOMAIN cache THEN cache[l] ELSE files[l]

CachedAnyway(l) == Updated(cache, Entry(l, Document(l)))   \* mutant: a failure is cached
Cached(l) ==
  IF Document(l).is = "unreadable" THEN cache ELSE Updated(cache, Entry(l, Document(l)))

Load ==
  /\ call.at = "loading" /\ call.layer \in Layer
  /\ cache' = Cached(call.layer)
  /\ IF Document(call.layer).is = "unreadable"
     THEN call' = Idle /\ Says("RULE_LOAD")
     ELSE call' = [call EXCEPT !.layer = @ + 1] /\ UNCHANGED answer
  /\ UNCHANGED <<registry, files, plan, spent>>

\* The documents are merged and put in order; the payslip follows.
Calculate ==
  /\ call.at = "loading" /\ call.layer \notin Layer
  /\ call' = Idle
  /\ IF \E l \in Layer : cache[l].is = "clashing"
     THEN Says("RULES_REFUSED") /\ UNCHANGED plan
     ELSE Says("ok") /\ plan' = cache
  /\ UNCHANGED <<registry, files, cache, spent>>

\* RuleLoader.reload; nothing is calculating then.
Reload ==
  /\ call = Idle /\ cache # Nothing
  /\ cache' = Nothing
  /\ plan' = Nothing
  /\ UNCHANGED <<registry, call, answer, files, spent>>

\* An author saves a rule file.
Edit(l, c) ==
  /\ Spend("edits", MaxEdits)
  /\ files' = [files EXCEPT ![l] = [edition |-> @.edition + 1, is |-> c]]
  /\ UNCHANGED <<registry, call, answer, cache, plan>>

Next ==
  \/ Open \/ Commit \/ Rollback \/ PointEmployee \/ Load \/ Calculate \/ Reload
  \/ \E e \in Employee :
       \/ CreateEmployee(e)
       \/ \E c \in Contract, s \in Sum : CreateContract(c, e, s)
       \/ \E p \in Period, h \in Sum : SetTimeInput(p, e, h)
       \/ \E p \in Period : DryRun(p, e)
  \/ \E p \in Period : OpenPeriod(p)
  \/ \E l \in Layer, c \in Condition : Edit(l, c)

Spec == Init /\ [][Next]_vars
-----------------------------------------------------------------------------
(* Properties *)

Maps(f, S, T) == f \in [DOMAIN f -> T] /\ DOMAIN f \subseteq S

Row == [employee : Employee, salary : Nat]
Filed == [contract : Contract, salary : Nat]

IsTables(t) ==
  /\ Maps(t.employees, Employee, Contract \cup {None})
  /\ Maps(t.contracts, Contract, Row)
  /\ t.periods \subseteq Period
  /\ Maps(t.times, Period \X Employee, Nat)

Columns == {"employees", "contracts", "periods", "times"}

Calls ==
  {Idle} \cup [at : {"pointing"}, employee : Employee, contract : Contract]
         \cup [at : {"loading"}, layer : 1..(NumLayers + 1)]

RuleFile == [edition : Nat, is : Condition]

\* Every variable keeps its shape, nothing is called outside a scope, and only
\* files that could be read are cached.
TypeOK ==
  /\ IsTables(db) /\ DOMAIN db = Columns
  /\ IsTables(session) /\ DOMAIN session = Columns
  /\ IsTables(memory) /\ DOMAIN memory = Columns \cup {"byEmployee"}
  /\ Maps(memory.byEmployee, Employee, Filed)
  /\ scope \in {"closed", "open"} /\ lost \in BOOLEAN
  /\ call \in Calls /\ (scope = "closed" => call = Idle)
  /\ files \in [Layer -> RuleFile]
  /\ Maps(cache, Layer, RuleFile) /\ Maps(plan, Layer, RuleFile)
  /\ \A l \in DOMAIN cache : cache[l].is # "unreadable"

\* What a table names is in it: an employee's current contract, a contract's
\* employee, the period and the employee of a time input.
Sound(t) ==
  /\ \A e \in DOMAIN t.employees : t.employees[e] \in DOMAIN t.contracts \cup {None}
  /\ \A c \in DOMAIN t.contracts : t.contracts[c].employee \in DOMAIN t.employees
  /\ \A k \in DOMAIN t.times : k[1] \in t.periods /\ k[2] \in DOMAIN t.employees

\* service.py writes a contract and its employee in two statements and looks up
\* what it refers to before: no sequence of calls, refusals, rollbacks and
\* commits leaves the tables, or the dictionaries, with a name that is not there.
ReferencesHold == Sound(db) /\ Sound(memory)

\* e has one contract, the one that e was last given, of an amount a column keeps.
Plain(e) ==
  /\ {x.contract : x \in RowsFor(memory, e)} = {x.contract : x \in FiledFor(memory, e)}
  /\ \A x \in RowsFor(memory, e) : Rounded(x.salary) = x.salary

\* The in-memory repositories stand in for the SQL ones in every test of the
\* service: as long as no scope was rolled back, the look-ups of a dry run
\* answer the same on both and pay by the same contract, for an employee with
\* one contract and amounts of two places (memory.py:27, sqlserver.py:118).
StandIn ==
  (~lost /\ call = Idle) =>
    \A e \in Employee : Plain(e) =>
      /\ RowsFor(session, e) = FiledFor(memory, e)
      /\ \A p \in Period :
           LookUps(session, RowsFor(session, e), p, e) =
           LookUps(memory, FiledFor(memory, e), p, e)

\* The tables as they are once the call under way has made its second write.
Completed ==
  IF call.at = "pointing" THEN PutEmployee(session, call.employee, call.contract)
  ELSE session

Book == INSTANCE PayrollBook WITH
  book <- db, draft <- Completed, open <- scope = "open"

\* The service over SQL repositories implements the book: an employee is given
\* a contract whole or not at all, wherever a statement fails (service.py:93).
ImplementsBook == Book!Spec

\* RuleLoader caches documents so that what is computed from them does not
\* change under a run: as long as nobody calls reload, every plan is built from
\* the documents of the first, whatever happens to the files (loader.py:41).
PlansRepeat ==
  [][(plan # Nothing /\ plan' # plan) => plan' = Nothing]_vars

\* A dry run is refused for a rule file that cannot be read only while that
\* file cannot be read: the failure is not kept in the cache (loader.py:78).
RefusalsAreCurrent ==
  [][(call.at = "loading" /\ call' = Idle /\ answer' = "RULE_LOAD") =>
       files[call.layer].is = "unreadable"]_vars

\* "All return Pydantic DTOs and raise typed exceptions on rule violations"
\* (the business logic design): an answer is a result or one of the module's
\* own errors.
TypedErrors ==
  answer \in {"none", "ok", "PERIOD_NOT_FOUND", "EMPLOYEE_NOT_FOUND", "CONTRACT_NOT_FOUND",
              "TIME_INPUT_NOT_FOUND", "RULE_LOAD", "RULES_REFUSED"}
=============================================================================
