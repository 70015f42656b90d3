-------------------------------- MODULE SqlPool --------------------------------
(* Queries of the chat: logic/chat/sql_executor.py.                           *)
(*                                                                            *)
(* Each query of a round runs in a thread of its own (asyncio.to_thread),     *)
(* which hands the statement to a pool of workers and waits for the result    *)
(* for a limited time.  If the database does not know a name, the thread      *)
(* looks up the columns of the tables of the query, through the same pool.    *)
(* A job nobody waits for any more is neither cancelled nor forgotten.        *)
EXTENDS Naturals, Sequences, FiniteSets

CONSTANTS
  Query,      \* calls of run_query
  Text,       \* what a call may be given
  Table,
  Known,      \* tables whose columns the database shows
  Workers,    \* _QUERY_POOL
  Threads,    \* threads of the event loop's default executor
  RowCap,     \* ROW_CAP
  EnrichMax   \* ENRICH_MAX_TABLES

\* What counts of a statement: whether validate_sql lets it pass, whether _wrap
\* leaves it as it is, how many rows it has, the tables it reads from in order.
ASSUME PoolAssumption ==
  /\ Workers \in Nat \ {0} /\ Threads \in Nat \ {0} /\ RowCap \in Nat /\ EnrichMax \in Nat
  /\ Known \subseteq Table
  /\ Text \subseteq [valid : BOOLEAN, asIs : BOOLEAN, size : Nat, refs : Seq(Table)]

\* Job <<q, 0>> is the statement of call q, <<q, i>> the look-up of its table i.
Job == Query \X Nat

Outcome == {"rows", "bad_name", "error", "columns"}

Answer ==
  [code : {"ok", "rejected", "timeout", "db_error"}, rows : 0..RowCap, truncated : BOOLEAN,
   hints : SUBSET Table]

VARIABLES
  text,     \* text[q]: the argument of call q, <<>> before it is made
  pc,       \* pc[q]: how far call q is
  ref,      \* ref[q]: the second half of the job q waits for
  future,   \* future[q]: the result of that job, once there is one
  hints,    \* hints[q]: tables whose columns have been found
  answer,   \* answer[q]: what run_query returned
  queue,    \* jobs no worker has taken yet
  busy      \* jobs workers are at

calls == <<text, pc, ref, future, hints, answer>>
vars  == <<calls, queue, busy>>

Init ==
  /\ text = [q \in Query |-> <<>>]
  /\ pc = [q \in Query |-> "idle"]
  /\ ref = [q \in Query |-> 0]
  /\ future = [q \in Query |-> "none"]
  /\ hints = [q \in Query |-> {}]
  /\ answer = [q \in Query |-> <<>>]
  /\ queue = <<>>
  /\ busy = {}

Elems(s) == {s[i] : i \in DOMAIN s}

Waiting(q) == pc[q] \in {"query", "lookup"}

AwaitedAny(j) == Waiting(j[1])   \* mutant: one result slot for all jobs of a call
Awaited(j) == Waiting(j[1]) /\ ref[j[1]] = j[2]

-----------------------------------------------------------------------------
(* What is returned *)

Return(q, a) ==
  /\ answer' = [answer EXCEPT ![q] = a]
  /\ pc' = [pc EXCEPT ![q] = "done"]

Failed(code, hs) == [code |-> code, rows |-> 0, truncated |-> FALSE, hints |-> hs]

Least(m, n) == IF m < n THEN m ELSE n

ResultCutFirst(t) ==   \* mutant: the rows are counted after they are cut
  [code |-> "ok", rows |-> Least(t.size, RowCap),
   truncated |-> IF t.asIs THEN Least(t.size, RowCap) > RowCap ELSE t.size >= RowCap,
   hints |-> {}]
\* The database cuts a wrapped statement off at the cap, run_query any other.
Result(t) ==
  [code |-> "ok", rows |-> Least(t.size, RowCap),
   truncated |-> IF t.asIs THEN t.size > RowCap ELSE Least(t.size, RowCap) >= RowCap,
   hints |-> {}]

\* The references that are looked up: each table once, the first few.
Firsts(t)  == {i \in DOMAIN t.refs : \A k \in 1..(i - 1) : t.refs[k] # t.refs[i]}
LookUps(t) == {i \in Firsts(t) : Cardinality({k \in Firsts(t) : k < i}) < EnrichMax}

-----------------------------------------------------------------------------
(* The calling threads *)

Call(q, t) ==
  /\ pc[q] = "idle"
  /\ text' = [text EXCEPT ![q] = t]
  /\ pc' = [pc EXCEPT ![q] = "called"]
  /\ UNCHANGED <<ref, future, hints, answer, queue, busy>>

Submit(q, i) ==
  /\ queue' = Append(queue, <<q, i>>)
  /\ ref' = [ref EXCEPT ![q] = i]
  /\ future' = [future EXCEPT ![q] = "none"]

Enter(q) ==
  /\ pc[q] = "called"
  /\ Cardinality({p \in Query : Waiting(p)}) < Threads
  /\ \/ /\ ~text[q].valid
        /\ Return(q, Failed("rejected", {}))
        /\ UNCHANGED <<ref, future, queue>>
     \/ /\ text[q].valid
        /\ Submit(q, 0)
        /\ pc' = [pc EXCEPT ![q] = "query"]
        /\ UNCHANGED answer
  /\ UNCHANGED <<text, hints, busy>>

\* Look up the tables that are left, or return with what was found.
GoOn(q, left, found) ==
  \/ /\ left = {}
     /\ Return(q, Failed("db_error", found))
     /\ UNCHANGED <<ref, future, queue>>
  \/ \E i \in left :
       /\ \A k \in left : i <= k
       /\ Submit(q, i)
       /\ pc' = [pc EXCEPT ![q] = "lookup"]
       /\ UNCHANGED answer

Collect(q) ==
  /\ pc[q] = "query"
  /\ \/ /\ future[q] = "rows"
        /\ Return(q, Result(text[q]))
        /\ UNCHANGED <<ref, future, queue>>
     \/ /\ future[q] = "error"
        /\ Return(q, Failed("db_error", {}))
        /\ UNCHANGED <<ref, future, queue>>
     \/ /\ future[q] = "bad_name"
        /\ GoOn(q, LookUps(text[q]), {})
  /\ UNCHANGED <<text, hints, busy>>

TimeOut(q) ==
  /\ pc[q] = "query" /\ future[q] = "none"
  /\ Return(q, Failed("timeout", {}))
  /\ UNCHANGED <<text, ref, future, hints, queue, busy>>

LookUpEndsWithResult(q) == pc[q] = "lookup" /\ future[q] # "none"   \* mutant: no time limit
\* A look-up that fails or takes too long is as good as one that finds nothing.
LookUpEnds(q) == pc[q] = "lookup"

LookedUp(q) ==
  /\ LookUpEnds(q)
  /\ LET found == IF future[q] = "columns" THEN hints[q] \cup {text[q].refs[ref[q]]} ELSE hints[q]
     IN /\ hints' = [hints EXCEPT ![q] = found]
        /\ GoOn(q, {i \in LookUps(text[q]) : i > ref[q]}, found)
  /\ UNCHANGED <<text, busy>>

-----------------------------------------------------------------------------
(* The pool *)

Take ==
  /\ queue # <<>>
  /\ Cardinality(busy) < Workers
  /\ busy' = busy \cup {Head(queue)}
  /\ queue' = Tail(queue)
  /\ UNCHANGED calls

DeliverRows(j, o) ==   \* mutant: a failing job leaves its future unset
  IF Awaited(j) /\ o # "error" THEN [future EXCEPT ![j[1]] = o] ELSE future
\* The result of a job nobody waits for is dropped.
Deliver(j, o) == IF Awaited(j) THEN [future EXCEPT ![j[1]] = o] ELSE future

Outcomes(j) ==
  IF j[2] = 0 THEN {"rows", "bad_name", "error"}
  ELSE {"error"} \cup {o \in {"columns"} : text[j[1]].refs[j[2]] \in Known}

Finish(j) ==
  /\ j \in busy
  /\ busy' = busy \ {j}
  /\ \E o \in Outcomes(j) : future' = Deliver(j, o)
  /\ UNCHANGED <<text, pc, ref, hints, answer, queue>>

-----------------------------------------------------------------------------

Caller(q) == Enter(q) \/ Collect(q) \/ TimeOut(q) \/ LookedUp(q)

Next ==
  \/ \E q \in Query : \E t \in Text : Call(q, t)
  \/ \E q \in Query : Enter(q) \/ Collect(q) \/ TimeOut(q) \/ LookedUp(q)
  \/ Take
  \/ \E j \in busy : Finish(j)

\* The callers' threads run and clocks tick; the pool and the database may stop.
Fairness == \A q \in Query : WF_vars(Caller(q))

Spec == Init /\ [][Next]_vars /\ Fairness
-----------------------------------------------------------------------------
(* Properties *)

TypeOK ==
  /\ text \in [Query -> Text \cup {<<>>}]
  /\ pc \in [Query -> {"idle", "called", "query", "lookup", "done"}]
  /\ ref \in [Query -> Nat]
  /\ future \in [Query -> Outcome \cup {"none"}]
  /\ hints \in [Query -> SUBSET Table]
  /\ answer \in [Query -> Answer \cup {<<>>}]
  /\ queue \in Seq(Job)
  /\ busy \subseteq Job
  /\ \A q \in Query : /\ pc[q] # "idle" => text[q] \in Text
                      /\ pc[q] = "done" => answer[q] \in Answer
                      /\ pc[q] = "lookup" => ref[q] \in LookUps(text[q])

\* A thread waits for nothing that will not come: its job is in the pool, once,
\* until its result is there.  Jobs nobody waits for are in the pool once, too.
NothingLost ==
  /\ \A q \in Query : Waiting(q) =>
       (future[q] = "none" <=> <<q, ref[q]>> \in Elems(queue) \cup busy)
  /\ \A i, k \in DOMAIN queue : queue[i] = queue[k] => i = k
  /\ Elems(queue) \cap busy = {}

\* The model is told of every row that it does not get.
TruncationTold ==
  \A q \in Query : pc[q] = "done" /\ answer[q].code = "ok" /\ ~answer[q].truncated =>
    answer[q].rows = text[q].size

\* The columns offered for a retry are those of tables the query reads from and
\* the database knows, never of another look-up that came too late.
HintsTrue ==
  \A q \in Query : pc[q] = "done" =>
    /\ answer[q].hints \subseteq Known \cap {text[q].refs[i] : i \in LookUps(text[q])}
    /\ answer[q].hints # {} => answer[q].code = "db_error"

\* run_query returns, whatever the database does and whoever fills the pool.
QueryAnswered == \A q \in Query : pc[q] = "called" ~> pc[q] = "done"
=============================================================================
