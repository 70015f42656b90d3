---------------------------- MODULE SqlPoolProofs ----------------------------
(***************************************************************************)
(* SqlPool for any number of calls, workers, threads and tables: no call     *)
(* waits for a result that cannot come, and what it returns is true.         *)
(***************************************************************************)
EXTENDS SqlPool, TLAPS

(* What a returned answer says of the statement it answers.                  *)
Readable(q) == Known \cap {text[q].refs[i] : i \in LookUps(text[q])}

AnswerInv ==
  \A q \in Query :
    /\ pc[q] \in {"idle", "called", "query"} => hints[q] = {}
    /\ pc[q] = "lookup" => hints[q] \subseteq Readable(q)
    /\ Waiting(q) /\ future[q] = "columns" => pc[q] = "lookup" /\ text[q].refs[ref[q]] \in Known
    /\ pc[q] = "done" =>
         /\ answer[q].hints \subseteq Readable(q)
         /\ answer[q].hints # {} => answer[q].code = "db_error"
         /\ answer[q].code = "ok" /\ ~answer[q].truncated => answer[q].rows = text[q].size

(* Jobs belong to calls that were made, and the one a call waits for is its  *)
(* last.                                                                     *)
JobInv ==
  /\ \A j \in Elems(queue) \cup busy :
       pc[j[1]] \in {"query", "lookup", "done"} /\ j[2] <= ref[j[1]]
  /\ \A q \in Query : pc[q] = "query" => ref[q] = 0

Inv == TypeOK /\ NothingLost /\ JobInv /\ AnswerInv

(***************************************************************************)
(* Helpers                                                                  *)
(***************************************************************************)

LEMMA LookUpsAre ==
  ASSUME NEW t \in Text
  PROVE  LookUps(t) \subseteq DOMAIN t.refs /\ LookUps(t) \subseteq Nat \ {0}
BY PoolAssumption DEF LookUps, Firsts

LEMMA ResultIs ==
  ASSUME NEW t \in Text
  PROVE  /\ Result(t) \in Answer
         /\ Result(t).code = "ok" /\ Result(t).hints = {}
         /\ ~Result(t).truncated => Result(t).rows = t.size
<1> DEFINE n == Least(t.size, RowCap)
           cut == IF t.asIs THEN t.size > RowCap ELSE n >= RowCap
<1>1. t.size \in Nat /\ RowCap \in Nat
  BY PoolAssumption
<1>2. n \in 0..RowCap /\ n \in Nat /\ (n < RowCap \/ t.size <= RowCap => n = t.size)
  BY <1>1 DEF Least
<1>3. Result(t) = [code |-> "ok", rows |-> n, truncated |-> cut, hints |-> {}]
  BY DEF Result
<1>. HIDE DEF n
<1>4. (t.size > RowCap) \in BOOLEAN /\ (n >= RowCap) \in BOOLEAN
  BY <1>1, <1>2
<1>5. cut \in BOOLEAN
  BY <1>4, Zenon
<1>6. ~cut => n = t.size
  <2>1. CASE t.asIs
    BY <1>1, <1>2, <2>1
  <2>2. CASE ~t.asIs
    BY <1>1, <1>2, <2>2
  <2>. QED BY <2>1, <2>2
<1>. HIDE DEF cut
<1>. QED BY <1>2, <1>3, <1>5, <1>6 DEF Answer

LEMMA FailedIs ==
  ASSUME NEW code \in {"rejected", "timeout", "db_error"}, NEW hs \in SUBSET Table
  PROVE  /\ Failed(code, hs) \in Answer
         /\ Failed(code, hs).code = code /\ Failed(code, hs).hints = hs
BY PoolAssumption DEF Failed, Answer

LEMMA Appended ==
  ASSUME NEW S, NEW s \in Seq(S), NEW e \in S
  PROVE  /\ Append(s, e) \in Seq(S)
         /\ Elems(Append(s, e)) = Elems(s) \cup {e}
         /\ (\A i, k \in DOMAIN s : s[i] = s[k] => i = k) /\ e \notin Elems(s) =>
              \A i, k \in DOMAIN Append(s, e) : Append(s, e)[i] = Append(s, e)[k] => i = k
<1>1. /\ Append(s, e) \in Seq(S) /\ DOMAIN s = 1..Len(s) /\ Len(s) \in Nat
      /\ DOMAIN Append(s, e) = 1..(Len(s) + 1)
      /\ \A i \in 1..Len(s) : Append(s, e)[i] = s[i]
      /\ Append(s, e)[Len(s) + 1] = e
  OBVIOUS
<1>2. ASSUME NEW x \in Elems(Append(s, e))  PROVE x \in Elems(s) \cup {e}
  BY <1>1, <1>2 DEF Elems
<1>3. ASSUME NEW x \in Elems(s) \cup {e}  PROVE x \in Elems(Append(s, e))
  <2>1. CASE x = e
    BY <1>1, <2>1 DEF Elems
  <2>2. CASE x \in Elems(s)
    BY <1>1, <2>2 DEF Elems
  <2>. QED BY <1>3, <2>1, <2>2
<1>4. ASSUME \A i, k \in DOMAIN s : s[i] = s[k] => i = k, e \notin Elems(s),
             NEW i \in 1..(Len(s) + 1), NEW k \in 1..(Len(s) + 1),
             Append(s, e)[i] = Append(s, e)[k]
      PROVE  i = k
  <2>1. \A m \in 1..Len(s) : s[m] # e
    BY <1>1, <1>4 DEF Elems
  <2>. QED BY <1>1, <1>4, <2>1
<1>. QED BY <1>1, <1>2, <1>3, <1>4

LEMMA Shortened ==
  ASSUME NEW S, NEW s \in Seq(S), s # <<>>, \A i, k \in DOMAIN s : s[i] = s[k] => i = k
  PROVE  /\ Tail(s) \in Seq(S) /\ Head(s) \in S
         /\ Elems(Tail(s)) = Elems(s) \ {Head(s)} /\ Head(s) \in Elems(s)
         /\ \A i, k \in DOMAIN Tail(s) : Tail(s)[i] = Tail(s)[k] => i = k
<1>1. /\ Tail(s) \in Seq(S) /\ Head(s) = s[1] /\ Head(s) \in S
      /\ DOMAIN s = 1..Len(s) /\ Len(s) \in Nat /\ Len(s) > 0
      /\ DOMAIN Tail(s) = 1..(Len(s) - 1)
      /\ \A i \in 1..(Len(s) - 1) : Tail(s)[i] = s[i + 1]
  OBVIOUS
<1>2. ASSUME NEW x \in Elems(Tail(s))  PROVE x \in Elems(s) /\ x # Head(s)
  <2>1. PICK i \in 1..(Len(s) - 1) : x = s[i + 1]
    BY <1>1, <1>2 DEF Elems
  <2>2. i + 1 \in DOMAIN s /\ 1 \in DOMAIN s /\ i + 1 # 1
    BY <1>1
  <2>. QED BY <1>1, <2>1, <2>2 DEF Elems
<1>3. ASSUME NEW x \in Elems(s), x # Head(s)  PROVE x \in Elems(Tail(s))
  <2>1. PICK i \in 1..Len(s) : x = s[i]
    BY <1>1, <1>3 DEF Elems
  <2>2. i - 1 \in 1..(Len(s) - 1) /\ (i - 1) + 1 = i
    BY <1>1, <1>3, <2>1
  <2>3. Tail(s)[i - 1] = x
    BY <1>1, <2>1, <2>2
  <2>. QED BY <1>1, <2>2, <2>3 DEF Elems
<1>4. Head(s) \in Elems(s)
  BY <1>1 DEF Elems
<1>5. ASSUME NEW i \in 1..(Len(s) - 1), NEW k \in 1..(Len(s) - 1), Tail(s)[i] = Tail(s)[k]
      PROVE  i = k
  <2>1. i + 1 \in DOMAIN s /\ k + 1 \in DOMAIN s /\ s[i + 1] = s[k + 1]
    BY <1>1, <1>5
  <2>. QED BY <2>1
<1>. QED BY <1>1, <1>2, <1>3, <1>4, <1>5

(***************************************************************************)
(* Calls                                                                    *)
(***************************************************************************)

LEMMA InitInv == Init => Inv
<1>. SUFFICES ASSUME Init PROVE Inv
  OBVIOUS
<1>1. Elems(queue) = {} /\ busy = {} /\ queue = <<>>
  BY DEF Init, Elems
<1>2. TypeOK
  BY DEF Init, TypeOK
<1>3. NothingLost /\ JobInv
  BY <1>1 DEF Init, NothingLost, JobInv, Waiting
<1>4. AnswerInv
  BY DEF Init, AnswerInv, Waiting
<1>. QED BY <1>2, <1>3, <1>4 DEF Inv

LEMMA CallInv ==
  ASSUME Inv, NEW q \in Query, NEW t \in Text, Call(q, t)
  PROVE  Inv'
<1>1. /\ pc[q] = "idle" /\ pc' = [pc EXCEPT ![q] = "called"] /\ text' = [text EXCEPT ![q] = t]
      /\ UNCHANGED <<ref, future, hints, answer, queue, busy>>
      /\ pc \in [Query -> {"idle", "called", "query", "lookup", "done"}]
      /\ text \in [Query -> Text \cup {<<>>}]
  BY DEF Call, Inv, TypeOK
<1>2. \A p \in Query \ {q} : pc'[p] = pc[p] /\ text'[p] = text[p]
  BY <1>1
<1>3. pc'[q] = "called" /\ text'[q] = t
  BY <1>1
<1>4. TypeOK'
  BY <1>1, <1>2, <1>3 DEF Inv, TypeOK
<1>5. NothingLost'
  BY <1>1, <1>2, <1>3 DEF Inv, NothingLost, Waiting, Elems
<1>6. JobInv'
  <2>1. \A j \in Elems(queue) \cup busy : j[1] \in Query
    BY DEF Inv, TypeOK, Job, Elems
  <2>. QED BY <1>1, <1>2, <1>3, <2>1 DEF Inv, JobInv, Elems
<1>7. AnswerInv'
  BY <1>1, <1>2, <1>3 DEF Inv, AnswerInv, Waiting, Readable
<1>. QED BY <1>4, <1>5, <1>6, <1>7 DEF Inv

(* Whatever call q does, it leaves the others alone.                         *)
OthersAlone(q) ==
  /\ \A p \in Query \ {q} :
       /\ pc'[p] = pc[p] /\ ref'[p] = ref[p] /\ future'[p] = future[p]
       /\ hints'[p] = hints[p] /\ answer'[p] = answer[p]
  /\ UNCHANGED <<text, busy>>

(* A call that returns leaves its job to the pool.                           *)
LEMMA ReturnInv ==
  ASSUME Inv, NEW q \in Query, pc[q] # "idle", pc[q] = "called" \/ Waiting(q),
         NEW a \in Answer, NEW hs \in SUBSET Table,
         Return(q, a), hints' = [hints EXCEPT ![q] = hs],
         UNCHANGED <<text, ref, future, queue, busy>>,
         a.hints \subseteq Readable(q), a.hints # {} => a.code = "db_error",
         a.code = "ok" /\ ~a.truncated => a.rows = text[q].size
  PROVE  Inv'
<1>1. /\ pc'[q] = "done" /\ answer'[q] = a
      /\ \A p \in Query \ {q} : pc'[p] = pc[p] /\ answer'[p] = answer[p] /\ hints'[p] = hints[p]
      /\ pc' \in [Query -> {"idle", "called", "query", "lookup", "done"}]
      /\ answer' \in [Query -> Answer \cup {<<>>}]
      /\ hints' \in [Query -> SUBSET Table]
  BY DEF Return, Inv, TypeOK
<1>2. TypeOK'
  BY <1>1 DEF Inv, TypeOK
<1>3. NothingLost'
  BY <1>1 DEF Inv, NothingLost, Waiting, Elems
<1>4. JobInv'
  <2>1. \A j \in Elems(queue) \cup busy : j[1] \in Query
    BY DEF Inv, TypeOK, Job, Elems
  <2>. QED BY <1>1, <2>1 DEF Inv, JobInv, Elems
<1>5. AnswerInv'
  BY <1>1 DEF Inv, AnswerInv, Waiting, Readable
<1>. QED BY <1>2, <1>3, <1>4, <1>5 DEF Inv

(* A call that submits its next job waits for that and no other.             *)
LEMMA SubmitInv ==
  ASSUME Inv, NEW q \in Query, NEW i \in Nat, NEW s \in {"query", "lookup"},
         Submit(q, i), pc' = [pc EXCEPT ![q] = s],
         NEW hs \in SUBSET Table, hints' = [hints EXCEPT ![q] = hs],
         UNCHANGED <<text, answer, busy>>, text[q] \in Text,
         \/ pc[q] = "called" /\ s = "query" /\ i = 0 /\ hs = {}
         \/ /\ Waiting(q) /\ s = "lookup" /\ i \in LookUps(text[q]) /\ ref[q] < i
            /\ hs \subseteq Readable(q)
  PROVE  Inv'
<1>1. /\ pc'[q] = s /\ ref'[q] = i /\ future'[q] = "none" /\ hints'[q] = hs
      /\ queue' = Append(queue, <<q, i>>)
      /\ \A p \in Query \ {q} : /\ pc'[p] = pc[p] /\ ref'[p] = ref[p]
                                /\ future'[p] = future[p] /\ hints'[p] = hints[p]
  BY DEF Submit, Inv, TypeOK
<1>2. queue \in Seq(Job) /\ <<q, i>> \in Job
  BY DEF Inv, TypeOK, Job
<1>3. <<q, i>> \notin Elems(queue) \cup busy
  <2>. SUFFICES ASSUME <<q, i>> \in Elems(queue) \cup busy PROVE FALSE
    OBVIOUS
  <2>1. pc[q] \in {"query", "lookup", "done"} /\ i <= ref[q] /\ ref[q] \in Nat
    BY DEF Inv, JobInv, TypeOK
  <2>. QED BY <2>1
<1>4. /\ queue' \in Seq(Job) /\ Elems(queue') = Elems(queue) \cup {<<q, i>>}
      /\ \A m, k \in DOMAIN queue' : queue'[m] = queue'[k] => m = k
  BY <1>1, <1>2, <1>3, Appended DEF Inv, NothingLost
<1>5. TypeOK'
  <2>1. ref' \in [Query -> Nat] /\ future' \in [Query -> Outcome \cup {"none"}]
    BY DEF Submit, Inv, TypeOK
  <2>2. pc' \in [Query -> {"idle", "called", "query", "lookup", "done"}]
        /\ hints' \in [Query -> SUBSET Table]
    BY DEF Inv, TypeOK
  <2>. QED BY <1>1, <1>4, <2>1, <2>2 DEF Inv, TypeOK
<1>6. NothingLost'
  <2>1. Elems(queue') \cap busy' = {}
    BY <1>3, <1>4 DEF Inv, NothingLost
  <2>2. ASSUME NEW p \in Query, Waiting(p)'
        PROVE  future'[p] = "none" <=> <<p, ref'[p]>> \in Elems(queue') \cup busy'
    <3>1. CASE p = q
      BY <1>1, <1>4, <3>1
    <3>2. CASE p # q
      BY <1>1, <1>4, <2>2, <3>2 DEF Inv, NothingLost, Waiting
    <3>. QED BY <3>1, <3>2
  <2>. QED BY <1>4, <2>1, <2>2 DEF NothingLost
<1>7. JobInv'
  <2>1. ASSUME NEW j \in Elems(queue) \cup busy
        PROVE  pc'[j[1]] \in {"query", "lookup", "done"} /\ j[2] <= ref'[j[1]]
    <3>1. j[1] \in Query /\ j[2] \in Nat /\ ref[j[1]] \in Nat
      BY DEF Inv, TypeOK, Job, Elems
    <3>2. pc[j[1]] \in {"query", "lookup", "done"} /\ j[2] <= ref[j[1]]
      BY DEF Inv, JobInv
    <3>. QED BY <1>1, <3>1, <3>2
  <2>2. \A p \in Query : pc'[p] = "query" => ref'[p] = 0
    BY <1>1 DEF Inv, JobInv
  <2>3. pc'[<<q, i>>[1]] \in {"query", "lookup", "done"} /\ <<q, i>>[2] <= ref'[<<q, i>>[1]]
    BY <1>1
  <2>4. Elems(queue') \cup busy' = (Elems(queue) \cup busy) \cup {<<q, i>>}
    BY <1>4
  <2>5. \A j \in Elems(queue') \cup busy' :
          pc'[j[1]] \in {"query", "lookup", "done"} /\ j[2] <= ref'[j[1]]
    BY <2>1, <2>3, <2>4
  <2>. QED BY <2>2, <2>5 DEF JobInv
<1>8. AnswerInv'
  BY <1>1 DEF Inv, AnswerInv, Waiting, Readable
<1>. QED BY <1>5, <1>6, <1>7, <1>8 DEF Inv

LEMMA EnterInv ==
  ASSUME Inv, NEW q \in Query, Enter(q)
  PROVE  Inv'
<1>1. /\ pc[q] = "called" /\ text[q] \in Text /\ hints[q] = {}
      /\ hints' = [hints EXCEPT ![q] = {}]
  BY DEF Enter, Inv, TypeOK, AnswerInv
<1>2. CASE Return(q, Failed("rejected", {})) /\ UNCHANGED <<text, ref, future, queue, busy>>
  BY <1>1, <1>2, ReturnInv, FailedIs
<1>3. CASE Submit(q, 0) /\ pc' = [pc EXCEPT ![q] = "query"] /\ UNCHANGED <<text, answer, busy>>
  BY <1>1, <1>3, SubmitInv
<1>. QED BY <1>2, <1>3 DEF Enter

LEMMA GoOnInv ==
  ASSUME Inv, NEW q \in Query, Waiting(q), NEW left, NEW found,
         left \subseteq LookUps(text[q]), \A i \in left : ref[q] < i,
         found \subseteq Readable(q), hints' = [hints EXCEPT ![q] = found],
         GoOn(q, left, found), UNCHANGED <<text, busy>>
  PROVE  Inv'
<1>1. text[q] \in Text /\ found \in SUBSET Table
  BY PoolAssumption DEF Inv, TypeOK, Waiting, Readable
<1>2. CASE left = {} /\ Return(q, Failed("db_error", found)) /\ UNCHANGED <<ref, future, queue>>
  BY <1>1, <1>2, ReturnInv, FailedIs DEF Waiting
<1>3. ASSUME NEW i \in left, Submit(q, i), pc' = [pc EXCEPT ![q] = "lookup"], UNCHANGED answer
      PROVE  Inv'
  <2>1. i \in Nat /\ i \in LookUps(text[q]) /\ ref[q] < i
    BY <1>1, LookUpsAre
  <2>. QED BY <1>1, <1>3, <2>1, SubmitInv
<1>. QED BY <1>2, <1>3 DEF GoOn

LEMMA CollectInv ==
  ASSUME Inv, NEW q \in Query, Collect(q)
  PROVE  Inv'
<1>1. /\ pc[q] = "query" /\ Waiting(q) /\ text[q] \in Text /\ hints[q] = {} /\ ref[q] = 0
      /\ hints' = [hints EXCEPT ![q] = {}] /\ UNCHANGED <<text, busy>>
  BY DEF Collect, Inv, TypeOK, AnswerInv, JobInv, Waiting
<1>2. CASE Return(q, Result(text[q])) /\ UNCHANGED <<ref, future, queue>>
  BY <1>1, <1>2, ReturnInv, ResultIs
<1>3. CASE Return(q, Failed("db_error", {})) /\ UNCHANGED <<ref, future, queue>>
  BY <1>1, <1>3, ReturnInv, FailedIs
<1>4. CASE GoOn(q, LookUps(text[q]), {})
  <2>1. \A i \in LookUps(text[q]) : ref[q] < i
    BY <1>1, LookUpsAre
  <2>. QED BY <1>1, <1>4, <2>1, GoOnInv
<1>. QED BY <1>2, <1>3, <1>4 DEF Collect

LEMMA TimeOutInv ==
  ASSUME Inv, NEW q \in Query, TimeOut(q)
  PROVE  Inv'
<1>1. /\ pc[q] = "query" /\ Waiting(q) /\ hints' = [hints EXCEPT ![q] = hints[q]]
      /\ hints[q] \in SUBSET Table
      /\ Return(q, Failed("timeout", {})) /\ UNCHANGED <<text, ref, future, queue, busy>>
  BY DEF TimeOut, Inv, TypeOK, Waiting
<1>2. LET a == Failed("timeout", {})
      IN a \in Answer /\ a.code = "timeout" /\ a.hints = {}
  BY FailedIs
<1>. QED BY <1>1, <1>2, ReturnInv

LEMMA LookedUpInv ==
  ASSUME Inv, NEW q \in Query, LookedUp(q)
  PROVE  Inv'
<1> DEFINE found == IF future[q] = "columns" THEN hints[q] \cup {text[q].refs[ref[q]]} ELSE hints[q]
           left == {i \in LookUps(text[q]) : i > ref[q]}
<1>1. /\ pc[q] = "lookup" /\ Waiting(q) /\ text[q] \in Text
      /\ hints' = [hints EXCEPT ![q] = found] /\ GoOn(q, left, found)
      /\ UNCHANGED <<text, busy>>
  BY DEF LookedUp, LookUpEnds, Inv, TypeOK, Waiting
<1>2. ref[q] \in LookUps(text[q]) /\ ref[q] \in Nat /\ hints[q] \subseteq Readable(q)
  BY <1>1 DEF Inv, TypeOK, AnswerInv
<1>3. found \subseteq Readable(q)
  BY <1>1, <1>2 DEF Inv, AnswerInv, Readable
<1>4. \A i \in left : ref[q] < i
  BY <1>1, <1>2, LookUpsAre
<1>. HIDE DEF found
<1>. QED BY <1>1, <1>3, <1>4, GoOnInv

(***************************************************************************)
(* The pool                                                                 *)
(***************************************************************************)

LEMMA TakeInv ==
  ASSUME Inv, Take
  PROVE  Inv'
<1>1. /\ queue \in Seq(Job) /\ queue # <<>> /\ queue' = Tail(queue)
      /\ busy' = busy \cup {Head(queue)} /\ UNCHANGED calls
      /\ \A i, k \in DOMAIN queue : queue[i] = queue[k] => i = k
      /\ busy \subseteq Job
  BY DEF Take, Inv, TypeOK, NothingLost
<1>2. /\ queue' \in Seq(Job) /\ Head(queue) \in Job
      /\ Elems(queue') = Elems(queue) \ {Head(queue)} /\ Head(queue) \in Elems(queue)
      /\ \A i, k \in DOMAIN queue' : queue'[i] = queue'[k] => i = k
  BY <1>1, Shortened
<1>3. /\ Elems(queue') \cup busy' = Elems(queue) \cup busy
      /\ Elems(queue') \cap busy' = {}
  BY <1>1, <1>2 DEF Inv, NothingLost
<1>4. UNCHANGED <<text, pc, ref, future, hints, answer>>
  BY <1>1 DEF calls
<1>5. TypeOK'
  BY <1>1, <1>2, <1>4 DEF Inv, TypeOK
<1>6. NothingLost'
  BY <1>2, <1>3, <1>4 DEF Inv, NothingLost, Waiting
<1>7. JobInv'
  BY <1>3, <1>4 DEF Inv, JobInv
<1>8. AnswerInv'
  BY <1>4 DEF Inv, AnswerInv, Waiting, Readable
<1>. QED BY <1>5, <1>6, <1>7, <1>8 DEF Inv

LEMMA FinishInv ==
  ASSUME Inv, NEW j \in busy, Finish(j)
  PROVE  Inv'
<1>1. PICK o \in Outcomes(j) : future' = Deliver(j, o)
  BY DEF Finish
<1>2. /\ busy' = busy \ {j} /\ UNCHANGED <<text, pc, ref, hints, answer, queue>>
      /\ j[1] \in Query /\ j[2] \in Nat /\ j = <<j[1], j[2]>>
      /\ future \in [Query -> Outcome \cup {"none"}]
  BY DEF Finish, Inv, TypeOK, Job
<1>3. o \in Outcome /\ o # "none"
  BY <1>1 DEF Outcomes, Outcome
<1>4. j \notin Elems(queue)
  BY DEF Inv, NothingLost
<1>5. /\ \A q \in Query \ {j[1]} : future'[q] = future[q]
      /\ future'[j[1]] = IF Awaited(j) THEN o ELSE future[j[1]]
  BY <1>1, <1>2 DEF Deliver
<1>6. TypeOK'
  <2>1. future' \in [Query -> Outcome \cup {"none"}]
    BY <1>1, <1>2, <1>3 DEF Deliver
  <2>. QED BY <1>2, <2>1 DEF Inv, TypeOK
<1>7. NothingLost'
  <2>1. ASSUME NEW q \in Query, Waiting(q)
        PROVE  future'[q] = "none" <=> <<q, ref[q]>> \in Elems(queue) \cup (busy \ {j})
    <3>1. future[q] = "none" <=> <<q, ref[q]>> \in Elems(queue) \cup busy
      BY <2>1 DEF Inv, NothingLost
    <3>2. CASE j = <<q, ref[q]>>
      BY <1>3, <1>4, <1>5, <2>1, <3>2 DEF Awaited
    <3>3. CASE j # <<q, ref[q]>>
      <4>1. future'[q] = future[q]
        BY <1>2, <1>5, <3>3 DEF Awaited
      <4>. QED BY <3>1, <3>3, <4>1
    <3>. QED BY <3>2, <3>3
  <2>2. /\ \A i, k \in DOMAIN queue : queue[i] = queue[k] => i = k
        /\ Elems(queue) \cap (busy \ {j}) = {}
    BY DEF Inv, NothingLost
  <2>3. Elems(queue)' = Elems(queue) /\ \A q \in Query : Waiting(q)' <=> Waiting(q)
    BY <1>2 DEF Waiting
  <2>. QED BY <1>2, <2>1, <2>2, <2>3 DEF NothingLost
<1>8. JobInv'
  BY <1>2 DEF Inv, JobInv, Elems
<1>9. AnswerInv'
  <2>1. ASSUME NEW q \in Query, Waiting(q), future'[q] = "columns"
        PROVE  pc[q] = "lookup" /\ text[q].refs[ref[q]] \in Known
    <3>1. CASE j[1] = q /\ Awaited(j)
      <4>1. "columns" \in Outcomes(j) /\ ref[q] = j[2]
        BY <1>1, <1>5, <2>1, <3>1 DEF Awaited
      <4>2. j[2] # 0 /\ text[q].refs[ref[q]] \in Known
        BY <3>1, <4>1 DEF Outcomes
      <4>3. pc[q] # "query"
        BY <4>1, <4>2 DEF Inv, JobInv
      <4>. QED BY <2>1, <4>2, <4>3 DEF Waiting
    <3>2. CASE ~(j[1] = q /\ Awaited(j))
      <4>1. future[q] = "columns"
        BY <1>2, <1>5, <2>1, <3>2
      <4>. QED BY <2>1, <4>1 DEF Inv, AnswerInv
    <3>. QED BY <3>1, <3>2
  <2>. QED BY <1>2, <2>1 DEF Inv, AnswerInv, Waiting, Readable
<1>. QED BY <1>6, <1>7, <1>8, <1>9 DEF Inv

LEMMA Stutter == Inv /\ UNCHANGED vars => Inv'
<1>. SUFFICES ASSUME Inv, UNCHANGED vars PROVE Inv'
  OBVIOUS
<1>1. UNCHANGED <<text, pc, ref, future, hints, answer, queue, busy>>
  BY DEF vars, calls
<1>2. TypeOK'
  BY <1>1 DEF Inv, TypeOK
<1>3. NothingLost' /\ JobInv'
  BY <1>1 DEF Inv, NothingLost, JobInv, Waiting, Elems
<1>4. AnswerInv'
  BY <1>1 DEF Inv, AnswerInv, Waiting, Readable
<1>. QED BY <1>2, <1>3, <1>4 DEF Inv

(***************************************************************************)
(* The theorems                                                             *)
(***************************************************************************)

(* The invariant behind them.                                                *)
THEOREM Invariant == Spec => []Inv
<1>1. Inv /\ [Next]_vars => Inv'
  BY CallInv, EnterInv, CollectInv, TimeOutInv, LookedUpInv, TakeInv, FinishInv, Stutter
     DEF Next
<1>. QED BY <1>1, InitInv, PTL DEF Spec

(* Every variable keeps its type; a result has at most ROW_CAP rows.         *)
THEOREM TypeCorrect == Spec => []TypeOK
<1>1. Inv => TypeOK
  BY DEF Inv
<1>. QED BY <1>1, Invariant, PTL

(* The future a thread waits for is set exactly when its job has left the    *)
(* pool, however many jobs others have left behind there                     *)
(* (_execute_with_timeout, _lookup_columns).                                 *)
THEOREM NoLostResult == Spec => []NothingLost
<1>1. Inv => NothingLost
  BY DEF Inv
<1>. QED BY <1>1, Invariant, PTL

(* A result that is not marked truncated is complete (run_query).            *)
THEOREM TruncationHonest == Spec => []TruncationTold
<1>1. Inv => TruncationTold
  BY DEF Inv, AnswerInv, TruncationTold
<1>. QED BY <1>1, Invariant, PTL

(* Columns are offered of no other tables than the statement's, and only     *)
(* with an error of the database (_enrich_db_error).                         *)
THEOREM HintsHonest == Spec => []HintsTrue
<1>1. Inv => HintsTrue
  BY DEF Inv, AnswerInv, HintsTrue, Readable
<1>. QED BY <1>1, Invariant, PTL
=============================================================================
