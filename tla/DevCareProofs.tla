---------------------------- MODULE DevCareProofs ----------------------------
(***************************************************************************)
(* DevCareChanges for any conversations, changes, codes, tables and faults. *)
(***************************************************************************)
EXTENDS DevCareChanges, TLAPS, WellFoundedInduction

(* A set of naturals with an upper bound has a greatest element, if any.    *)
LEMMA BoundedMax ==
  ASSUME NEW S, S \subseteq Nat, S # {}, NEW n \in Nat, \A k \in S : k <= n
  PROVE  Max(S) \in S /\ \A k \in S : k <= Max(S)
<1> DEFINE T == {m \in Nat : \A k \in S : k <= m}
<1>1. IsWellFoundedOn(OpToRel(<, Nat), Nat)
  BY NatLessThanWellFounded
<1>2. PICK x \in T : \A y \in T : ~ (<<y, x>> \in OpToRel(<, Nat))
  <2>1. T \subseteq Nat /\ T # {}
    OBVIOUS
  <2>. HIDE DEF T
  <2>. QED BY <1>1, <2>1, WFMin
<1>3. \A y \in T : ~ (y < x)
  BY <1>2 DEF OpToRel
<1>4. x \in S
  <2>1. SUFFICES ASSUME x \notin S PROVE FALSE
    OBVIOUS
  <2>0. PICK k \in S : TRUE
    OBVIOUS
  <2>2. x - 1 \in Nat
    BY <2>0, <2>1
  <2>3. x - 1 \in T
    BY <2>1, <2>2
  <2>. QED BY <2>3, <2>2, <1>3
<1>5. \E y \in S : \A k \in S : y >= k
  BY <1>4
<1>. QED BY <1>5 DEF Max

(* ------------------------------- types -------------------------------- *)

(* A change as it was validated: what it points at is there, and will be,
   since no key ever goes. *)
Sound(ch) ==
  /\ ch.entity \in Entity /\ ch.op \in Operation
  /\ ch.target \in Nat \cup {Absent}
  /\ ch.op # "create" => ch.target \in Pks(rows[ch.entity])
  /\ ch.entity = "specialty" => ch.col \in Code \cup {Blank}
  /\ ch.entity = "doctor" => ch.col \in Pks(rows["specialty"]) \cup {Blank}

RowType(e) == IF e = "specialty" THEN Row(Code) ELSE Row(Nat)

WorkType ==
  [at : {"execute", "ok", "error"}, id : Change, conv : Conversation, change : ChangeType,
   before : Row(Code) \cup Row(Nat) \cup {Absent}, pk : Nat \cup {Absent}]

EntryType ==
  [id : Change, status : {"ok", "error"}, entity : Entity, op : Operation, pk : Nat \cup {Absent},
   before : Row(Code) \cup Row(Nat) \cup {Absent}, after : Code \cup Nat \cup {Blank}]

KeysBounded == \E n \in Nat : \A e \in Entity : \A r \in rows[e] : r.pk <= n

TInv ==
  /\ TypeOK /\ KeysBounded
  /\ rows = [e \in Entity |-> rows[e]]
  /\ log \in Seq(EntryType)
  /\ work = Idle \/ (work \in WorkType /\ Sound(work.change))
  /\ \A c \in Change : pending[c] # Absent => Sound(pending[c].change)
  /\ \A e \in Entity : Pks(Rows0[e]) \subseteq Pks(rows[e])
  /\ ReferencesExist

LEMMA NextKeyAbove ==
  ASSUME KeysBounded, NEW e \in Entity, \A r \in rows[e] : r.pk \in Nat
  PROVE  /\ NextKey(e) \in Nat \ {0}
         /\ \A r \in rows[e] : r.pk < NextKey(e)
         /\ NextKey(e) \notin Pks(rows[e])
<1> DEFINE S == {0} \cup Pks(rows[e])
<1>1. PICK n \in Nat : \A r \in rows[e] : r.pk <= n
  BY DEF KeysBounded
<1>2. S \subseteq Nat /\ S # {} /\ \A k \in S : k <= n
  BY <1>1 DEF Pks
<1>3. Max(S) \in S /\ \A k \in S : k <= Max(S)
  <2>. HIDE DEF S
  <2>. QED BY <1>2, BoundedMax
<1>4. NextKey(e) = Max(S) + 1
  BY DEF NextKey
<1>5. \A r \in rows[e] : r.pk \in S
  BY DEF Pks
<1>. HIDE DEF S
<1>6. Max(S) \in Nat
  BY <1>2, <1>3
<1>7. \A r \in rows[e] : r.pk < NextKey(e) /\ r.pk # NextKey(e)
  BY <1>3, <1>4, <1>5, <1>6
<1>. QED BY <1>4, <1>6, <1>7 DEF Pks

(* What a change does to a table: no key goes, a created one comes. *)
LEMMA AppliedRows ==
  ASSUME NEW V, NEW t, t \subseteq Row(V), NEW ch, ch.op \in Operation,
         ch.col \in V \cup {Blank}, NEW pk \in Nat \ {0},
         \A r, s \in t : r.pk = s.pk => r = s,
         ch.op = "create" => pk \notin Pks(t)
  PROVE  LET u == Applied(t, ch, pk) IN
         /\ u \subseteq Row(V)
         /\ \A r, s \in u : r.pk = s.pk => r = s
         /\ Pks(u) = IF ch.op = "create" THEN Pks(t) \cup {pk} ELSE Pks(t)
         /\ \A r \in u : r.col = ch.col \/ \E s \in t : r.col = s.col
<1> DEFINE u == Applied(t, ch, pk)
<1>1. CASE ch.op = "create"
  <2> DEFINE row == [pk |-> pk, col |-> ch.col, hist |-> FALSE]
  <2>1. u = t \cup {row}
    BY <1>1 DEF Applied
  <2>2. row \in Row(V) /\ row.pk = pk /\ row.col = ch.col
    BY DEF Row
  <2>. HIDE DEF row, u
  <2>. QED BY <1>1, <2>1, <2>2 DEF Pks, u
<1>2. CASE ch.op \in {"update", "delete"}
  <2>1. PICK F : /\ u = {F[r] : r \in t}
                 /\ \A r \in t : /\ F[r] \in Row(V) /\ F[r].pk = r.pk
                                 /\ F[r].col \in {r.col, ch.col}
    <3>1. CASE ch.op = "update"
      <4> DEFINE G == [r \in t |-> IF r.pk = pk /\ ch.col # Blank
                                  THEN [r EXCEPT !.col = ch.col] ELSE r]
      <4>1. u = {G[r] : r \in t}
        BY <3>1 DEF Applied, Updated
      <4>2. \A r \in t : G[r] \in Row(V) /\ G[r].pk = r.pk /\ G[r].col \in {r.col, ch.col}
        BY DEF Row
      <4>. HIDE DEF G, u
      <4>. QED BY <4>1, <4>2
    <3>2. CASE ch.op = "delete"
      <4> DEFINE G == [r \in t |-> IF r.pk = pk THEN [r EXCEPT !.hist = TRUE] ELSE r]
      <4>1. u = {G[r] : r \in t}
        BY <3>2 DEF Applied, SoftDelete
      <4>2. \A r \in t : G[r] \in Row(V) /\ G[r].pk = r.pk /\ G[r].col \in {r.col, ch.col}
        BY DEF Row
      <4>. HIDE DEF G, u
      <4>. QED BY <4>1, <4>2
    <3>. QED BY <1>2, <3>1, <3>2
  <2>. HIDE DEF u
  <2>2. u \subseteq Row(V) /\ Pks(u) = Pks(t)
    BY <2>1 DEF Pks
  <2>3. ASSUME NEW r \in u, NEW s \in u, r.pk = s.pk PROVE r = s
    <3>1. PICK a \in t, b \in t : r = F[a] /\ s = F[b]
      BY <2>1
    <3>2. a = b
      BY <2>1, <2>3, <3>1
    <3>. QED BY <3>1, <3>2
  <2>4. \A r \in u : r.col = ch.col \/ \E s \in t : r.col = s.col
    BY <2>1
  <2>. QED BY <1>2, <2>2, <2>3, <2>4 DEF u
<1>. QED BY <1>1, <1>2 DEF Operation

LEMMA InitTInv == Init => TInv
<1> SUFFICES ASSUME Init PROVE TInv
  OBVIOUS
<1>1. /\ rows["specialty"] = Specialties0 /\ rows["doctor"] = Doctors0
      /\ rows = [e \in Entity |-> rows[e]] /\ rows = Rows0
  BY DEF Init, Rows0, Entity
<1>2. TypeOK
  BY <1>1, DevCareConstants DEF Init, TypeOK, Entity, NoCard
<1>3. KeysBounded
  <2>1. \A e \in Entity : \A r \in rows[e] : r.pk \in 1..LastChave
    BY <1>1, DevCareConstants DEF Entity, Pks
  <2>2. \A e \in Entity : \A r \in rows[e] : r.pk <= LastChave
    BY <2>1, DevCareConstants
  <2>. QED BY <2>2, DevCareConstants DEF KeysBounded
<1>4. ReferencesExist
  BY <1>1, DevCareConstants DEF ReferencesExist
<1>5. log \in Seq(EntryType)
  BY DEF Init
<1>. QED BY <1>1, <1>2, <1>3, <1>4, <1>5 DEF TInv, Init

(* A step that writes no table. *)
LEMMA SameRows ==
  ASSUME TInv, UNCHANGED rows,
         TypeOK', log' \in Seq(EntryType),
         work' = Idle \/ (work' \in WorkType /\ (Sound(work'.change) \/ (work # Idle /\ work'.change = work.change))),
         \A c \in Change : pending'[c] \in {pending[c], Absent} \/ Sound(pending'[c].change)
  PROVE  TInv'
<1>1. \A ch : Sound(ch)' <=> Sound(ch)
  BY DEF Sound
<1>2. KeysBounded' /\ ReferencesExist' /\ \A e \in Entity : Pks(Rows0[e]) \subseteq Pks(rows'[e])
  BY DEF TInv, KeysBounded, ReferencesExist
<1>3. work' = Idle \/ (work' \in WorkType /\ Sound(work.change)')
  <2>1. CASE work' = Idle
    BY <2>1
  <2>2. CASE work' \in WorkType /\ Sound(work'.change)
    BY <2>2 DEF Sound
  <2>3. CASE work' \in WorkType /\ work # Idle /\ work'.change = work.change
    BY <2>3 DEF TInv, Sound
  <2>. QED BY <2>1, <2>2, <2>3
<1>4. ASSUME NEW c \in Change, pending'[c] # Absent PROVE Sound(pending[c].change)'
  <2>1. CASE pending'[c] = pending[c]
    BY <1>4, <2>1 DEF TInv, Sound
  <2>2. CASE Sound(pending'[c].change)
    BY <2>2 DEF Sound
  <2>. QED BY <1>4, <2>1, <2>2
<1>5. rows' = [e \in Entity |-> rows'[e]]
  BY DEF TInv
<1>. QED BY <1>2, <1>3, <1>4, <1>5 DEF TInv

LEMMA AskedSound ==
  ASSUME TInv, NEW ch \in Asked
  PROVE  Sound(ch) /\ ch \in ChangeType
<1>1. /\ \A e \in Entity : Pks(rows[e]) \subseteq Nat
  BY DEF TInv, TypeOK, Row, Entity, Pks
<1>2. /\ ch.entity \in Entity /\ ch.op \in Operation
      /\ ch.op = "create" => ch.target \in StrayTargets \cup {Absent}
      /\ ch.op # "create" => ch.target \in Pks(rows[ch.entity])
      /\ ch.entity = "specialty" => ch.col \in Code \cup {Blank}
      /\ ch.entity = "doctor" => ch.col \in Pks(rows["specialty"]) \cup {Blank}
      /\ ch = [entity |-> ch.entity, op |-> ch.op, col |-> ch.col, target |-> ch.target]
  BY DEF Asked, Entity, Operation
<1>3. ch.col \in Code \cup Nat \cup {Blank} /\ ch.target \in Nat \cup {Absent}
  BY <1>1, <1>2, DevCareConstants DEF Entity, Operation
<1>. QED BY <1>2, <1>3 DEF Sound, ChangeType

LEMMA StageTInv ==
  ASSUME TInv, NEW v \in Conversation, NEW c \in Change, Stage(v, c)
  PROVE  TInv'
<1>1. PICK ch \in Asked : pending' = [pending EXCEPT ![c] = [conv |-> v, change |-> ch]]
  BY DEF Stage
<1>2. Sound(ch) /\ ch \in ChangeType
  BY AskedSound
<1>3. /\ UNCHANGED <<rows, work, log, confirms, writes, crashes>>
      /\ card' = [card EXCEPT ![c] = [at |-> "open", conv |-> v]]
  BY DEF Stage
<1>4. /\ pending' \in [Change -> [conv : Conversation, change : ChangeType] \cup {Absent}]
      /\ card' \in [Change -> {NoCard} \cup [at : {"open", "cancelled"}, conv : Conversation]]
  BY <1>1, <1>2, <1>3 DEF TInv, TypeOK
<1>5. TypeOK'
  BY <1>3, <1>4 DEF TInv, TypeOK
<1>6. \A d \in Change : pending'[d] \in {pending[d], Absent} \/ Sound(pending'[d].change)
  BY <1>1, <1>2 DEF TInv, TypeOK
<1>. QED BY <1>3, <1>5, <1>6, SameRows DEF TInv

LEMMA CancelTInv ==
  ASSUME TInv, NEW c \in Change, Cancel(c)
  PROVE  TInv'
<1>1. /\ UNCHANGED <<rows, pending, work, log, confirms, writes, crashes>>
      /\ card[c].at = "open" /\ card' = [card EXCEPT ![c].at = "cancelled"]
  BY DEF Cancel
<1>2. card[c] \in [at : {"open", "cancelled"}, conv : Conversation]
  BY <1>1 DEF TInv, TypeOK, NoCard
<1>3. card' \in [Change -> {NoCard} \cup [at : {"open", "cancelled"}, conv : Conversation]]
  BY <1>1, <1>2 DEF TInv, TypeOK
<1>4. TypeOK'
  BY <1>1, <1>3 DEF TInv, TypeOK
<1>. QED BY <1>1, <1>4, SameRows DEF TInv

LEMMA RowAtType ==
  ASSUME TInv, NEW e \in Entity, NEW pk
  PROVE  RowAt(e, pk) \in Row(Code) \cup Row(Nat) \cup {Absent}
<1>1. rows[e] \subseteq Row(Code) \cup Row(Nat)
  BY DEF TInv, TypeOK, Entity
<1> DEFINE found == {r \in rows[e] : r.pk = pk}
<1>2. CASE found = {}
  BY <1>2 DEF RowAt
<1>3. CASE found # {}
  <2>1. (CHOOSE r \in found : TRUE) \in found
    BY <1>3
  <2>2. RowAt(e, pk) = CHOOSE r \in found : TRUE
    BY <1>3 DEF RowAt
  <2>. QED BY <1>1, <2>1, <2>2
<1>. QED BY <1>2, <1>3

LEMMA ConfirmTInv ==
  ASSUME TInv, NEW v \in Conversation, NEW c \in Change, Confirm(v, c)
  PROVE  TInv'
<1> DEFINE ch == pending[c].change
<1>1. /\ pending[c] # Absent /\ pending' = [pending EXCEPT ![c] = Absent]
      /\ confirms' = confirms \cup {<<v, c>>}
      /\ UNCHANGED <<rows, card, log, writes, crashes>>
  BY DEF Confirm, Take
<1>2. ch \in ChangeType /\ Sound(ch)
  BY <1>1 DEF TInv, TypeOK
<1>3. ch.entity \in Entity /\ ch.target \in Nat \cup {Absent}
  BY <1>2 DEF ChangeType
<1>4. \/ work' = [at |-> "execute", id |-> c, conv |-> v, change |-> ch,
                  before |-> Before(ch), pk |-> ch.target]
      \/ work' = [at |-> "error", id |-> c, conv |-> v, change |-> ch,
                  before |-> Absent, pk |-> ch.target]
  BY DEF Confirm
<1>. HIDE DEF ch
<1>5. Before(ch) \in Row(Code) \cup Row(Nat) \cup {Absent}
  BY <1>3, RowAtType DEF Before
<1>6. work' \in WorkType /\ work'.change = ch
  BY <1>2, <1>3, <1>4, <1>5 DEF WorkType
<1>7. work'.at \in {"execute", "ok", "error"}
  BY <1>6 DEF WorkType
<1>8. TypeOK'
  <2>1. pending' \in [Change -> [conv : Conversation, change : ChangeType] \cup {Absent}]
    BY <1>1 DEF TInv, TypeOK
  <2>2. confirms' \subseteq Conversation \X Change
    BY <1>1 DEF TInv, TypeOK
  <2>3. work'.change \in ChangeType
    BY <1>2, <1>6
  <2>. QED BY <1>1, <1>7, <2>1, <2>2, <2>3 DEF TInv, TypeOK
<1>9. \A d \in Change : pending'[d] \in {pending[d], Absent}
  BY <1>1 DEF TInv, TypeOK
<1>. QED BY <1>1, <1>2, <1>6, <1>8, <1>9, SameRows DEF TInv

(* What a transaction leaves, if it commits. *)
LEMMA Executed ==
  ASSUME TInv, Execute, rows' # rows \/ writes' # writes
  PROVE  LET ch == work.change
             pk == IF ch.op = "create" THEN NextKey(ch.entity) ELSE ch.target
         IN  /\ work.at = "execute" /\ work \in WorkType /\ Sound(ch) /\ ch \in ChangeType
             /\ pk \in Nat \ {0} /\ (ch.op = "create" => pk \notin Pks(rows[ch.entity]))
             /\ rows' = [rows EXCEPT ![ch.entity] = Applied(@, ch, pk)]
             /\ writes' = [writes EXCEPT ![work.id] = @ + 1]
             /\ \/ work' = [work EXCEPT !.at = "ok", !.pk = pk]
                \/ work' = [work EXCEPT !.at = "error"]
             /\ \A e \in Entity \ {ch.entity} : rows'[e] = rows[e]
             /\ rows'[ch.entity] = Applied(rows[ch.entity], ch, pk)
             /\ rows'[ch.entity] \subseteq RowType(ch.entity)
             /\ \A r, s \in rows'[ch.entity] : r.pk = s.pk => r = s
             /\ Pks(rows'[ch.entity]) = IF ch.op = "create" THEN Pks(rows[ch.entity]) \cup {pk}
                                         ELSE Pks(rows[ch.entity])
             /\ \A r \in rows'[ch.entity] : r.col = ch.col \/ \E s \in rows[ch.entity] : r.col = s.col
             /\ rows' = [e \in Entity |-> rows'[e]]
<1> DEFINE ch == work.change
           e0 == ch.entity
           pk == IF ch.op = "create" THEN NextKey(ch.entity) ELSE ch.target
<1>1. /\ work.at = "execute"
      /\ rows' = [rows EXCEPT ![e0] = Applied(@, ch, pk)]
      /\ writes' = [writes EXCEPT ![work.id] = @ + 1]
      /\ \/ work' = [work EXCEPT !.at = "ok", !.pk = pk]
         \/ work' = [work EXCEPT !.at = "error"]
  BY DEF Execute
<1>2. work \in WorkType /\ Sound(ch) /\ ch \in ChangeType
  BY <1>1 DEF TInv, Idle, WorkType
<1>3. e0 \in Entity /\ ch.op \in Operation
  BY <1>2 DEF Sound
<1>4. rows[e0] \subseteq RowType(e0) /\ \A r \in rows[e0] : r.pk \in Nat \ {0}
  BY <1>3 DEF TInv, TypeOK, RowType, Entity, Row
<1>5. pk \in Nat \ {0} /\ (ch.op = "create" => pk \notin Pks(rows[e0]))
  BY <1>2, <1>3, <1>4, NextKeyAbove DEF TInv, Sound, Pks
<1>6. \A r, s \in rows[e0] : r.pk = s.pk => r = s
  BY <1>3 DEF TInv, TypeOK
<1>7. /\ rows' = [e \in Entity |-> rows'[e]] /\ rows'[e0] = Applied(rows[e0], ch, pk)
      /\ \A e \in Entity \ {e0} : rows'[e] = rows[e]
  BY <1>1, <1>3 DEF TInv
<1>8. \E V : RowType(e0) = Row(V) /\ ch.col \in V \cup {Blank}
  <2>1. CASE e0 = "specialty"
    BY <1>2, <2>1 DEF Sound, RowType
  <2>2. CASE e0 = "doctor"
    <3>1. ch.col \in Nat \cup {Blank}
      BY <1>2, <2>2 DEF Sound, Pks, TInv, TypeOK, Row
    <3>. QED BY <2>2, <3>1 DEF RowType
  <2>. QED BY <1>3, <2>1, <2>2 DEF Entity
<1>10. PICK V : RowType(e0) = Row(V) /\ ch.col \in V \cup {Blank}
  BY <1>8
<1>. HIDE DEF ch, e0, pk
<1>9. LET u == Applied(rows[e0], ch, pk) IN
      /\ u \subseteq RowType(e0)
      /\ \A r, s \in u : r.pk = s.pk => r = s
      /\ Pks(u) = IF ch.op = "create" THEN Pks(rows[e0]) \cup {pk} ELSE Pks(rows[e0])
      /\ \A r \in u : r.col = ch.col \/ \E s \in rows[e0] : r.col = s.col
  <2>1. rows[e0] \subseteq Row(V)
    BY <1>4, <1>10
  <2>2. PICK c : c = ch
    OBVIOUS
  <2>3. PICK old : old = rows[e0]
    OBVIOUS
  <2>4. PICK p : p = pk
    OBVIOUS
  <2>5. old \subseteq Row(V) /\ \A r, s \in old : r.pk = s.pk => r = s
    BY <1>6, <2>1, <2>3
  <2>6. c.op \in Operation /\ c.col \in V \cup {Blank}
    BY <1>3, <1>10, <2>2
  <2>7. p \in Nat \ {0} /\ (c.op = "create" => p \notin Pks(old))
    BY <1>5, <2>2, <2>3, <2>4
  <2>8. /\ Applied(old, c, p) \subseteq Row(V)
        /\ \A r, s \in Applied(old, c, p) : r.pk = s.pk => r = s
        /\ Pks(Applied(old, c, p)) = IF c.op = "create" THEN Pks(old) \cup {p} ELSE Pks(old)
        /\ \A r \in Applied(old, c, p) : r.col = c.col \/ \E s \in old : r.col = s.col
    BY <2>5, <2>6, <2>7, AppliedRows
  <2>. QED BY <1>10, <2>2, <2>3, <2>4, <2>8
<1>. QED BY <1>1, <1>2, <1>5, <1>7, <1>9 DEF e0, pk, ch

LEMMA ExecuteTInv ==
  ASSUME TInv, Execute
  PROVE  TInv'
<1> DEFINE ch == work.change
           e0 == ch.entity
           pk == IF ch.op = "create" THEN NextKey(ch.entity) ELSE ch.target
<1>1. UNCHANGED <<pending, card, log, confirms, crashes>> /\ work.at = "execute"
  BY DEF Execute
<1>0. work \in WorkType
  BY <1>1 DEF TInv, Idle
<1>2. CASE rows' = rows /\ writes' = writes
  <2>1. work' = [work EXCEPT !.at = "error"] \/ \E k \in Nat \ {0} : work' = [work EXCEPT !.at = "ok", !.pk = k]
    <3>1. \/ work' = [work EXCEPT !.at = "error"]
          \/ writes' = [writes EXCEPT ![work.id] = @ + 1]
      BY DEF Execute
    <3>2. writes' = [writes EXCEPT ![work.id] = @ + 1] => writes' # writes
      <4>1. work.id \in Change
        BY <1>0 DEF WorkType
      <4>2. writes[work.id] \in Nat /\ writes \in [Change -> Nat]
        BY <4>1 DEF TInv, TypeOK
      <4>. QED BY <4>1, <4>2
    <3>. QED BY <1>2, <3>1, <3>2
  <2>2. work' \in WorkType /\ work'.change = work.change
    BY <1>0, <2>1 DEF WorkType
  <2>3. TypeOK'
    <3>1. work'.at \in {"execute", "ok", "error"} /\ work'.change \in ChangeType
      BY <2>2 DEF WorkType
    <3>. QED BY <1>1, <1>2, <3>1 DEF TInv, TypeOK
  <2>4. work # Idle
    BY <1>1 DEF Idle
  <2>. QED BY <1>1, <1>2, <2>2, <2>3, <2>4, SameRows DEF TInv
<1>3. CASE rows' # rows \/ writes' # writes
  <2>1. /\ Sound(ch) /\ ch \in ChangeType /\ pk \in Nat \ {0}
        /\ writes' = [writes EXCEPT ![work.id] = @ + 1]
        /\ \/ work' = [work EXCEPT !.at = "ok", !.pk = pk]
           \/ work' = [work EXCEPT !.at = "error"]
        /\ \A e \in Entity \ {e0} : rows'[e] = rows[e]
        /\ rows'[e0] \subseteq RowType(e0)
        /\ \A r, s \in rows'[e0] : r.pk = s.pk => r = s
        /\ Pks(rows'[e0]) = IF ch.op = "create" THEN Pks(rows[e0]) \cup {pk} ELSE Pks(rows[e0])
        /\ \A r \in rows'[e0] : r.col = ch.col \/ \E s \in rows[e0] : r.col = s.col
        /\ rows' = [e \in Entity |-> rows'[e]]
    BY <1>3, Executed
  <2>2. e0 \in Entity
    BY <2>1 DEF Sound
  <2>3. work' \in WorkType /\ work'.change = ch /\ work'.at \in {"execute", "ok", "error"}
    <3>. HIDE DEF pk
    <3>. QED BY <1>0, <2>1 DEF WorkType
  <2>. HIDE DEF ch, e0, pk
  <2>4. \A e \in Entity : Pks(rows[e]) \subseteq Pks(rows'[e])
    BY <2>1
  <2>5. TypeOK'
    <3>1. writes' \in [Change -> Nat]
      BY <1>0, <2>1 DEF TInv, TypeOK, WorkType
    <3>2. rows'["specialty"] \subseteq Row(Code) /\ rows'["doctor"] \subseteq Row(Nat)
      BY <2>1, <2>2 DEF TInv, TypeOK, RowType, Entity
    <3>3. \A e \in Entity : \A r, s \in rows'[e] : r.pk = s.pk => r = s
      BY <2>1, <2>2 DEF TInv, TypeOK
    <3>. QED BY <1>1, <2>1, <2>3, <3>1, <3>2, <3>3 DEF TInv, TypeOK
  <2>6. KeysBounded'
    <3>1. PICK n \in Nat : \A e \in Entity : \A r \in rows[e] : r.pk <= n
      BY DEF TInv, KeysBounded
    <3>2. PICK m \in Nat : n <= m /\ pk <= m
      BY <2>1, <3>1
    <3>3. \A e \in Entity : \A r \in rows[e] : r.pk \in Nat
      BY DEF TInv, TypeOK, Row, Entity
    <3>4. ASSUME NEW e \in Entity, NEW r \in rows'[e] PROVE r.pk <= m
      <4>1. r.pk \in Pks(rows[e]) \cup {pk}
        BY <2>1, <2>2 DEF Pks
      <4>. QED BY <3>1, <3>2, <3>3, <4>1 DEF Pks
    <3>. QED BY <3>4 DEF KeysBounded
  <2>7. \A x : Sound(x) => Sound(x)'
    BY <2>4 DEF Sound, Entity
  <2>8. ReferencesExist'
    <3>1. SUFFICES ASSUME NEW d \in rows'["doctor"], d.col # Blank
                   PROVE  d.col \in Pks(rows'["specialty"])
      BY DEF ReferencesExist
    <3>2. Pks(rows["specialty"]) \subseteq Pks(rows'["specialty"])
      BY <2>4 DEF Entity
    <3>3. CASE \E s \in rows["doctor"] : d.col = s.col
      BY <3>1, <3>2, <3>3 DEF TInv, ReferencesExist
    <3>4. CASE e0 = "doctor" /\ d.col = ch.col
      BY <2>1, <3>1, <3>2, <3>4 DEF Sound, e0, ch
    <3>5. "doctor" \in Entity
      BY DEF Entity
    <3>. QED BY <2>1, <2>2, <3>3, <3>4, <3>5
  <2>9. \A e \in Entity : Pks(Rows0[e]) \subseteq Pks(rows'[e])
    BY <2>4 DEF TInv
  <2>10. work' \in WorkType /\ Sound(work.change)'
    BY <2>1, <2>3, <2>7 DEF Sound
  <2>11. \A c \in Change : pending'[c] # Absent => Sound(pending[c].change)'
    BY <1>1, <2>7 DEF TInv
  <2>. QED BY <1>1, <2>1, <2>5, <2>6, <2>8, <2>9, <2>10, <2>11 DEF TInv
<1>. QED BY <1>2, <1>3

LEMMA RecordTInv ==
  ASSUME TInv, Record
  PROVE  TInv'
<1> DEFINE e == [id |-> work.id, status |-> work.at, entity |-> work.change.entity,
                 op |-> work.change.op, pk |-> work.pk, before |-> work.before,
                 after |-> work.change.col]
<1>1. /\ work.at \in {"ok", "error"} /\ work' = Idle
      /\ log' = Append(log, e) \/ log' = log
      /\ UNCHANGED <<rows, pending, card, confirms, writes, crashes>>
  BY DEF Record
<1>2. work \in WorkType
  BY <1>1 DEF TInv, Idle
<1>3. e \in EntryType
  BY <1>1, <1>2 DEF WorkType, EntryType, ChangeType
<1>. HIDE DEF e
<1>4. log' \in Seq(EntryType)
  BY <1>1, <1>3 DEF TInv
<1>5. TypeOK'
  BY <1>1 DEF TInv, TypeOK
<1>. QED BY <1>1, <1>4, <1>5, SameRows

LEMMA CrashTInv ==
  ASSUME TInv, Crash
  PROVE  TInv'
<1>1. /\ crashes < MaxCrashes /\ crashes' = crashes + 1 /\ work' = Idle
      /\ pending' = [c \in Change |-> Absent]
      /\ UNCHANGED <<rows, card, log, confirms, writes>>
  BY DEF Crash
<1>2. TypeOK'
  <2>1. pending' \in [Change -> [conv : Conversation, change : ChangeType] \cup {Absent}]
    BY <1>1
  <2>2. crashes' \in 0..MaxCrashes
    BY <1>1, DevCareConstants DEF TInv, TypeOK
  <2>. QED BY <1>1, <2>1, <2>2 DEF TInv, TypeOK
<1>. QED BY <1>1, <1>2, SameRows DEF TInv

LEMMA TInvStep == TInv /\ [Next]_vars => TInv'
<1> SUFFICES ASSUME TInv, [Next]_vars PROVE TInv'
  OBVIOUS
<1>1. CASE UNCHANGED vars
  <2>1. TypeOK'
    BY <1>1 DEF vars, TInv, TypeOK
  <2>. QED BY <1>1, <2>1, SameRows DEF TInv, vars
<1>. QED BY <1>1, StageTInv, CancelTInv, ConfirmTInv, ExecuteTInv, RecordTInv, CrashTInv DEF Next

(* Every variable keeps its shape, and Chave stays a key of each table.      *)
THEOREM TypeCorrect == Spec => []TypeOK
<1>1. TInv => TypeOK
  BY DEF TInv
<1>. QED BY <1>1, InitTInv, TInvStep, PTL DEF Spec

(* A reference that was checked when a change was staged still holds when it  *)
(* is committed, whatever was deleted in between (validator.py,               *)
(* _check_references): deleting sets Hist, no key ever goes.                  *)
THEOREM ReferencesHold == Spec => []ReferencesExist
<1>1. TInv => ReferencesExist
  BY DEF TInv
<1>. QED BY <1>1, InitTInv, TInvStep, PTL DEF Spec

(* --------------------- a change is written once ------------------------ *)

ToldOf(l) == {l[i].id : i \in {j \in DOMAIN l : l[j].status = "ok"}}

CInv ==
  /\ \A c \in Change :
       /\ writes[c] \in {0, 1}
       /\ card[c] = NoCard => pending[c] = Absent /\ writes[c] = 0
       /\ pending[c] # Absent =>
            /\ card[c] # NoCard /\ pending[c].conv = card[c].conv /\ writes[c] = 0
            /\ work # Idle => work.id # c
       /\ writes[c] = 1 => <<card[c].conv, c>> \in confirms
       /\ c \in ToldOf(log) => writes[c] = 1 /\ (work # Idle => work.id # c)
  /\ work # Idle =>
       /\ card[work.id] # NoCard /\ work.conv = card[work.id].conv
       /\ <<work.conv, work.id>> \in confirms
       /\ work.at = "execute" => writes[work.id] = 0
       /\ work.at = "ok" => writes[work.id] = 1

LEMMA InitCInv == Init => CInv
  BY DEF Init, CInv, ToldOf

LEMMA ToldAppend ==
  ASSUME NEW l \in Seq(EntryType), NEW e \in EntryType
  PROVE  ToldOf(Append(l, e)) = IF e.status = "ok" THEN ToldOf(l) \cup {e.id} ELSE ToldOf(l)
<1> DEFINE m == Append(l, e)
<1>1. /\ DOMAIN m = DOMAIN l \cup {Len(l) + 1} /\ m[Len(l) + 1] = e
      /\ \A i \in DOMAIN l : m[i] = l[i] /\ i # Len(l) + 1
  OBVIOUS
<1>. HIDE DEF m
<1>2. CASE e.status = "ok"
  <2>1. {i \in DOMAIN m : m[i].status = "ok"} = {i \in DOMAIN l : l[i].status = "ok"} \cup {Len(l) + 1}
    BY <1>1, <1>2
  <2>. QED BY <1>1, <1>2, <2>1 DEF ToldOf, m
<1>3. CASE e.status # "ok"
  <2>1. {i \in DOMAIN m : m[i].status = "ok"} = {i \in DOMAIN l : l[i].status = "ok"}
    BY <1>1, <1>3
  <2>. QED BY <1>1, <1>3, <2>1 DEF ToldOf, m
<1>. QED BY <1>2, <1>3

LEMMA CInvStep == TInv /\ CInv /\ [Next]_vars => CInv'
<1> SUFFICES ASSUME TInv, CInv, [Next]_vars PROVE CInv'
  OBVIOUS
<1>1. CASE \E v \in Conversation, c \in Change : Stage(v, c)
  <2>1. PICK v \in Conversation, c \in Change : Stage(v, c)
    BY <1>1
  <2>2. /\ work = Idle /\ card[c] = NoCard
        /\ UNCHANGED <<work, log, confirms, writes>>
        /\ card'[c] = [at |-> "open", conv |-> v]
        /\ \A d \in Change \ {c} : card'[d] = card[d] /\ pending'[d] = pending[d]
        /\ \E ch : pending'[c] = [conv |-> v, change |-> ch]
    BY <2>1 DEF Stage, TInv, TypeOK
  <2>3. card'[c] # NoCard /\ card'[c].conv = v /\ pending'[c].conv = v
    BY <2>2 DEF NoCard
  <2>4. writes[c] = 0
    BY <2>2 DEF CInv
  <2>5. ASSUME NEW d \in Change
        PROVE  /\ writes'[d] \in {0, 1}
               /\ card'[d] = NoCard => pending'[d] = Absent /\ writes'[d] = 0
               /\ pending'[d] # Absent =>
                    card'[d] # NoCard /\ pending'[d].conv = card'[d].conv /\ writes'[d] = 0
               /\ writes'[d] = 1 => <<card'[d].conv, d>> \in confirms'
               /\ d \in ToldOf(log') => writes'[d] = 1
    <3>1. CASE d = c
      <4>1. c \notin ToldOf(log)
        <5>1. c \in ToldOf(log) => writes[c] = 1
          BY Zenon DEF CInv
        <5>. QED BY <2>4, <5>1
      <4>2. log' = log /\ writes'[c] = 0
        BY <2>2, <2>4
      <4>. QED BY <2>3, <3>1, <4>1, <4>2
    <3>2. CASE d # c
      BY <2>2, <3>2 DEF CInv
    <3>. QED BY <3>1, <3>2
  <2>. QED BY <2>2, <2>5 DEF CInv
<1>2. CASE \E c \in Change : Cancel(c)
  <2>1. PICK c \in Change : Cancel(c)
    BY <1>2
  <2>2. /\ UNCHANGED <<pending, work, log, confirms, writes>>
        /\ \A d \in Change \ {c} : card'[d] = card[d]
        /\ card[c].at = "open" /\ card'[c] = [card[c] EXCEPT !.at = "cancelled"]
    BY <2>1 DEF Cancel, TInv, TypeOK
  <2>3. card[c] \in [at : {"open", "cancelled"}, conv : Conversation]
    BY <2>2 DEF TInv, TypeOK, NoCard
  <2>4. card[c] # NoCard /\ card'[c] # NoCard /\ card'[c].conv = card[c].conv
    BY <2>2, <2>3 DEF NoCard
  <2>5. work # Idle => work.id \in Change
    BY DEF TInv, WorkType
  <2>. QED BY <2>2, <2>4, <2>5 DEF CInv
<1>3. CASE \E v \in Conversation, c \in Change : Confirm(v, c)
  <2>1. PICK v \in Conversation, c \in Change : Confirm(v, c)
    BY <1>3
  <2>2. /\ work = Idle /\ pending[c] # Absent /\ pending[c].conv = v
        /\ pending' = [pending EXCEPT ![c] = Absent]
        /\ confirms' = confirms \cup {<<v, c>>} /\ UNCHANGED <<card, log, writes>>
        /\ work'.id = c /\ work'.conv = v /\ work'.at \in {"execute", "error"}
    BY <2>1 DEF Confirm, Take
  <2>3. /\ pending'[c] = Absent /\ \A d \in Change \ {c} : pending'[d] = pending[d]
    BY <2>2 DEF TInv, TypeOK
  <2>4. card[c] # NoCard /\ card[c].conv = v /\ writes[c] = 0
    BY <2>2 DEF CInv
  <2>5. ASSUME NEW d \in Change
        PROVE  /\ writes'[d] \in {0, 1}
               /\ card'[d] = NoCard => pending'[d] = Absent /\ writes'[d] = 0
               /\ pending'[d] # Absent =>
                    /\ card'[d] # NoCard /\ pending'[d].conv = card'[d].conv /\ writes'[d] = 0
                    /\ work'.id # d
               /\ writes'[d] = 1 => <<card'[d].conv, d>> \in confirms'
               /\ d \in ToldOf(log') => writes'[d] = 1 /\ work'.id # d
    <3>1. CASE d = c
      BY <2>2, <2>3, <2>4, <3>1 DEF CInv
    <3>2. CASE d # c
      BY <2>2, <2>3, <3>2 DEF CInv
    <3>. QED BY <3>1, <3>2
  <2>6. /\ card'[work'.id] # NoCard /\ work'.conv = card'[work'.id].conv
        /\ <<work'.conv, work'.id>> \in confirms'
        /\ work'.at = "execute" => writes'[work'.id] = 0
        /\ work'.at # "ok"
    BY <2>2, <2>4
  <2>. QED BY <2>5, <2>6 DEF CInv
<1>4. CASE Execute
  <2>1. /\ UNCHANGED <<pending, card, log, confirms>> /\ work.at = "execute"
        /\ \/ UNCHANGED writes /\ work' = [work EXCEPT !.at = "error"]
           \/ /\ writes' = [writes EXCEPT ![work.id] = @ + 1]
              /\ \E pk : \/ work' = [work EXCEPT !.at = "ok", !.pk = pk]
                         \/ work' = [work EXCEPT !.at = "error"]
    BY <1>4 DEF Execute
  <2>2. work \in WorkType /\ work # Idle /\ work.id \in Change
    <3>1. work.at = "execute"
      BY <2>1
    <3>2. work # Idle
      BY <3>1 DEF Idle
    <3>. QED BY <3>2 DEF TInv, WorkType
  <2>3. work'.id = work.id /\ work'.conv = work.conv /\ work'.at \in {"ok", "error"}
    BY <2>1, <2>2 DEF WorkType
  <2>4. CASE UNCHANGED writes /\ work' = [work EXCEPT !.at = "error"]
    <3>1. work'.at = "error"
      BY <2>2, <2>4 DEF WorkType
    <3>. QED BY <2>1, <2>2, <2>3, <2>4, <3>1 DEF CInv
  <2>5. CASE writes' = [writes EXCEPT ![work.id] = @ + 1]
    <3>1. writes[work.id] = 0
      BY <2>1, <2>2 DEF CInv
    <3>2. writes'[work.id] = 1 /\ \A d \in Change \ {work.id} : writes'[d] = writes[d]
      BY <2>2, <2>5, <3>1 DEF TInv, TypeOK
    <3>. QED BY <2>1, <2>2, <2>3, <3>1, <3>2 DEF CInv
  <2>. QED BY <2>1, <2>4, <2>5
<1>5. CASE Record
  <2> DEFINE e == [id |-> work.id, status |-> work.at, entity |-> work.change.entity,
                   op |-> work.change.op, pk |-> work.pk, before |-> work.before,
                   after |-> work.change.col]
  <2>1. /\ work.at \in {"ok", "error"} /\ work' = Idle
        /\ log' = Append(log, e) \/ log' = log
        /\ UNCHANGED <<rows, pending, card, confirms, writes>>
    BY <1>5 DEF Record
  <2>2. work \in WorkType /\ work # Idle /\ work.id \in Change
    <3>1. work # Idle
      BY <2>1 DEF Idle
    <3>. QED BY <3>1 DEF TInv, WorkType
  <2>3. e \in EntryType /\ e.id = work.id /\ e.status = work.at
    BY <2>1, <2>2 DEF WorkType, EntryType, ChangeType
  <2>. HIDE DEF e
  <2>4. ToldOf(log') \subseteq ToldOf(log) \cup (IF work.at = "ok" THEN {work.id} ELSE {})
    BY <2>1, <2>3, ToldAppend DEF TInv
  <2>. QED BY <2>1, <2>2, <2>4 DEF CInv
<1>6. CASE Crash
  <2>1. /\ \A c \in Change : pending'[c] = Absent
        /\ work' = Idle /\ UNCHANGED <<card, log, confirms, writes>>
    BY <1>6 DEF Crash
  <2>. QED BY <2>1 DEF CInv
<1>7. CASE UNCHANGED vars
  BY <1>7 DEF vars, CInv
<1>. QED BY <1>1, <1>2, <1>3, <1>4, <1>5, <1>6, <1>7 DEF Next

LEMMA AlwaysCInv == Spec => [](TInv /\ CInv)
  BY InitTInv, TInvStep, InitCInv, CInvStep, PTL DEF Spec

(* A change is written at most once, and only on a Confirm of the             *)
(* conversation that staged it, however Confirms, failures and restarts       *)
(* follow each other (pending.py, PendingChangeStore.pop).                    *)
THEOREM WritesConfirmed == Spec => []ConfirmedWrites
<1>1. CInv => ConfirmedWrites
  BY DEF CInv, ConfirmedWrites
<1>. QED BY <1>1, AlwaysCInv, PTL

(* ---------------------- a key names one record ------------------------- *)

Creations(l) == {i \in DOMAIN l : l[i].op = "create" /\ l[i].status = "ok"}

KInv ==
  /\ KeysNameOneRecord
  /\ \A i \in Creations(log) : log[i].pk \in Pks(rows[log[i].entity])
  /\ work.at = "ok" /\ work.change.op = "create" =>
       /\ work.pk \in Pks(rows[work.change.entity]) \ Pks(Rows0[work.change.entity])
       /\ \A i \in Creations(log) : log[i].entity = work.change.entity => log[i].pk # work.pk

LEMMA InitKInv == Init => KInv
  BY DEF Init, KInv, KeysNameOneRecord, Creations, Idle

LEMMA KInvStep == TInv /\ KInv /\ [Next]_vars => KInv'
<1> SUFFICES ASSUME TInv, KInv, [Next]_vars PROVE KInv'
  OBVIOUS
<1>1. CASE UNCHANGED <<rows, log>> /\ work'.at # "ok"
  BY <1>1 DEF KInv, KeysNameOneRecord, Creations
<1>2. CASE UNCHANGED <<rows, log, work>>
  BY <1>2 DEF KInv, KeysNameOneRecord, Creations
<1>3. CASE Execute
  <2>1. UNCHANGED log /\ work.at = "execute"
    BY <1>3 DEF Execute
  <2>0. work \in WorkType
    BY <2>1 DEF TInv, Idle
  <2>2. CASE rows' # rows \/ writes' # writes
    <3> DEFINE ch == work.change
               pk == IF ch.op = "create" THEN NextKey(ch.entity) ELSE ch.target
    <3>1. /\ Sound(ch) /\ (ch.op = "create" => pk \notin Pks(rows[ch.entity]))
          /\ \/ work' = [work EXCEPT !.at = "ok", !.pk = pk]
             \/ work' = [work EXCEPT !.at = "error"]
          /\ \A e \in Entity \ {ch.entity} : rows'[e] = rows[e]
          /\ Pks(rows'[ch.entity]) = IF ch.op = "create" THEN Pks(rows[ch.entity]) \cup {pk}
                                      ELSE Pks(rows[ch.entity])
      BY <1>3, <2>2, Executed
    <3>2. ch.entity \in Entity
      BY <3>1 DEF Sound
    <3>3. work'.change = ch /\ (work'.at = "ok" => work'.pk = pk)
      <4>. HIDE DEF pk
      <4>. QED BY <2>0, <3>1 DEF WorkType
    <3>. HIDE DEF ch, pk
    <3>4. \A e \in Entity : Pks(rows[e]) \subseteq Pks(rows'[e])
      BY <3>1
    <3>5. \A i \in Creations(log) : log[i].entity \in Entity
      <4>1. \A i \in DOMAIN log : log[i] \in EntryType
        BY DEF TInv
      <4>. QED BY <4>1 DEF Creations, EntryType
    <3>6. \A i \in Creations(log) : log[i].pk \in Pks(rows[log[i].entity])
      BY DEF KInv
    <3>7. ASSUME work'.at = "ok", ch.op = "create"
          PROVE  /\ pk \in Pks(rows'[ch.entity]) \ Pks(Rows0[ch.entity])
                 /\ \A i \in Creations(log) : log[i].entity = ch.entity => log[i].pk # pk
      <4>1. pk \notin Pks(rows[ch.entity]) /\ pk \in Pks(rows'[ch.entity])
        BY <3>1, <3>7
      <4>2. Pks(Rows0[ch.entity]) \subseteq Pks(rows[ch.entity])
        BY <3>2 DEF TInv
      <4>. QED BY <3>6, <4>1, <4>2
    <3>8. KeysNameOneRecord'
      BY <2>1 DEF KInv, KeysNameOneRecord
    <3>9. \A i \in Creations(log') : log'[i].pk \in Pks(rows'[log'[i].entity])
      BY <2>1, <3>4, <3>5, <3>6
    <3>10. Creations(log)' = Creations(log)
      BY <2>1 DEF Creations
    <3>. QED BY <2>1, <3>3, <3>7, <3>8, <3>9, <3>10 DEF KInv
  <2>3. CASE rows' = rows /\ writes' = writes
    <3>1. work' = [work EXCEPT !.at = "error"] \/ writes' = [writes EXCEPT ![work.id] = @ + 1]
      BY <1>3 DEF Execute
    <3>2. writes' # [writes EXCEPT ![work.id] = @ + 1]
      <4>1. work.id \in Change
        BY <2>0 DEF WorkType
      <4>2. writes[work.id] \in Nat /\ writes \in [Change -> Nat]
        BY <4>1 DEF TInv, TypeOK
      <4>. QED BY <2>3, <4>1, <4>2
    <3>3. work'.at = "error"
      BY <2>0, <3>1, <3>2 DEF WorkType
    <3>. QED BY <1>1, <2>1, <2>3, <3>3
  <2>. QED BY <2>2, <2>3
<1>4. CASE Record
  <2> DEFINE e == [id |-> work.id, status |-> work.at, entity |-> work.change.entity,
                   op |-> work.change.op, pk |-> work.pk, before |-> work.before,
                   after |-> work.change.col]
  <2>1. /\ work.at \in {"ok", "error"} /\ work' = Idle /\ UNCHANGED rows
        /\ log' = Append(log, e) \/ log' = log
    BY <1>4 DEF Record
  <2>2. e.status = work.at /\ e.op = work.change.op /\ e.entity = work.change.entity
        /\ e.pk = work.pk
    OBVIOUS
  <2>. HIDE DEF e
  <2>3. work'.at # "ok"
    BY <2>1 DEF Idle
  <2>4. CASE log' = log
    BY <1>1, <2>1, <2>3, <2>4
  <2>5. CASE log' = Append(log, e)
    <3> DEFINE n == Len(log) + 1
    <3>1. /\ DOMAIN log' = DOMAIN log \cup {n} /\ log'[n] = e /\ n \notin DOMAIN log
          /\ \A i \in DOMAIN log : log'[i] = log[i]
      BY <2>5 DEF TInv
    <3>. HIDE DEF n
    <3>2. CASE e.op = "create" /\ e.status = "ok"
      <4>1. Creations(log') = Creations(log) \cup {n}
        BY <3>1, <3>2 DEF Creations
      <4>2. /\ e.pk \in Pks(rows[e.entity]) \ Pks(Rows0[e.entity])
            /\ \A i \in Creations(log) : log[i].entity = e.entity => log[i].pk # e.pk
        BY <2>2, <3>2 DEF KInv
      <4>3. /\ \A i \in Creations(log) : log[i].pk \notin Pks(Rows0[log[i].entity])
            /\ \A i, j \in Creations(log) :
                 log[i].entity = log[j].entity /\ log[i].pk = log[j].pk => i = j
            /\ \A i \in Creations(log) : log[i].pk \in Pks(rows[log[i].entity])
            /\ \A i \in Creations(log) : i \in DOMAIN log
        BY DEF KInv, KeysNameOneRecord, Creations
      <4>4. /\ \A i \in Creations(log') : log'[i].pk \notin Pks(Rows0[log'[i].entity])
            /\ \A i \in Creations(log') : log'[i].pk \in Pks(rows[log'[i].entity])
        BY <3>1, <4>1, <4>2, <4>3
      <4>5. \A i, j \in Creations(log') :
                 log'[i].entity = log'[j].entity /\ log'[i].pk = log'[j].pk => i = j
        BY <3>1, <4>1, <4>2, <4>3
      <4>. QED BY <2>1, <2>3, <4>4, <4>5 DEF KInv, KeysNameOneRecord, Creations
    <3>3. CASE ~ (e.op = "create" /\ e.status = "ok")
      <4>1. Creations(log') = Creations(log)
        BY <3>1, <3>3 DEF Creations
      <4>2. \A i \in Creations(log) : log'[i] = log[i]
        BY <3>1 DEF Creations
      <4>. QED BY <2>1, <2>3, <4>1, <4>2 DEF KInv, KeysNameOneRecord, Creations
    <3>. QED BY <3>2, <3>3
  <2>. QED BY <2>1, <2>4, <2>5
<1>5. CASE \E v \in Conversation, c \in Change : Stage(v, c)
  BY <1>2, <1>5 DEF Stage
<1>6. CASE \E c \in Change : Cancel(c)
  BY <1>2, <1>6 DEF Cancel
<1>7. CASE \E v \in Conversation, c \in Change : Confirm(v, c)
  <2>1. UNCHANGED <<rows, log>> /\ work'.at \in {"execute", "error"}
    BY <1>7 DEF Confirm
  <2>. QED BY <1>1, <2>1
<1>8. CASE Crash
  BY <1>1, <1>8 DEF Crash, Idle
<1>9. CASE UNCHANGED vars
  BY <1>2, <1>9 DEF vars
<1>. QED BY <1>3, <1>4, <1>5, <1>6, <1>7, <1>8, <1>9 DEF Next

(* The key in an entry of the log names one record for good: MAX(Chave) + 1   *)
(* counts deleted rows, and no row ever goes (write_executor.py, _next_key).  *)
THEOREM KeysNeverReused == Spec => []KeysNameOneRecord
<1>1. KInv => KeysNameOneRecord
  BY DEF KInv
<1>. QED BY <1>1, InitTInv, TInvStep, InitKInv, KInvStep, PTL DEF Spec

(* ------------------------ the log is a journal ------------------------- *)

(* g tells, entry by entry, what the log l tells. *)
Telling(l, g) ==
  /\ g[0] = [rows |-> Rows0, true |-> TRUE]
  /\ \A n \in 1..Len(l) : g[n] = Tell(g[n - 1], l[n])

(* Every write has its entry, or will have it with the next step. *)
Complete ==
  \A c \in Change : writes[c] = 1 => c \in ToldOf(log) \/ (work.at = "ok" /\ work.id = c)

TrueBefore(e, op, pk, t) ==
  IF op = "create" THEN Absent
  ELSE LET old == {r \in t[e] : r.pk = pk}
       IN  IF old = {} THEN Absent ELSE CHOOSE r \in old : TRUE

Agrees(s) ==
  /\ s.true = TRUE
  /\ work.at = "ok" =>
       /\ rows = [s.rows EXCEPT ![work.change.entity] =
                    Applied(@, [op |-> work.change.op, col |-> work.change.col], work.pk)]
       /\ work.before = TrueBefore(work.change.entity, work.change.op, work.pk, s.rows)
  /\ work.at # "ok" => s.rows = rows
  /\ work.at = "execute" =>
       work.before = TrueBefore(work.change.entity, work.change.op, work.change.target, rows)

JInv == \A g : Telling(log, g) /\ Complete => Agrees(g[Len(log)])

LEMMA TellingExists ==
  ASSUME NEW l, Len(l) \in Nat
  PROVE  \E g : g = [n \in 0..Len(l) |->
                       IF n = 0 THEN [rows |-> Rows0, true |-> TRUE] ELSE Tell(g[n - 1], l[n])]
<1> DEFINE start == [rows |-> Rows0, true |-> TRUE]
           Fits(g, k) == g = [n \in 0..k |-> IF n = 0 THEN start ELSE Tell(g[n - 1], l[n])]
           Bad == {k \in Nat : ~ \E g : Fits(g, k)}
<1>1. SUFFICES Bad = {}
  OBVIOUS
<1>2. SUFFICES ASSUME Bad # {} PROVE FALSE
  OBVIOUS
<1>3. PICK k \in Bad : \A m \in Bad : ~ (<<m, k>> \in OpToRel(<, Nat))
  <2>1. Bad \subseteq Nat
    OBVIOUS
  <2>. HIDE DEF Bad
  <2>. QED BY <1>2, <2>1, NatLessThanWellFounded, WFMin
<1>4. k \in Nat /\ \A m \in Bad : ~ (m < k)
  BY <1>3 DEF OpToRel
<1>5. CASE k = 0
  <2>1. Fits([n \in 0..0 |-> start], 0)
    OBVIOUS
  <2>. QED BY <1>3, <1>5, <2>1
<1>6. CASE k # 0
  <2>1. k - 1 \in Nat /\ k - 1 < k
    BY <1>4, <1>6
  <2>2. PICK h : Fits(h, k - 1)
    BY <1>4, <2>1
  <2> DEFINE g == [n \in 0..k |-> IF n = k THEN Tell(h[k - 1], l[k]) ELSE h[n]]
  <2>3. \A n \in 0..(k - 1) : h[n] = IF n = 0 THEN start ELSE Tell(h[n - 1], l[n])
    <3>. HIDE DEF start
    <3>. QED BY <2>2
  <2>4. ASSUME NEW n \in 0..k
        PROVE  g[n] = IF n = 0 THEN start ELSE Tell(g[n - 1], l[n])
    <3>. HIDE DEF start
    <3>1. CASE n = k
      <4>1. k - 1 \in 0..k /\ k - 1 # k
        BY <1>4, <2>1
      <4>2. g[n - 1] = h[k - 1]
        BY <3>1, <4>1
      <4>. QED BY <1>6, <3>1, <4>2
    <3>2. CASE n # k
      <4>1. n \in 0..(k - 1) /\ g[n] = h[n]
        BY <1>4, <3>2
      <4>2. n # 0 => n - 1 \in 0..k /\ n - 1 # k /\ g[n - 1] = h[n - 1]
        BY <1>4, <4>1
      <4>. QED BY <2>3, <4>1, <4>2
    <3>. QED BY <3>1, <3>2
  <2>5. g = [n \in 0..k |-> g[n]]
    OBVIOUS
  <2>6. Fits(g, k)
    <3>. HIDE DEF g, start
    <3>1. [n \in 0..k |-> g[n]] = [n \in 0..k |-> IF n = 0 THEN start ELSE Tell(g[n - 1], l[n])]
      BY <2>4
    <3>. QED BY <2>5, <3>1, Zenon
  <2>. HIDE DEF Fits, g
  <2>. QED BY <1>3, <2>6
<1>. QED BY <1>5, <1>6

LEMMA ToldTells ==
  ASSUME log \in Seq(EntryType)
  PROVE  \E g : Telling(log, g) /\ Told = g[Len(log)]
<1> DEFINE told == CHOOSE g : g = [n \in 0..Len(log) |->
                     IF n = 0 THEN [rows |-> Rows0, true |-> TRUE] ELSE Tell(g[n - 1], log[n])]
<1>1. Len(log) \in Nat
  OBVIOUS
<1>2. told = [n \in 0..Len(log) |->
               IF n = 0 THEN [rows |-> Rows0, true |-> TRUE] ELSE Tell(told[n - 1], log[n])]
  BY <1>1, TellingExists, Zenon
<1>3. Told = told[Len(log)]
  BY Zenon DEF Told
<1>. HIDE DEF told
<1>4. Telling(log, told)
  <2>1. \A n \in 0..Len(log) : told[n] = IF n = 0 THEN [rows |-> Rows0, true |-> TRUE]
                                         ELSE Tell(told[n - 1], log[n])
    BY <1>2, Zenon
  <2>2. 0 \in 0..Len(log) /\ \A n \in 1..Len(log) : n \in 0..Len(log) /\ n # 0
    BY <1>1
  <2>. QED BY <2>1, <2>2, Zenon DEF Telling
<1>. QED BY <1>3, <1>4

LEMMA InitJInv == Init => JInv
<1> SUFFICES ASSUME Init, NEW g, Telling(log, g) PROVE Agrees(g[Len(log)])
  BY DEF JInv
<1>1. Len(log) = 0 /\ rows = Rows0 /\ work.at = "idle"
  BY DEF Init, Idle
<1>2. g[0] = [rows |-> Rows0, true |-> TRUE]
  BY DEF Telling
<1>. QED BY <1>1, <1>2 DEF Agrees

(* Steps after which the log tells what it told. *)
LEMMA SameTelling ==
  ASSUME JInv, UNCHANGED log, Complete' => Complete,
         \A s : Agrees(s) => Agrees(s)'
  PROVE  JInv'
  BY DEF JInv, Telling

LEMMA ExecuteJInv ==
  ASSUME TInv, CInv, JInv, Execute
  PROVE  JInv'
<1> DEFINE ch == work.change
           pk == IF ch.op = "create" THEN NextKey(ch.entity) ELSE ch.target
<1>1. UNCHANGED log /\ work.at = "execute"
  BY DEF Execute
<1>2. work \in WorkType /\ work # Idle /\ work.id \in Change
  <2>1. work # Idle
    BY <1>1 DEF Idle
  <2>. QED BY <2>1 DEF TInv, WorkType
<1>3. writes[work.id] = 0 /\ writes \in [Change -> Nat]
  BY <1>1, <1>2 DEF CInv, TInv, TypeOK
<1>4. work.id \notin ToldOf(log)
  <2>1. work.id \in ToldOf(log) => writes[work.id] = 1
    BY <1>2, Zenon DEF CInv
  <2>. QED BY <1>3, <2>1
<1>5. CASE rows' # rows \/ writes' # writes
  <2>1. /\ Sound(ch) /\ rows' = [rows EXCEPT ![ch.entity] = Applied(@, ch, pk)]
        /\ writes' = [writes EXCEPT ![work.id] = @ + 1]
        /\ \/ work' = [work EXCEPT !.at = "ok", !.pk = pk]
           \/ work' = [work EXCEPT !.at = "error"]
    BY <1>5, Executed
  <2>2. writes'[work.id] = 1 /\ \A c \in Change \ {work.id} : writes'[c] = writes[c]
    BY <1>2, <1>3, <2>1
  <2>3. CASE work' = [work EXCEPT !.at = "error"]
    <3>1. work'.at = "error"
      BY <1>2, <2>3 DEF WorkType
    <3>2. ~ Complete'
      BY <1>1, <1>2, <1>4, <2>2, <3>1 DEF Complete
    <3>. QED BY <3>2 DEF JInv
  <2>4. CASE work' = [work EXCEPT !.at = "ok", !.pk = pk]
    <3>1. /\ work'.at = "ok" /\ work'.pk = pk /\ work'.id = work.id /\ work'.change = ch
          /\ work'.before = work.before
      <4>. HIDE DEF pk
      <4>. QED BY <1>2, <2>4 DEF WorkType
    <3>2. Complete' => Complete
      <4>1. SUFFICES ASSUME Complete', NEW c \in Change, writes[c] = 1 PROVE c \in ToldOf(log)
        BY DEF Complete
      <4>2. c # work.id
        BY <1>3, <4>1
      <4>3. writes'[c] = 1
        BY <2>2, <4>1, <4>2
      <4>. QED BY <1>1, <3>1, <4>1, <4>2, <4>3 DEF Complete
    <3>3. ASSUME NEW s, Agrees(s) PROVE Agrees(s)'
      <4>1. s.true = TRUE /\ s.rows = rows
            /\ work.before = TrueBefore(ch.entity, ch.op, ch.target, rows)
        BY <1>1, <3>3 DEF Agrees
      <4>2. \A t : Applied(t, ch, pk) = Applied(t, [op |-> ch.op, col |-> ch.col], pk)
        BY <2>1 DEF Applied, Sound, Operation
      <4>3. TrueBefore(ch.entity, ch.op, pk, rows) = TrueBefore(ch.entity, ch.op, ch.target, rows)
        BY DEF TrueBefore
      <4>. HIDE DEF ch, pk
      <4>4. rows' = [s.rows EXCEPT ![ch.entity] = Applied(@, [op |-> ch.op, col |-> ch.col], pk)]
        BY <2>1, <4>1, <4>2, Zenon
      <4>. QED BY <3>1, <4>1, <4>3, <4>4 DEF Agrees
    <3>. QED BY <1>1, <3>2, <3>3, SameTelling
  <2>. QED BY <2>1, <2>3, <2>4
<1>6. CASE rows' = rows /\ writes' = writes
  <2>1. work' = [work EXCEPT !.at = "error"] \/ writes' = [writes EXCEPT ![work.id] = @ + 1]
    BY DEF Execute
  <2>2. writes' # [writes EXCEPT ![work.id] = @ + 1]
    BY <1>2, <1>3, <1>6
  <2>3. work'.at = "error"
    BY <1>2, <2>1, <2>2 DEF WorkType
  <2>4. Complete' => Complete
    BY <1>1, <1>6, <2>3 DEF Complete
  <2>5. \A s : Agrees(s) => Agrees(s)'
    BY <1>1, <1>6, <2>3 DEF Agrees
  <2>. QED BY <1>1, <2>4, <2>5, SameTelling
<1>. QED BY <1>5, <1>6

LEMMA RecordJInv ==
  ASSUME TInv, CInv, JInv, Record
  PROVE  JInv'
<1> DEFINE e == [id |-> work.id, status |-> work.at, entity |-> work.change.entity,
                 op |-> work.change.op, pk |-> work.pk, before |-> work.before,
                 after |-> work.change.col]
<1>1. /\ work.at \in {"ok", "error"} /\ work' = Idle /\ UNCHANGED <<rows, writes>>
      /\ log' = Append(log, e) \/ log' = log
  BY DEF Record
<1>2. work \in WorkType /\ work # Idle /\ work.id \in Change
  <2>1. work # Idle
    BY <1>1 DEF Idle
  <2>. QED BY <2>1 DEF TInv, WorkType
<1>3. e \in EntryType /\ e.id = work.id /\ e.status = work.at
  BY <1>1, <1>2 DEF WorkType, EntryType, ChangeType
<1>4. work'.at = "idle"
  BY <1>1 DEF Idle
<1>5. work.at = "ok" => writes[work.id] = 1 /\ work.id \notin ToldOf(log)
  BY <1>2 DEF CInv
<1>6. CASE log' = log
  <2>1. CASE work.at = "ok"
    <3>1. ~ Complete'
      BY <1>1, <1>2, <1>4, <1>5, <1>6, <2>1 DEF Complete
    <3>. QED BY <3>1 DEF JInv
  <2>2. CASE work.at = "error"
    <3>1. Complete' => Complete
      BY <1>1, <1>4, <1>6, <2>2 DEF Complete
    <3>2. \A s : Agrees(s) => Agrees(s)'
      BY <1>1, <1>4, <2>2 DEF Agrees
    <3>. QED BY <1>6, <3>1, <3>2, SameTelling
  <2>. QED BY <1>1, <2>1, <2>2
<1>7. CASE log' = Append(log, e)
  <2> SUFFICES ASSUME NEW g, Telling(log', g), Complete' PROVE Agrees(g[Len(log)])'
    BY DEF JInv
  <2>0. PICK n \in Nat : n = Len(log)
    BY DEF TInv
  <2>1. /\ n \in Nat /\ Len(log') = n + 1 /\ log'[n + 1] = e
        /\ \A i \in 1..n : log'[i] = log[i]
    <3>. HIDE DEF e
    <3>. QED BY <1>7, <2>0 DEF TInv
  <2>9. PICK s, x : s = g[n] /\ x = e
    OBVIOUS
  <2>2. Telling(log, g) /\ g[n + 1] = Tell(s, x)
    <3>. HIDE DEF e
    <3>1. \A i \in 1..n : i \in 1..(n + 1)
      BY <2>1
    <3>2. n + 1 \in 1..(n + 1) /\ (n + 1) - 1 = n
      BY <2>1
    <3>3. /\ g[0] = [rows |-> Rows0, true |-> TRUE]
          /\ \A i \in 1..(n + 1) : g[i] = Tell(g[i - 1], log'[i])
      BY <2>1 DEF Telling
    <3>4. \A i \in 1..n : g[i] = Tell(g[i - 1], log[i])
      BY <2>1, <3>1, <3>3
    <3>5. Telling(log, g)
      BY <2>0, <3>3, <3>4 DEF Telling
    <3>. QED BY <2>1, <2>9, <3>2, <3>3, <3>5
  <2>3. ToldOf(log') = IF e.status = "ok" THEN ToldOf(log) \cup {e.id} ELSE ToldOf(log)
    <3>. HIDE DEF e
    <3>. QED BY <1>3, <1>7, ToldAppend DEF TInv
  <2>4. Complete
    <3>. HIDE DEF e
    <3>. QED BY <1>1, <1>3, <1>4, <2>3 DEF Complete
  <2>5. Agrees(s)
    BY <2>0, <2>2, <2>4, <2>9, Zenon DEF JInv
  <2>10. SUFFICES Agrees(Tell(s, x))'
    BY <2>1, <2>2
  <2>6. CASE work.at = "error"
    <3>1. Tell(s, x) = s
      BY <2>6, <2>9 DEF Tell
    <3>2. Agrees(s)'
      BY <1>1, <1>4, <2>5, <2>6 DEF Agrees
    <3>. QED BY <3>1, <3>2
  <2>7. CASE work.at = "ok"
    <3>1. /\ s.true = TRUE
          /\ rows = [s.rows EXCEPT ![work.change.entity] =
                       Applied(@, [op |-> work.change.op, col |-> work.change.col], work.pk)]
          /\ work.before = TrueBefore(work.change.entity, work.change.op, work.pk, s.rows)
      BY <2>5, <2>7 DEF Agrees
    <3>2. /\ x.status = "ok" /\ x.entity = work.change.entity /\ x.op = work.change.op
          /\ x.pk = work.pk /\ x.before = work.before /\ x.after = work.change.col
      BY <2>7, <2>9
    <3>3. Tell(s, x) =
            [rows |-> [s.rows EXCEPT ![x.entity] = Applied(@, [op |-> x.op, col |-> x.after], x.pk)],
             true |-> s.true /\ x.before = TrueBefore(x.entity, x.op, x.pk, s.rows)]
      BY <3>2 DEF Tell, TrueBefore
    <3>4. Tell(s, x).rows = rows
      BY <3>1, <3>2, <3>3
    <3>5. Tell(s, x).true = TRUE
      <4>1. x.before = TrueBefore(x.entity, x.op, x.pk, s.rows)
        BY <3>1, <3>2
      <4>2. (s.true /\ x.before = TrueBefore(x.entity, x.op, x.pk, s.rows)) = TRUE
        BY <3>1, <4>1, Zenon
      <4>3. PICK t : Tell(s, x) = [rows |-> t, true |-> TRUE]
        BY <3>3, <4>2, Zenon
      <4>. QED BY <4>3
    <3>6. PICK u : u = Tell(s, x)
      OBVIOUS
    <3>7. Agrees(u)'
      BY <1>1, <1>4, <3>4, <3>5, <3>6 DEF Agrees
    <3>. QED BY <3>6, <3>7
  <2>. QED BY <1>1, <2>6, <2>7
<1>. QED BY <1>1, <1>6, <1>7

LEMMA JInvStep == TInv /\ CInv /\ JInv /\ [Next]_vars => JInv'
<1> SUFFICES ASSUME TInv, CInv, JInv, [Next]_vars PROVE JInv'
  OBVIOUS
<1>1. CASE UNCHANGED <<rows, log, work, writes>>
  BY <1>1 DEF JInv, Telling, Complete, Agrees
<1>2. CASE \E v \in Conversation, c \in Change : Stage(v, c)
  BY <1>1, <1>2 DEF Stage
<1>3. CASE \E c \in Change : Cancel(c)
  BY <1>1, <1>3 DEF Cancel
<1>4. CASE \E v \in Conversation, c \in Change : Confirm(v, c)
  <2>1. PICK v \in Conversation, c \in Change : Confirm(v, c)
    BY <1>4
  <2> DEFINE ch == pending[c].change
  <2>2. /\ work = Idle /\ UNCHANGED <<rows, log, writes>>
        /\ \/ work' = [at |-> "execute", id |-> c, conv |-> v, change |-> ch,
                       before |-> Before(ch), pk |-> ch.target]
           \/ work' = [at |-> "error", id |-> c, conv |-> v, change |-> ch,
                       before |-> Absent, pk |-> ch.target]
    BY <2>1 DEF Confirm
  <2>. HIDE DEF ch
  <2>3. work.at = "idle" /\ work'.at \in {"execute", "error"}
    BY <2>2 DEF Idle
  <2>4. Complete' => Complete
    BY <2>2, <2>3 DEF Complete
  <2>5. Before(ch) = TrueBefore(ch.entity, ch.op, ch.target, rows)
    BY DEF Before, RowAt, TrueBefore
  <2>6. work'.at = "execute" =>
          work'.before = TrueBefore(work'.change.entity, work'.change.op, work'.change.target, rows)
    BY <2>2, <2>5
  <2>7. \A s : Agrees(s) => Agrees(s)'
    BY <2>2, <2>3, <2>6 DEF Agrees
  <2>. QED BY <2>2, <2>4, <2>7, SameTelling
<1>5. CASE Crash
  <2>1. UNCHANGED <<rows, log, writes>> /\ work' = Idle
    BY <1>5 DEF Crash
  <2>2. work'.at = "idle"
    BY <2>1 DEF Idle
  <2>3. CASE work.at = "ok"
    <3>1. work # Idle
      BY <2>3 DEF Idle
    <3>2. work.id \in Change
      BY <3>1 DEF TInv, WorkType
    <3>3. writes[work.id] = 1 /\ work.id \notin ToldOf(log)
      BY <2>3, <3>1, <3>2 DEF CInv
    <3>4. ~ Complete'
      BY <2>1, <2>2, <3>2, <3>3 DEF Complete
    <3>. QED BY <3>4 DEF JInv
  <2>4. CASE work.at # "ok"
    <3>1. Complete' => Complete
      BY <2>1, <2>2 DEF Complete
    <3>2. \A s : Agrees(s) => Agrees(s)'
      BY <2>1, <2>2, <2>4 DEF Agrees
    <3>. QED BY <2>1, <3>1, <3>2, SameTelling
  <2>. QED BY <2>3, <2>4
<1>. QED BY <1>1, <1>2, <1>3, <1>4, <1>5, ExecuteJInv, RecordJInv DEF Next, vars

(* As long as the log has an entry for every write, replaying it from the     *)
(* first tables gives the tables, and each "before" was true, whatever was    *)
(* confirmed, failed or restarted (service.py, commit: the row is read before *)
(* the write, and logged after it).                                           *)
THEOREM LogReplays == Spec => []AuditReplays
<1>1. TInv /\ JInv => AuditReplays
  <2> SUFFICES ASSUME TInv, JInv, work = Idle,
                      \A c \in Change : writes[c] = 1 => c \in ToldOf(log)
               PROVE  Told.rows = rows /\ Told.true
    BY DEF AuditReplays, ToldOf
  <2>1. PICK g : Telling(log, g) /\ Told = g[Len(log)]
    BY ToldTells DEF TInv
  <2>2. Complete
    BY DEF Complete
  <2>3. Agrees(Told)
    BY <2>1, <2>2 DEF JInv
  <2>4. work.at = "idle"
    BY DEF Idle
  <2>. QED BY <2>3, <2>4 DEF Agrees
<1>. QED BY <1>1, AlwaysCInv, InitJInv, JInvStep, PTL DEF Spec
==============================================================================
