-------------------------- MODULE BillSafetyProofs --------------------------
(***************************************************************************)
(* What BillIngestion writes, for any instance: overlapping commits         *)
(* serialise and never wait for each other in a circle, each header has its *)
(* audit row, a bill is posted whole or not at all (BillLedger), what is    *)
(* created was ticked, a pass of the gate pays for one document, the mirror *)
(* file takes back what it announced too early; and, where Accepts do not   *)
(* overlap, tax ids stay unique.                                            *)
(*                                                                         *)
(* None is inductive.  DInv: a transaction which holds a header holds the   *)
(* one key above the committed ones (Top), and a key read and not yet used  *)
(* is either still that key or taken.  PostInv: what an open transaction    *)
(* has written so far is whole, was ticked, and has keys no one else has.   *)
(***************************************************************************)
EXTENDS BillIngestionProofs, FiniteSetTheorems

(* A transaction holds its header from the insert to the commit. *)
Holding == {"article", "line", "audit", "landing"}

(* The next key of Doc001, without reference to Max. *)
Top(n) ==
  /\ n \in Nat \ {0} /\ \A d \in db["Doc001"] : d.Chave < n
  /\ n = 1 \/ n - 1 \in Chaves(db["Doc001"])

HeldHeader(f) ==
  /\ pc[f] \in Holding => Chaves(tx[f]["Doc001"]) = {run[f].doc} /\ Top(run[f].doc)
  /\ pc[f] \notin Holding => tx[f]["Doc001"] = {}
HeaderKey(f) ==
  pc[f] = "document" /\ run[f].key # 0 => run[f].key \in Chaves(db["Doc001"]) \/ Top(run[f].key)
HeldAudit(f) ==
  tx[f]["BillAudit"] = IF pc[f] = "landing" THEN {AuditEntry(f, "ok")} ELSE {}

DInv ==
  /\ \A f \in Flow : HeldHeader(f) /\ HeaderKey(f) /\ HeldAudit(f)
  /\ HeadersSerialise
  /\ AuditedOnce

LEMMA TopUnique ==
  ASSUME TInv, NEW m, NEW n, Top(m), Top(n)
  PROVE  m = n
<1>1. \A k \in Chaves(db["Doc001"]) : k < m /\ k < n
  BY DEF Top, Chaves
<1>. QED BY <1>1 DEF Top

(* What _next_key reads for a header is the next key: the session itself has
   not written one. *)
LEMMA NextKeyIsTop ==
  ASSUME TInv, NEW f \in Flow, tx[f]["Doc001"] = {}
  PROVE  Top(NextKey(f, "Doc001"))
<1> DEFINE S == {0} \cup Chaves(db["Doc001"])
<1>1. "Doc001" \in KeyedTable
  BY DEF KeyedTable
<1>2. /\ NextKey(f, "Doc001") \in Nat \ {0}
      /\ \A d \in db["Doc001"] : d.Chave < NextKey(f, "Doc001")
  BY <1>1, NextKeyType
<1>3. Chaves(db["Doc001"] \cup tx[f]["Doc001"]) = Chaves(db["Doc001"])
  BY DEF Chaves
<1>4. NextKey(f, "Doc001") = Max(S) + 1
  BY <1>3 DEF NextKey
<1>5. PICK n \in Nat : \A d \in db["Doc001"] : d.Chave <= n
  BY <1>1 DEF TInv, KeysBounded
<1>6. \A d \in db["Doc001"] : d.Chave \in Nat
  BY <1>1, RowKeys DEF TInv, TypeOK
<1>7. S \subseteq Nat /\ S # {} /\ \A k \in S : k <= n
  BY <1>5, <1>6 DEF Chaves
<1>8. Max(S) \in S /\ Max(S) \in Nat
  <2>. HIDE DEF S
  <2>. QED BY <1>7, BoundedMax
<1>. DEFINE m == Max(S)
<1>9. m = 0 \/ m \in Chaves(db["Doc001"])
  BY <1>8
<1>. HIDE DEF S, m
<1>10. NextKey(f, "Doc001") = m + 1 /\ m \in Nat
  BY <1>4, <1>8 DEF m
<1>. QED BY <1>2, <1>9, <1>10 DEF Top

LEMMA InitDInv == Init => DInv
<1> SUFFICES ASSUME Init PROVE DInv
  OBVIOUS
<1>1. /\ db["Doc001"] = {} /\ db["BillAudit"] = {}
      /\ \A f \in Flow : pc[f] = "idle" /\ tx[f]["Doc001"] = {} /\ tx[f]["BillAudit"] = {}
  BY DEF Init, NoRows, Table
<1>2. \A f \in Flow : HeldHeader(f) /\ HeaderKey(f) /\ HeldAudit(f)
  BY <1>1 DEF HeldHeader, HeaderKey, HeldAudit, Holding
<1>3. HeadersSerialise /\ AuditedOnce
  BY <1>1 DEF HeadersSerialise, AuditedOnce, OkAudits, Chaves
<1>. QED BY <1>2, <1>3 DEF DInv

(* A step of flow f that commits nothing to Doc001 and BillAudit, and leaves
   every other flow's rows, place and locals alone. *)
LEMMA QuietStep ==
  ASSUME DInv, NEW f \in Flow,
         \A g \in Flow \ {f} :
            /\ pc'[g] = pc[g] /\ run'[g] = run[g] /\ req'[g] = req[g]
            /\ tx'[g]["Doc001"] = tx[g]["Doc001"]
            /\ tx'[g]["BillAudit"] = tx[g]["BillAudit"],
         db'["Doc001"] = db["Doc001"], OkAudits' = OkAudits,
         HeldHeader(f)', HeaderKey(f)', HeldAudit(f)',
         tx'[f]["Doc001"] # {} => tx[f]["Doc001"] # {} \/ \A g \in Flow \ {f} : tx[g]["Doc001"] = {}
  PROVE  DInv'
<1>1. \A n : Top(n)' <=> Top(n)
  BY DEF Top
<1>2. \A g \in Flow \ {f} : HeldHeader(g)' /\ HeaderKey(g)' /\ HeldAudit(g)'
  BY <1>1 DEF DInv, HeldHeader, HeaderKey, HeldAudit, AuditEntry
<1>3. HeadersSerialise'
  BY DEF DInv, HeadersSerialise
<1>4. AuditedOnce'
  BY DEF DInv, AuditedOnce
<1>. QED BY <1>2, <1>3, <1>4 DEF DInv

(* A step of flow f that writes nothing at all and is not at its header. *)
LEMMA IdleStep ==
  ASSUME DInv, NEW f \in Flow,
         \A g \in Flow \ {f} : pc'[g] = pc[g] /\ run'[g] = run[g] /\ req'[g] = req[g],
         UNCHANGED <<tx, db>>,
         pc[f] # "landing", pc'[f] # "landing",
         pc'[f] \in Holding <=> pc[f] \in Holding,
         pc'[f] \in Holding => run'[f].doc = run[f].doc,
         pc'[f] = "document" => run'[f].key = 0
  PROVE  DInv'
<1>1. /\ HeldHeader(f) /\ HeldAudit(f)
      /\ \A n : Top(n)' <=> Top(n)
  BY DEF DInv, Top
<1>2. HeldHeader(f)' /\ HeaderKey(f)' /\ HeldAudit(f)'
  BY <1>1 DEF HeldHeader, HeaderKey, HeldAudit
<1>3. OkAudits' = OkAudits
  BY DEF OkAudits
<1>. QED BY <1>2, <1>3, QuietStep

LEMMA UploadDInv ==
  ASSUME DInv, NEW p \in Pid, Upload(p)
  PROVE  DInv'
<1>1. UNCHANGED <<pc, run, req, tx, db>>
  BY DEF Upload, storage
<1>2. \A f \in Flow : HeldHeader(f)' /\ HeaderKey(f)' /\ HeldAudit(f)'
  BY <1>1 DEF DInv, HeldHeader, HeaderKey, HeldAudit, AuditEntry, Top
<1>. QED BY <1>1, <1>2 DEF DInv, HeadersSerialise, AuditedOnce, OkAudits

LEMMA AcceptDInv ==
  ASSUME TInv, DInv, NEW f \in Flow, NEW p \in Pid, Accept(f, p)
  PROVE  DInv'
<1>1. /\ pc[f] = "idle" /\ pc'[f] = "staging" /\ UNCHANGED <<run, tx, db>>
      /\ \A g \in Flow \ {f} : pc'[g] = pc[g] /\ req'[g] = req[g]
  BY DEF Accept, TInv, TypeOK, storage
<1>. QED BY <1>1, IdleStep DEF Holding

LEMMA StageDInv ==
  ASSUME TInv, DInv, NEW f \in Flow,
         \/ StageBegin(f) \/ StageRefuse(f) \/ StagePut(f) \/ StageOk(f) \/ StageLost(f)
  PROVE  DInv'
<1>1. /\ pc[f] \in {"staging", "checking", "warning"}
      /\ pc'[f] \in {"checking", "warning", "idle", "staged"}
      /\ UNCHANGED <<run, tx, db>>
      /\ \A g \in Flow \ {f} : pc'[g] = pc[g] /\ req'[g] = req[g]
  BY DEF StageBegin, StageRefuse, StagePut, StageOk, StageLost, Finish, TInv, TypeOK, storage
<1>. QED BY <1>1, IdleStep DEF Holding

LEMMA CommitNothingDInv ==
  ASSUME TInv, DInv, NEW f \in Flow, CommitNothing(f)
  PROVE  DInv'
<1>1. /\ pc[f] = "staged" /\ pc'[f] = "idle" /\ UNCHANGED <<run, tx, db>>
      /\ \A g \in Flow \ {f} : pc'[g] = pc[g] /\ req'[g] = req[g]
  BY DEF CommitNothing, Finish, TInv, TypeOK, storage
<1>. QED BY <1>1, IdleStep DEF Holding

LEMMA CommitBeginDInv ==
  ASSUME TInv, DInv, NEW f \in Flow, CommitBegin(f)
  PROVE  DInv'
<1>1. /\ pc[f] = "staged" /\ pc'[f] = "supplier" /\ UNCHANGED <<req, tx, db>>
      /\ \A g \in Flow \ {f} : pc'[g] = pc[g] /\ run'[g] = run[g]
  BY DEF CommitBegin, TInv, TypeOK, storage
<1>. QED BY <1>1, IdleStep DEF Holding

LEMMA ReuseDInv ==
  ASSUME TInv, DInv, NEW f \in Flow, Reuse(f)
  PROVE  DInv'
<1>1. UNCHANGED <<req, tx, db>> /\ run[f] \in RunType
  BY DEF Reuse, storage, TInv, TypeOK
<1>2. CASE pc[f] = "supplier"
  <2>1. /\ pc'[f] = "document" /\ run'[f] = [run[f] EXCEPT !.sup = Match(f).chave]
        /\ \A g \in Flow \ {f} : pc'[g] = pc[g] /\ run'[g] = run[g]
    BY <1>2 DEF Reuse, TInv, TypeOK
  <2>2. run'[f].key = run[f].key
    BY <1>1, <2>1 DEF RunType
  <2>3. Resolved(Match(f))
    BY DEF Reuse
  <2>4. run[f].key = 0
    <3>1. run[f].key # 0 => Creatable(Match(f))
      BY <1>2 DEF TInv, Located
    <3>. QED BY <2>3, <3>1 DEF Resolved, Creatable
  <2>. QED BY <1>1, <1>2, <2>1, <2>2, <2>4, IdleStep DEF Holding
<1>3. CASE pc[f] = "article"
  <2>1. /\ pc'[f] = "line" /\ run'[f] = [run[f] EXCEPT !.art = Match(f).chave]
        /\ \A g \in Flow \ {f} : pc'[g] = pc[g] /\ run'[g] = run[g]
    BY <1>3 DEF Reuse, TInv, TypeOK
  <2>2. run'[f].doc = run[f].doc
    BY <1>1, <2>1 DEF RunType
  <2>. QED BY <1>1, <1>3, <2>1, <2>2, IdleStep DEF Holding
<1>. QED BY <1>2, <1>3 DEF Reuse

LEMMA ReadKeyDInv ==
  ASSUME TInv, DInv, NEW f \in Flow, ReadKey(f)
  PROVE  DInv'
<1> DEFINE k == NextKey(f, Written[pc[f]])
<1>1. /\ UNCHANGED <<pc, req, tx, db>> /\ run[f] \in RunType
      /\ run' = [run EXCEPT ![f].key = k]
      /\ pc[f] \in {"supplier", "document", "article", "line"}
  BY DEF ReadKey, storage, TInv, TypeOK, Written
<1>2. pc[f] = "document" => Top(k)
  BY <1>1, NextKeyIsTop DEF DInv, HeldHeader, Holding, Written
<1>. HIDE DEF k
<1>3. /\ run'[f] = [run[f] EXCEPT !.key = k]
      /\ \A g \in Flow \ {f} : run'[g] = run[g]
  BY <1>1 DEF TInv, TypeOK
<1>4. run'[f].doc = run[f].doc /\ run'[f].key = k
  BY <1>1, <1>3 DEF RunType
<1>5. \A n : Top(n)' <=> Top(n)
  BY <1>1 DEF Top
<1>6. HeldHeader(f)' /\ HeldAudit(f)' /\ HeaderKey(f)'
  BY <1>1, <1>2, <1>4, <1>5 DEF DInv, HeldHeader, HeldAudit, HeaderKey
<1>7. OkAudits' = OkAudits
  BY <1>1 DEF OkAudits
<1>. QED BY <1>1, <1>3, <1>6, <1>7, QuietStep

LEMMA AnswerDInv ==
  ASSUME TInv, DInv, NEW f \in Flow, Answer(f)
  PROVE  DInv'
<1>1. /\ pc[f] = "landed" /\ pc'[f] = "idle" /\ UNCHANGED <<tx, db>>
      /\ \A g \in Flow \ {f} : pc'[g] = pc[g] /\ req'[g] = req[g] /\ run'[g] = run[g]
  BY DEF Answer, Finish, TInv, TypeOK, storage
<1>. QED BY <1>1, IdleStep DEF Holding

LEMMA RecordFailureDInv ==
  ASSUME TInv, DInv, NEW f \in Flow, RecordFailure(f)
  PROVE  DInv'
<1>1. /\ pc[f] = "failing" /\ pc'[f] = "idle" /\ UNCHANGED tx
      /\ \A g \in Flow \ {f} : pc'[g] = pc[g] /\ req'[g] = req[g] /\ run'[g] = run[g]
  BY DEF RecordFailure, Finish, TInv, TypeOK
<1>2. db'["Doc001"] = db["Doc001"] /\ OkAudits' = OkAudits
  <2>1. CASE db' = db
    BY <2>1 DEF OkAudits
  <2>2. CASE db' = [db EXCEPT !["BillAudit"] = @ \cup {AuditEntry(f, "error")}]
    <3>1. AuditEntry(f, "error").status = "error"
      BY DEF AuditEntry
    <3>2. db'["Doc001"] = db["Doc001"]
      BY <2>2
    <3>3. db'["BillAudit"] = db["BillAudit"] \cup {AuditEntry(f, "error")}
      BY <2>2 DEF TInv, TypeOK, Tables, Table
    <3>. QED BY <3>1, <3>2, <3>3 DEF OkAudits
  <2>. QED BY <2>1, <2>2 DEF RecordFailure
<1>3. HeldHeader(f)' /\ HeaderKey(f)' /\ HeldAudit(f)'
  BY <1>1 DEF DInv, HeldHeader, HeaderKey, HeldAudit, Holding
<1>. QED BY <1>1, <1>2, <1>3, QuietStep

LEMMA WithRows ==
  ASSUME TInv, NEW f \in Flow, NEW t \in Table, NEW row
  PROVE  /\ With(f, t, row)[t] = tx[f][t] \cup {row}
         /\ \A u \in Table \ {t} : With(f, t, row)[u] = tx[f][u]
<1>1. Tables(tx[f])
  BY DEF TInv, TypeOK
<1>2. DOMAIN tx[f] = Table
  <2>1. tx[f] = [u \in Table |-> tx[f][u]]
    BY <1>1 DEF Tables
  <2>2. DOMAIN [u \in Table |-> tx[f][u]] = Table
    OBVIOUS
  <2>. QED BY <2>1, <2>2, Zenon
<1>. QED BY <1>2 DEF With

(* Inserts of suppliers, articles and lines. *)
LEMMA InsertOtherDInv ==
  ASSUME TInv, DInv, NEW f \in Flow, NEW t \in {"Entidades", "Artigos", "LinDoc001"},
         NEW row, NEW r \in RunType, NEW next \in PcType, Insert(f, t, row, r, next),
         r.doc = run[f].doc, pc[f] # "landing", next # "landing",
         next \in Holding <=> pc[f] \in Holding
  PROVE  DInv'
<1>1. /\ tx' = [tx EXCEPT ![f] = With(f, t, row)]
      /\ UNCHANGED <<req, db>>
      /\ pc' = [pc EXCEPT ![f] = next]
      /\ run' = [run EXCEPT ![f] = [r EXCEPT !.key = 0]]
  BY DEF Insert, storage
<1>2. /\ tx'[f] = With(f, t, row)
      /\ \A g \in Flow \ {f} : tx'[g] = tx[g] /\ pc'[g] = pc[g] /\ run'[g] = run[g]
      /\ pc'[f] = next /\ run'[f] = [r EXCEPT !.key = 0]
  BY <1>1, TxStep DEF TInv, TypeOK
<1>3. run'[f].doc = run[f].doc /\ run'[f].key = 0
  BY <1>2 DEF RunType
<1>4. tx'[f]["Doc001"] = tx[f]["Doc001"] /\ tx'[f]["BillAudit"] = tx[f]["BillAudit"]
  BY <1>2, WithRows DEF Table
<1>5. \A n : Top(n)' <=> Top(n)
  BY <1>1 DEF Top
<1>6. HeldHeader(f)' /\ HeaderKey(f)' /\ HeldAudit(f)'
  BY <1>2, <1>3, <1>4, <1>5 DEF DInv, HeldHeader, HeaderKey, HeldAudit
<1>7. OkAudits' = OkAudits
  BY <1>1 DEF OkAudits
<1>. QED BY <1>1, <1>2, <1>4, <1>6, <1>7, QuietStep

LEMMA InsertRowsDInv ==
  ASSUME TInv, DInv, NEW f \in Flow, InsertSupplier(f) \/ InsertArticle(f) \/ InsertLine(f)
  PROVE  DInv'
<1>1. run[f] \in RunType /\ run[f].key \in Nat
  BY DEF TInv, TypeOK, RunType
<1>2. CASE InsertSupplier(f)
  <2>. DEFINE r == [run[f] EXCEPT !.sup = run[f].key]
  <2>1. r \in RunType /\ r.doc = run[f].doc
    BY <1>1 DEF RunType
  <2>2. \E row : Insert(f, "Entidades", row, r, "document")
    BY <1>2 DEF InsertSupplier
  <2>. HIDE DEF r
  <2>. QED BY <1>2, <2>1, <2>2, InsertOtherDInv DEF InsertSupplier, Holding, PcType
<1>3. CASE InsertArticle(f)
  <2>. DEFINE r == [run[f] EXCEPT !.art = run[f].key]
  <2>1. r \in RunType /\ r.doc = run[f].doc
    BY <1>1 DEF RunType
  <2>2. \E row : Insert(f, "Artigos", row, r, "line")
    BY <1>3 DEF InsertArticle
  <2>. HIDE DEF r
  <2>. QED BY <1>3, <2>1, <2>2, InsertOtherDInv DEF InsertArticle, Holding, PcType
<1>4. CASE InsertLine(f)
  <2>. DEFINE r == [run[f] EXCEPT !.at = @ + 1]
              next == IF run[f].at < Len(run[f].plan.lines) THEN "article" ELSE "audit"
  <2>1. r \in RunType /\ r.doc = run[f].doc
    BY <1>1 DEF RunType
  <2>2. \E row : Insert(f, "LinDoc001", row, r, next)
    BY <1>4 DEF InsertLine
  <2>3. next \in {"article", "audit"} /\ pc[f] = "line"
    BY <1>4 DEF InsertLine
  <2>. HIDE DEF r, next
  <2>. QED BY <2>1, <2>2, <2>3, InsertOtherDInv DEF Holding, PcType
<1>. QED BY <1>2, <1>3, <1>4

(* The header goes in where its key is still the next one: were it taken, the
   insert would fail, and were it held by another transaction, it would wait. *)
LEMMA InsertDocumentDInv ==
  ASSUME TInv, DInv, NEW f \in Flow, InsertDocument(f)
  PROVE  DInv'
<1> DEFINE r == [run[f] EXCEPT !.doc = run[f].key]
           next == IF run[f].plan.lines = <<>> THEN "audit" ELSE "article"
<1>1. /\ pc[f] = "document" /\ run[f].key # 0 /\ ~ Held(f, "Doc001") /\ ~ Clash(f, "Doc001")
      /\ tx' = [tx EXCEPT ![f] = With(f, "Doc001", Header(f))]
      /\ UNCHANGED <<req, db>>
      /\ pc' = [pc EXCEPT ![f] = next]
      /\ run' = [run EXCEPT ![f] = [r EXCEPT !.key = 0]]
  BY DEF InsertDocument, Insert, storage
<1>2. run[f] \in RunType /\ run[f].key \in Nat
  BY DEF TInv, TypeOK, RunType
<1>3. [r EXCEPT !.key = 0].doc = run[f].key
  BY <1>2 DEF RunType
<1>4. next \in {"audit", "article"}
  OBVIOUS
<1>. HIDE DEF r, next
<1>5. /\ tx'[f] = With(f, "Doc001", Header(f))
      /\ \A g \in Flow \ {f} : tx'[g] = tx[g] /\ pc'[g] = pc[g] /\ run'[g] = run[g]
      /\ pc'[f] = next /\ run'[f].doc = run[f].key
  BY <1>1, <1>3, TxStep DEF TInv, TypeOK
<1>6. tx[f]["Doc001"] = {}
  BY <1>1 DEF DInv, HeldHeader, Holding
<1>7. tx'[f]["Doc001"] = {Header(f)} /\ tx'[f]["BillAudit"] = tx[f]["BillAudit"]
  BY <1>5, <1>6, WithRows DEF Table
<1>8. Chaves(tx'[f]["Doc001"]) = {run[f].key}
  BY <1>7 DEF Chaves, Header
<1>9. Top(run[f].key)
  BY <1>1, <1>6 DEF DInv, HeaderKey, Clash
<1>10. \A g \in Flow \ {f} : tx[g]["Doc001"] = {}
  <2>1. SUFFICES ASSUME NEW g \in Flow \ {f}, tx[g]["Doc001"] # {} PROVE FALSE
    OBVIOUS
  <2>2. Chaves(tx[g]["Doc001"]) = {run[g].doc} /\ Top(run[g].doc)
    BY <2>1 DEF DInv, HeldHeader
  <2>3. run[g].doc = run[f].key
    BY <1>9, <2>2, TopUnique
  <2>. QED BY <1>1, <2>2, <2>3 DEF Held
<1>11. \A n : Top(n)' <=> Top(n)
  BY <1>1 DEF Top
<1>12. HeldHeader(f)' /\ HeaderKey(f)' /\ HeldAudit(f)'
  BY <1>1, <1>4, <1>5, <1>7, <1>8, <1>9, <1>11
     DEF DInv, HeldHeader, HeaderKey, HeldAudit, Holding
<1>13. OkAudits' = OkAudits
  BY <1>1 DEF OkAudits
<1>. QED BY <1>1, <1>5, <1>10, <1>12, <1>13, QuietStep

LEMMA AuditDInv ==
  ASSUME TInv, DInv, NEW f \in Flow, Audit(f)
  PROVE  DInv'
<1>1. /\ pc[f] = "audit" /\ UNCHANGED <<req, run, db>>
      /\ tx' = [tx EXCEPT ![f] = With(f, "BillAudit", AuditEntry(f, "ok"))]
      /\ pc' = [pc EXCEPT ![f] = "landing"]
  BY DEF Audit
<1>2. /\ tx'[f] = With(f, "BillAudit", AuditEntry(f, "ok"))
      /\ \A g \in Flow \ {f} : tx'[g] = tx[g] /\ pc'[g] = pc[g] /\ run'[g] = run[g]
      /\ pc'[f] = "landing"
  BY <1>1, TxStep DEF TInv, TypeOK
<1>3. tx[f]["BillAudit"] = {}
  BY <1>1 DEF DInv, HeldAudit
<1>4. tx'[f]["Doc001"] = tx[f]["Doc001"] /\ tx'[f]["BillAudit"] = {AuditEntry(f, "ok")}
  BY <1>2, <1>3, WithRows DEF Table
<1>5. AuditEntry(f, "ok")' = AuditEntry(f, "ok") /\ \A n : Top(n)' <=> Top(n)
  BY <1>1 DEF AuditEntry, Top
<1>6. HeldHeader(f)' /\ HeaderKey(f)' /\ HeldAudit(f)'
  BY <1>1, <1>2, <1>4, <1>5 DEF DInv, HeldHeader, HeaderKey, HeldAudit, Holding
<1>7. OkAudits' = OkAudits
  BY <1>1 DEF OkAudits
<1>. QED BY <1>1, <1>2, <1>4, <1>6, <1>7, QuietStep

LEMMA FailDInv ==
  ASSUME TInv, DInv, NEW f \in Flow, Fail(f)
  PROVE  DInv'
<1>1. /\ UNCHANGED <<req, run, db>>
      /\ tx' = [tx EXCEPT ![f] = NoRows]
      /\ pc' = [pc EXCEPT ![f] = "failing"]
  BY DEF Fail, Rollback, storage
<1>2. /\ tx'[f] = NoRows
      /\ \A g \in Flow \ {f} : tx'[g] = tx[g] /\ pc'[g] = pc[g] /\ run'[g] = run[g]
      /\ pc'[f] = "failing"
  BY <1>1, TxStep DEF TInv, TypeOK
<1>3. NoRows["Doc001"] = {} /\ NoRows["BillAudit"] = {}
  BY DEF NoRows, Table
<1>4. HeldHeader(f)' /\ HeaderKey(f)' /\ HeldAudit(f)'
  BY <1>1, <1>2, <1>3 DEF HeldHeader, HeaderKey, HeldAudit, Holding
<1>5. OkAudits' = OkAudits
  BY <1>1 DEF OkAudits
<1>. QED BY <1>1, <1>2, <1>3, <1>4, <1>5, QuietStep

(* The commit: the header becomes the last one, with the audit row that came
   with it; a key another transaction has read and not used is now taken. *)
LEMMA LandDInv ==
  ASSUME TInv, DInv, NEW f \in Flow, Land(f)
  PROVE  DInv'
<1> DEFINE a == AuditEntry(f, "ok")
           k == run[f].doc
<1>1. /\ pc[f] = "landing" /\ UNCHANGED <<req, run>>
      /\ tx' = [tx EXCEPT ![f] = NoRows]
      /\ db' = [t \in Table |-> db[t] \cup tx[f][t]]
  BY DEF Land
<1>2. /\ tx'[f] = NoRows /\ pc'[f] \in {"landed", "failing"}
      /\ \A g \in Flow \ {f} : tx'[g] = tx[g] /\ pc'[g] = pc[g]
  BY <1>1, TxStep DEF Land, TInv, TypeOK
<1>3. NoRows["Doc001"] = {} /\ NoRows["BillAudit"] = {}
  BY DEF NoRows, Table
<1>4. Chaves(tx[f]["Doc001"]) = {k} /\ Top(k) /\ tx[f]["BillAudit"] = {a}
  BY <1>1 DEF DInv, HeldHeader, HeldAudit, Holding
<1>5. tx[f]["Doc001"] # {} /\ \A d \in tx[f]["Doc001"] : d.Chave = k
  BY <1>4 DEF Chaves
<1>6. \A g \in Flow \ {f} : tx[g]["Doc001"] = {} /\ pc[g] \notin Holding
  <2>1. \A g \in Flow \ {f} : tx[g]["Doc001"] = {}
    BY <1>5 DEF DInv, HeadersSerialise
  <2>2. \A g \in Flow : pc[g] \in Holding => tx[g]["Doc001"] # {}
    BY DEF DInv, HeldHeader, Chaves
  <2>. QED BY <2>1, <2>2
<1>7. /\ db'["Doc001"] = db["Doc001"] \cup tx[f]["Doc001"]
      /\ db'["BillAudit"] = db["BillAudit"] \cup {a}
  BY <1>1, <1>4 DEF Table
<1>8. Chaves(db'["Doc001"]) = Chaves(db["Doc001"]) \cup {k}
  BY <1>4, <1>7 DEF Chaves
<1>9. a.status = "ok" /\ a.document = k
  BY DEF AuditEntry
<1>10. k \notin Chaves(db["Doc001"])
  <2>1. k \in Nat /\ \A d \in db["Doc001"] : d.Chave < k
    BY <1>4 DEF Top
  <2>2. \A d \in db["Doc001"] : d.Chave # k
    BY <2>1
  <2>. QED BY <2>2 DEF Chaves
<1>. HIDE DEF a, k
<1>11. OkAudits' = OkAudits \cup {a}
  BY <1>7, <1>9 DEF OkAudits
<1>12. AuditedOnce'
  <2>1. \A b \in OkAudits : b.document # k
    BY <1>10 DEF DInv, AuditedOnce
  <2>2. \A b \in OkAudits' : b.document \in Chaves(db'["Doc001"])
    BY <1>8, <1>9, <1>11 DEF DInv, AuditedOnce
  <2>3. ASSUME NEW d \in db'["Doc001"]
        PROVE  \E b \in OkAudits' : {c \in OkAudits' : c.document = d.Chave} = {b}
    <3>1. CASE d \in db["Doc001"]
      <4>1. d.Chave # k
        BY <1>10, <3>1 DEF Chaves
      <4>2. PICK b \in OkAudits : {c \in OkAudits : c.document = d.Chave} = {b}
        BY <3>1 DEF DInv, AuditedOnce
      <4>3. {c \in OkAudits' : c.document = d.Chave} = {b}
        BY <1>9, <1>11, <4>1, <4>2
      <4>. QED BY <1>11, <4>3
    <3>2. CASE d \in tx[f]["Doc001"]
      <4>1. d.Chave = k
        BY <1>5, <3>2 DEF k
      <4>2. {c \in OkAudits' : c.document = d.Chave} = {a}
        BY <1>9, <1>11, <2>1, <4>1
      <4>. QED BY <1>11, <4>2
    <3>. QED BY <1>7, <3>1, <3>2
  <2>. QED BY <2>2, <2>3 DEF AuditedOnce
<1>13. HeadersSerialise'
  BY <1>2, <1>3, <1>6 DEF HeadersSerialise
<1>14. HeldHeader(f)' /\ HeaderKey(f)' /\ HeldAudit(f)'
  BY <1>2, <1>3 DEF HeldHeader, HeaderKey, HeldAudit, Holding
<1>15. ASSUME NEW g \in Flow \ {f}
       PROVE  HeldHeader(g)' /\ HeaderKey(g)' /\ HeldAudit(g)'
  <2>1. HeldHeader(g)'
    BY <1>2, <1>6 DEF HeldHeader
  <2>2. HeaderKey(g)'
    <3>1. SUFFICES ASSUME pc[g] = "document", run[g].key # 0
                   PROVE  run[g].key \in Chaves(db'["Doc001"])
      BY <1>1, <1>2 DEF HeaderKey
    <3>2. run[g].key \in Chaves(db["Doc001"]) \/ Top(run[g].key)
      BY <3>1 DEF DInv, HeaderKey
    <3>3. Top(run[g].key) => run[g].key = k
      BY <1>4, TopUnique DEF k
    <3>. QED BY <1>8, <3>2, <3>3
  <2>3. HeldAudit(g)'
    BY <1>1, <1>2 DEF DInv, HeldAudit, AuditEntry
  <2>. QED BY <2>1, <2>2, <2>3
<1>. QED BY <1>12, <1>13, <1>14, <1>15 DEF DInv

LEMMA CrashDInv ==
  ASSUME TInv, DInv, Crash
  PROVE  DInv'
<1>1. /\ \A f \in Flow : pc'[f] \in {"idle", "staged"} /\ tx'[f] = NoRows
      /\ UNCHANGED db
  BY DEF Crash
<1>2. NoRows["Doc001"] = {} /\ NoRows["BillAudit"] = {}
  BY DEF NoRows, Table
<1>3. \A f \in Flow : HeldHeader(f)' /\ HeaderKey(f)' /\ HeldAudit(f)'
  BY <1>1, <1>2 DEF HeldHeader, HeaderKey, HeldAudit, Holding
<1>. QED BY <1>1, <1>2, <1>3 DEF DInv, HeadersSerialise, AuditedOnce, OkAudits

LEMMA DInvStep == TInv /\ DInv /\ [Next]_vars => DInv'
<1> SUFFICES ASSUME TInv, DInv, [Next]_vars PROVE DInv'
  OBVIOUS
<1>1. CASE \E p \in Pid : Upload(p)
  BY <1>1, UploadDInv
<1>2. CASE \E f \in Flow, p \in Pid : Accept(f, p)
  BY <1>2, AcceptDInv
<1>3. CASE \E f \in Flow : \/ StageBegin(f) \/ StageRefuse(f) \/ StagePut(f)
                           \/ StageOk(f) \/ StageLost(f)
  BY <1>3, StageDInv
<1>4. CASE \E f \in Flow : CommitBegin(f) \/ CommitNothing(f)
  BY <1>4, CommitBeginDInv, CommitNothingDInv
<1>5. CASE \E f \in Flow : Transaction(f) \/ Fail(f)
  BY <1>5, ReuseDInv, ReadKeyDInv, InsertRowsDInv, InsertDocumentDInv, AuditDInv, LandDInv,
     RecordFailureDInv, AnswerDInv, FailDInv DEF Transaction
<1>6. CASE Crash
  BY <1>6, CrashDInv
<1>7. CASE UNCHANGED vars
  BY <1>7 DEF DInv, HeldHeader, HeaderKey, HeldAudit, AuditEntry, Top, HeadersSerialise,
              AuditedOnce, OkAudits, vars, storage
<1>. QED BY <1>1, <1>2, <1>3, <1>4, <1>5, <1>6, <1>7 DEF Next

LEMMA AlwaysDInv == Spec => []DInv
  BY InitTInv, TInvStep, InitDInv, DInvStep, PTL DEF Spec

(* Every committed header has exactly one "ok" audit row and every such row *)
(* a header, whatever crashes, faults and interleavings of commits there    *)
(* are (write_executor.py, execute(): one session for both).                *)
THEOREM HeadersAudited == Spec => []AuditedOnce
<1>1. DInv => AuditedOnce
  BY DEF DInv
<1>. QED BY <1>1, AlwaysDInv, PTL

(* Two commits that overlap never both hold an uncommitted header: they read *)
(* the same MAX(Chave) and the second insert waits for the first, then fails *)
(* (write_executor.py, _next_key()).                                         *)
THEOREM CommitsSerialise == Spec => []HeadersSerialise
<1>1. DInv => HeadersSerialise
  BY DEF DInv
<1>. QED BY <1>1, AlwaysDInv, PTL

(* ---------------------- what the database ends with --------------------- *)

(* The transaction f so far: it is for one supplier, and what its header and
   its lines refer to is on record or was written by it; what it creates was
   ticked. *)
Known(f, t) == Chaves(db[t]) \cup Chaves(tx[f][t])
Whole(f) ==
  /\ pc[f] \in {"document", "article", "line", "audit", "landing"} => run[f].sup \in Known(f, "Entidades")
  /\ pc[f] = "line" => run[f].art \in Known(f, "Artigos")
  /\ pc[f] = "supplier" \/ ~ Open(f) => tx[f]["Entidades"] = {}
  /\ \A r, s \in tx[f]["Entidades"] : r = s
  /\ \A d \in tx[f]["Doc001"] : d.Entidade = run[f].sup
  /\ \A l \in tx[f]["LinDoc001"] : l.Documento = run[f].doc /\ l.ChaveProd \in Known(f, "Artigos")
  /\ pc[f] \notin Holding => tx[f]["LinDoc001"] = {} /\ tx[f]["Artigos"] = {}
Ticked(f) ==
  /\ \A r \in tx[f]["Entidades"] : <<"Entidades", [nif |-> r.nif, name |-> r.name]>> \in ticked
  /\ \A r \in tx[f]["Artigos"] : <<"Artigos", r.name>> \in ticked

(* A key is written by one transaction, once. *)
Distinct ==
  \A t \in KeyedTable : \A f \in Flow : \A r \in tx[f][t] :
     /\ r.Chave \notin Chaves(db[t])
     /\ \A g \in Flow : \A s \in tx[g][t] : r.Chave = s.Chave => g = f /\ r = s

PostInv ==
  /\ Distinct
  /\ \A f \in Flow : Whole(f) /\ Ticked(f)
  /\ CreatedAsAgreed

LEMMA InitPostInv == Init => PostInv
<1> SUFFICES ASSUME Init PROVE PostInv
  OBVIOUS
<1>1. /\ \A t \in Table : \A f \in Flow : tx[f][t] = {}
      /\ \A f \in Flow : pc[f] = "idle"
      /\ db["Entidades"] = Entidades0 /\ db["Artigos"] = Artigos0
  BY DEF Init, NoRows, Table
<1>2. Distinct
  BY <1>1 DEF Distinct, KeyedTable, Table
<1>3. \A f \in Flow : Whole(f) /\ Ticked(f)
  BY <1>1 DEF Whole, Ticked, Table
<1>4. CreatedAsAgreed
  BY <1>1 DEF CreatedAsAgreed
<1>. QED BY <1>2, <1>3, <1>4 DEF PostInv

(* A step of flow f that leaves the tables, its rows and the rest of the flows
   alone. *)
LEMMA PostFrame ==
  ASSUME PostInv, UNCHANGED <<db, tx>>, ticked \subseteq ticked',
         \A f \in Flow : Whole(f)'
  PROVE  PostInv'
<1>1. Distinct'
  BY DEF PostInv, Distinct
<1>2. \A f \in Flow : Ticked(f)'
  BY DEF PostInv, Ticked
<1>3. CreatedAsAgreed'
  BY DEF PostInv, CreatedAsAgreed
<1>. QED BY <1>1, <1>2, <1>3 DEF PostInv

(* The others' rows and places are as they were, and records are not lost. *)
LEMMA OthersWhole ==
  ASSUME PostInv, NEW f \in Flow, Grows,
         \A g \in Flow \ {f} : pc'[g] = pc[g] /\ run'[g] = run[g] /\ tx'[g] = tx[g]
  PROVE  \A g \in Flow \ {f} : Whole(g)'
<1> SUFFICES ASSUME NEW g \in Flow \ {f} PROVE Whole(g)'
  OBVIOUS
<1>1. \A t \in {"Entidades", "Artigos"} : Known(g, t) \subseteq Known(g, t)'
  BY DEF Known, Grows
<1>2. Whole(g) /\ (Open(g)' <=> Open(g))
  BY DEF PostInv, Open
<1>. QED BY <1>1, <1>2 DEF Whole

(* A step of flow f that writes no row. *)
LEMMA LocalPost ==
  ASSUME PostInv, NEW f \in Flow, UNCHANGED <<db, tx>>, ticked \subseteq ticked',
         \A g \in Flow \ {f} : pc'[g] = pc[g] /\ run'[g] = run[g],
         Whole(f)'
  PROVE  PostInv'
<1>1. Grows
  BY SameRowsGrow
<1>. QED BY <1>1, OthersWhole, PostFrame

LEMMA UploadPost ==
  ASSUME PostInv, NEW p \in Pid, Upload(p)
  PROVE  PostInv'
<1>1. UNCHANGED <<ticked, pc, run, tx, db>>
  BY DEF Upload, storage
<1>2. \A f \in Flow : Whole(f)'
  BY <1>1 DEF PostInv, Whole, Known, Open
<1>. QED BY <1>1, <1>2, PostFrame

(* Steps before a transaction and after it. *)
LEMMA OutsidePost ==
  ASSUME TInv, DInv, PostInv, NEW f \in Flow,
         \/ \E p \in Pid : Accept(f, p)
         \/ StageBegin(f) \/ StageRefuse(f) \/ StagePut(f) \/ StageOk(f) \/ StageLost(f)
         \/ CommitBegin(f) \/ CommitNothing(f) \/ Answer(f)
  PROVE  PostInv'
<1>1. /\ pc[f] \in {"idle", "staging", "checking", "warning", "staged", "landed"}
      /\ pc'[f] \in {"staging", "checking", "warning", "idle", "staged", "supplier"}
      /\ UNCHANGED <<tx, db>> /\ ticked \subseteq ticked'
      /\ \A g \in Flow \ {f} : pc'[g] = pc[g] /\ run'[g] = run[g]
  BY DEF Accept, StageBegin, StageRefuse, StagePut, StageOk, StageLost,
         CommitBegin, CommitNothing, Answer,
         Finish, TInv, TypeOK, browser, storage
<1>2. /\ tx[f]["Entidades"] = {} /\ tx[f]["LinDoc001"] = {}
      /\ tx[f]["Doc001"] = {} /\ tx[f]["Artigos"] = {}
  BY <1>1 DEF PostInv, Whole, Open, Holding, DInv, HeldHeader
<1>. QED BY <1>1, <1>2, LocalPost DEF Whole

LEMMA ReusePost ==
  ASSUME TInv, DInv, PlanInv, PostInv, NEW f \in Flow, Reuse(f)
  PROVE  PostInv'
<1>1. /\ UNCHANGED <<ticked, tx, db>> /\ run[f] \in RunType
      /\ pc[f] \in {"supplier", "article"} /\ Resolved(Match(f))
  BY DEF Reuse, browser, storage, TInv, TypeOK
<1>2. Whole(f) /\ Grounded(run[f].plan) /\ Located(f)
  BY <1>1 DEF PostInv, PlanInv, Sound, Open, TInv
<1>3. CASE pc[f] = "supplier"
  <2>1. /\ pc'[f] = "document" /\ run'[f] = [run[f] EXCEPT !.sup = Match(f).chave]
        /\ \A g \in Flow \ {f} : pc'[g] = pc[g] /\ run'[g] = run[g]
    BY <1>3 DEF Reuse, TInv, TypeOK
  <2>2. run'[f].sup = Match(f).chave
    BY <1>1, <2>1 DEF RunType
  <2>3. Match(f).chave \in Known(f, "Entidades")
    BY <1>1, <1>2, <1>3 DEF Match, Grounded, Points, Resolved, Known
  <2>4. tx[f]["Doc001"] = {}
    BY <1>3 DEF DInv, HeldHeader, Holding
  <2>5. Whole(f)'
    BY <1>1, <1>2, <1>3, <2>1, <2>2, <2>3, <2>4 DEF Whole, Open, Holding, Known
  <2>. QED BY <1>1, <2>1, <2>5, LocalPost
<1>4. CASE pc[f] = "article"
  <2>1. /\ pc'[f] = "line" /\ run'[f] = [run[f] EXCEPT !.art = Match(f).chave]
        /\ \A g \in Flow \ {f} : pc'[g] = pc[g] /\ run'[g] = run[g]
    BY <1>4 DEF Reuse, TInv, TypeOK
  <2>2. run'[f].art = Match(f).chave /\ run'[f].sup = run[f].sup /\ run'[f].doc = run[f].doc
    BY <1>1, <2>1 DEF RunType
  <2>3. Match(f).chave \in Known(f, "Artigos")
    BY <1>1, <1>2, <1>4 DEF Match, Grounded, Points, Resolved, Known, Located
  <2>4. Whole(f)'
    BY <1>1, <1>2, <1>4, <2>1, <2>2, <2>3 DEF Whole, Open, Holding, Known
  <2>. QED BY <1>1, <2>1, <2>4, LocalPost
<1>. QED BY <1>1, <1>3, <1>4

LEMMA ReadKeyPost ==
  ASSUME TInv, PostInv, NEW f \in Flow, ReadKey(f)
  PROVE  PostInv'
<1>1. /\ UNCHANGED <<ticked, tx, db, pc>> /\ run[f] \in RunType
      /\ \E k : run' = [run EXCEPT ![f] = [run[f] EXCEPT !.key = k]]
  BY DEF ReadKey, browser, storage, TInv, TypeOK
<1>2. /\ run'[f].sup = run[f].sup /\ run'[f].art = run[f].art /\ run'[f].doc = run[f].doc
      /\ \A g \in Flow \ {f} : run'[g] = run[g]
  BY <1>1 DEF TInv, TypeOK, RunType
<1>3. Whole(f)'
  BY <1>1, <1>2 DEF PostInv, Whole, Open, Known
<1>. QED BY <1>1, <1>2, <1>3, LocalPost

(* A row that goes in has a key that no one else has. *)
LEMMA InsertDistinct ==
  ASSUME TInv, Distinct, NEW f \in Flow, NEW t \in KeyedTable, NEW row,
         row.Chave = run[f].key, ~ Held(f, t), ~ Clash(f, t),
         tx' = [tx EXCEPT ![f] = With(f, t, row)], UNCHANGED db
  PROVE  Distinct'
<1>1. t \in Table /\ KeyedTable \subseteq Table
  BY DEF KeyedTable, Table
<1>2. /\ tx'[f][t] = tx[f][t] \cup {row}
      /\ \A u \in KeyedTable \ {t} : tx'[f][u] = tx[f][u]
      /\ \A g \in Flow \ {f} : tx'[g] = tx[g]
  <2>1. tx'[f] = With(f, t, row) /\ \A g \in Flow \ {f} : tx'[g] = tx[g]
    BY DEF TInv, TypeOK
  <2>2. /\ With(f, t, row)[t] = tx[f][t] \cup {row}
        /\ \A u \in Table \ {t} : With(f, t, row)[u] = tx[f][u]
    BY <1>1, WithRows
  <2>. QED BY <1>1, <2>1, <2>2
<1>3. /\ \A g \in Flow : \A s \in tx[g][t] : s.Chave # row.Chave
      /\ row.Chave \notin Chaves(db[t])
  BY DEF Held, Clash, Chaves
<1>4. ASSUME NEW u \in KeyedTable, NEW g \in Flow, NEW r \in tx'[g][u]
      PROVE  /\ r.Chave \notin Chaves(db'[u])
             /\ \A h \in Flow : \A s \in tx'[h][u] : r.Chave = s.Chave => h = g /\ r = s
  <2>1. r \in tx[g][u] \/ (g = f /\ u = t /\ r = row)
    BY <1>2
  <2>2. ASSUME NEW h \in Flow, NEW s \in tx'[h][u]
        PROVE  s \in tx[h][u] \/ (h = f /\ u = t /\ s = row)
    BY <1>2
  <2>. QED BY <1>3, <2>1, <2>2 DEF Distinct
<1>. QED BY <1>4 DEF Distinct

(* What an insert leaves to show of its own rows. *)
LEMMA InsertPost ==
  ASSUME TInv, PostInv, NEW f \in Flow, NEW t \in KeyedTable, NEW row, NEW r, NEW next,
         row.Chave = run[f].key, Insert(f, t, row, r, next),
         Whole(f)', Ticked(f)'
  PROVE  PostInv'
<1>1. /\ tx' = [tx EXCEPT ![f] = With(f, t, row)] /\ UNCHANGED <<ticked, db>>
      /\ ~ Held(f, t) /\ ~ Clash(f, t)
      /\ run' = [run EXCEPT ![f] = [r EXCEPT !.key = 0]] /\ pc' = [pc EXCEPT ![f] = next]
  BY DEF Insert, browser, storage
<1>2. Distinct'
  BY <1>1, InsertDistinct DEF PostInv
<1>3. \A g \in Flow \ {f} : pc'[g] = pc[g] /\ run'[g] = run[g] /\ tx'[g] = tx[g]
  BY <1>1, TxStep DEF TInv, TypeOK
<1>4. \A g \in Flow \ {f} : Whole(g)'
  BY <1>1, <1>3, SameRowsGrow, OthersWhole
<1>5. \A g \in Flow \ {f} : Ticked(g)'
  BY <1>1, <1>3 DEF PostInv, Ticked
<1>6. CreatedAsAgreed'
  BY <1>1 DEF PostInv, CreatedAsAgreed
<1>. QED BY <1>2, <1>4, <1>5, <1>6 DEF PostInv

LEMMA InsertSupplierPost ==
  ASSUME TInv, DInv, PlanInv, PostInv, NEW f \in Flow, InsertSupplier(f)
  PROVE  PostInv'
<1> DEFINE new == Match(f).new
           row == [Chave |-> run[f].key, nif |-> new.nif, name |-> new.name]
           r == [run[f] EXCEPT !.sup = run[f].key]
<1>1. /\ pc[f] = "supplier" /\ run[f].key # 0 /\ Insert(f, "Entidades", row, r, "document")
      /\ run[f] \in RunType /\ run[f].plan \in PlanType /\ Located(f) /\ Whole(f) /\ Ticked(f)
      /\ AgreedTo(run[f].plan)
  BY DEF InsertSupplier, Insert, TInv, TypeOK, Open, PostInv, PlanInv, Sound
<1>2. /\ tx' = [tx EXCEPT ![f] = With(f, "Entidades", row)] /\ UNCHANGED <<ticked, db>>
      /\ run' = [run EXCEPT ![f] = [r EXCEPT !.key = 0]] /\ pc' = [pc EXCEPT ![f] = "document"]
  BY <1>1 DEF Insert, browser, storage
<1>3. /\ <<"Entidades", new>> \in ticked
      /\ new \in Supplier
  <2>1. Creatable(run[f].plan.sup) /\ run[f].plan.sup \in MatchOf(Supplier)
    BY <1>1 DEF Located, Match, PlanType
  <2>. QED BY <1>1, <2>1 DEF AgreedTo, Creatable, Match, MatchOf
<1>4. /\ tx'[f]["Entidades"] = tx[f]["Entidades"] \cup {row}
      /\ \A u \in Table \ {"Entidades"} : tx'[f][u] = tx[f][u]
      /\ pc'[f] = "document"
  BY <1>2, TxStep, WithRows DEF Table, TInv, TypeOK
<1>5. run'[f] = [r EXCEPT !.key = 0]
  BY <1>2 DEF TInv, TypeOK
<1>6. run'[f].sup = run[f].key
  BY <1>1, <1>5 DEF RunType
<1>7. row.Chave = run[f].key /\ [nif |-> row.nif, name |-> row.name] = new
  BY <1>3 DEF Supplier
<1>. HIDE DEF row, new, r
<1>8. /\ tx[f]["Entidades"] = {} /\ tx[f]["LinDoc001"] = {} /\ tx[f]["Doc001"] = {}
      /\ tx[f]["Artigos"] = {}
  BY <1>1 DEF Whole, Holding, DInv, HeldHeader
<1>9. /\ tx'[f]["Entidades"] = {row}
      /\ tx'[f]["LinDoc001"] = {} /\ tx'[f]["Doc001"] = {} /\ tx'[f]["Artigos"] = tx[f]["Artigos"]
  BY <1>4, <1>8 DEF Table
<1>10. Whole(f)'
  <2>1. run'[f].sup \in Known(f, "Entidades")'
    BY <1>6, <1>7, <1>9 DEF Known, Chaves
  <2>. QED BY <1>4, <1>8, <1>9, <2>1 DEF Whole, Open
<1>11. Ticked(f)'
  BY <1>1, <1>2, <1>3, <1>7, <1>9 DEF Ticked
<1>. QED BY <1>1, <1>7, <1>10, <1>11, InsertPost DEF KeyedTable

LEMMA InsertDocumentPost ==
  ASSUME TInv, DInv, PostInv, NEW f \in Flow, InsertDocument(f)
  PROVE  PostInv'
<1> DEFINE row == Header(f)
           r == [run[f] EXCEPT !.doc = run[f].key]
           next == IF run[f].plan.lines = <<>> THEN "audit" ELSE "article"
<1>1. /\ pc[f] = "document" /\ Insert(f, "Doc001", row, r, next)
      /\ run[f] \in RunType /\ Whole(f) /\ Ticked(f)
  BY DEF InsertDocument, TInv, TypeOK, PostInv
<1>2. /\ tx' = [tx EXCEPT ![f] = With(f, "Doc001", row)] /\ UNCHANGED <<ticked, db>>
      /\ run' = [run EXCEPT ![f] = [r EXCEPT !.key = 0]] /\ pc' = [pc EXCEPT ![f] = next]
  BY <1>1 DEF Insert, browser, storage
<1>4. /\ tx'[f]["Doc001"] = tx[f]["Doc001"] \cup {row}
      /\ \A u \in Table \ {"Doc001"} : tx'[f][u] = tx[f][u]
      /\ pc'[f] = next /\ next \in {"audit", "article"}
  BY <1>2, TxStep, WithRows DEF Table, TInv, TypeOK
<1>5. run'[f] = [r EXCEPT !.key = 0]
  BY <1>2 DEF TInv, TypeOK
<1>6. run'[f].sup = run[f].sup
  BY <1>1, <1>5 DEF RunType
<1>7. row.Chave = run[f].key /\ row.Entidade = run[f].sup
  BY DEF Header
<1>. HIDE DEF row, next, r
<1>8. tx[f]["LinDoc001"] = {} /\ tx[f]["Doc001"] = {} /\ tx[f]["Artigos"] = {}
  BY <1>1 DEF Whole, Holding, DInv, HeldHeader
<1>9. /\ tx'[f]["Doc001"] = {row}
      /\ tx'[f]["LinDoc001"] = {} /\ tx'[f]["Artigos"] = tx[f]["Artigos"]
      /\ tx'[f]["Entidades"] = tx[f]["Entidades"]
  BY <1>4, <1>8 DEF Table
<1>10. Whole(f)'
  <2>1. run'[f].sup \in Known(f, "Entidades")'
    BY <1>1, <1>2, <1>6, <1>9 DEF Known, Whole
  <2>. QED BY <1>1, <1>4, <1>6, <1>7, <1>8, <1>9, <2>1 DEF Whole, Open
<1>11. Ticked(f)'
  BY <1>1, <1>2, <1>9 DEF Ticked
<1>. QED BY <1>1, <1>7, <1>10, <1>11, InsertPost DEF KeyedTable

LEMMA InsertArticlePost ==
  ASSUME TInv, DInv, PlanInv, PostInv, NEW f \in Flow, InsertArticle(f)
  PROVE  PostInv'
<1> DEFINE row == [Chave |-> run[f].key, name |-> Match(f).new]
           r == [run[f] EXCEPT !.art = run[f].key]
<1>1. /\ pc[f] = "article" /\ run[f].key # 0 /\ Insert(f, "Artigos", row, r, "line")
      /\ run[f] \in RunType /\ Located(f) /\ Whole(f) /\ Ticked(f)
      /\ AgreedTo(run[f].plan)
  BY DEF InsertArticle, Insert, TInv, TypeOK, Open, PostInv, PlanInv, Sound
<1>2. /\ tx' = [tx EXCEPT ![f] = With(f, "Artigos", row)] /\ UNCHANGED <<ticked, db>>
      /\ run' = [run EXCEPT ![f] = [r EXCEPT !.key = 0]] /\ pc' = [pc EXCEPT ![f] = "line"]
  BY <1>1 DEF Insert, browser, storage
<1>3. <<"Artigos", Match(f).new>> \in ticked
  BY <1>1 DEF Located, AgreedTo, Creatable, Match
<1>4. /\ tx'[f]["Artigos"] = tx[f]["Artigos"] \cup {row}
      /\ \A u \in Table \ {"Artigos"} : tx'[f][u] = tx[f][u]
      /\ pc'[f] = "line"
  BY <1>2, TxStep, WithRows DEF Table, TInv, TypeOK
<1>5. run'[f] = [r EXCEPT !.key = 0]
  BY <1>2 DEF TInv, TypeOK
<1>6. run'[f].sup = run[f].sup /\ run'[f].doc = run[f].doc /\ run'[f].art = run[f].key
  BY <1>1, <1>5 DEF RunType
<1>7. row.Chave = run[f].key /\ row.name = Match(f).new
  OBVIOUS
<1>. HIDE DEF row, r
<1>9. /\ tx'[f]["Doc001"] = tx[f]["Doc001"] /\ tx'[f]["LinDoc001"] = tx[f]["LinDoc001"]
      /\ tx'[f]["Entidades"] = tx[f]["Entidades"]
  BY <1>4 DEF Table
<1>10. Whole(f)'
  <2>1. /\ Known(f, "Artigos") \subseteq Known(f, "Artigos")' /\ run[f].key \in Known(f, "Artigos")'
        /\ Known(f, "Entidades")' = Known(f, "Entidades")
    BY <1>2, <1>4, <1>7, <1>9 DEF Known, Chaves
  <2>. QED BY <1>1, <1>4, <1>6, <1>9, <2>1 DEF Whole, Open, Holding
<1>11. Ticked(f)'
  BY <1>1, <1>2, <1>3, <1>4, <1>7, <1>9 DEF Ticked
<1>. QED BY <1>1, <1>7, <1>10, <1>11, InsertPost DEF KeyedTable

LEMMA InsertLinePost ==
  ASSUME TInv, DInv, PostInv, NEW f \in Flow, InsertLine(f)
  PROVE  PostInv'
<1> DEFINE row == [Chave |-> run[f].key, Documento |-> run[f].doc, ChaveProd |-> run[f].art]
           r == [run[f] EXCEPT !.at = @ + 1]
           next == IF run[f].at < Len(run[f].plan.lines) THEN "article" ELSE "audit"
<1>1. /\ pc[f] = "line" /\ Insert(f, "LinDoc001", row, r, next)
      /\ run[f] \in RunType /\ Whole(f) /\ Ticked(f)
  BY DEF InsertLine, TInv, TypeOK, PostInv
<1>2. /\ tx' = [tx EXCEPT ![f] = With(f, "LinDoc001", row)] /\ UNCHANGED <<ticked, db>>
      /\ run' = [run EXCEPT ![f] = [r EXCEPT !.key = 0]] /\ pc' = [pc EXCEPT ![f] = next]
  BY <1>1 DEF Insert, browser, storage
<1>4. /\ tx'[f]["LinDoc001"] = tx[f]["LinDoc001"] \cup {row}
      /\ \A u \in Table \ {"LinDoc001"} : tx'[f][u] = tx[f][u]
      /\ pc'[f] = next /\ next \in {"audit", "article"}
  BY <1>2, TxStep, WithRows DEF Table, TInv, TypeOK
<1>5. run'[f] = [r EXCEPT !.key = 0]
  BY <1>2 DEF TInv, TypeOK
<1>6. run'[f].sup = run[f].sup /\ run'[f].doc = run[f].doc
  BY <1>1, <1>5 DEF RunType
<1>7. row.Chave = run[f].key /\ row.Documento = run[f].doc /\ row.ChaveProd = run[f].art
  OBVIOUS
<1>. HIDE DEF row, r, next
<1>9. /\ tx'[f]["Doc001"] = tx[f]["Doc001"] /\ tx'[f]["Artigos"] = tx[f]["Artigos"]
      /\ tx'[f]["Entidades"] = tx[f]["Entidades"]
  BY <1>4 DEF Table
<1>10. Whole(f)'
  <2>1. Known(f, "Artigos")' = Known(f, "Artigos") /\ Known(f, "Entidades")' = Known(f, "Entidades")
    BY <1>2, <1>9 DEF Known
  <2>. QED BY <1>1, <1>4, <1>6, <1>7, <1>9, <2>1 DEF Whole, Open, Holding
<1>11. Ticked(f)'
  BY <1>1, <1>2, <1>9 DEF Ticked
<1>. QED BY <1>1, <1>7, <1>10, <1>11, InsertPost DEF KeyedTable

(* A step that writes no row of a keyed table, and may drop some a transaction
   has not committed. *)
LEMMA KeepPost ==
  ASSUME PostInv, UNCHANGED ticked,
         \A t \in KeyedTable : db'[t] = db[t],
         \A g \in Flow : \A t \in KeyedTable : tx'[g][t] \in {tx[g][t], {}},
         \A g \in Flow : Whole(g)'
  PROVE  PostInv'
<1>1. Distinct'
  <2>1. \A g \in Flow : \A t \in KeyedTable : tx'[g][t] \subseteq tx[g][t]
    OBVIOUS
  <2>. QED BY <2>1 DEF PostInv, Distinct
<1>2. "Entidades" \in KeyedTable /\ "Artigos" \in KeyedTable
  BY DEF KeyedTable
<1>3. \A g \in Flow : Ticked(g)'
  <2>1. \A g \in Flow : /\ tx'[g]["Entidades"] \subseteq tx[g]["Entidades"]
                        /\ tx'[g]["Artigos"] \subseteq tx[g]["Artigos"]
    BY <1>2
  <2>. QED BY <2>1 DEF PostInv, Ticked
<1>4. CreatedAsAgreed'
  BY <1>2 DEF PostInv, CreatedAsAgreed
<1>. QED BY <1>1, <1>3, <1>4 DEF PostInv

LEMMA NothingWhole ==
  ASSUME NEW f \in Flow, tx'[f] = NoRows, pc'[f] \in {"idle", "staged", "landed", "failing"}
  PROVE  Whole(f)'
  BY DEF Whole, NoRows, Table, Open, Holding

LEMMA AuditPost ==
  ASSUME TInv, PostInv, NEW f \in Flow, Audit(f)
  PROVE  PostInv'
<1>1. /\ pc[f] = "audit" /\ UNCHANGED <<ticked, run, db>>
      /\ tx' = [tx EXCEPT ![f] = With(f, "BillAudit", AuditEntry(f, "ok"))]
      /\ pc' = [pc EXCEPT ![f] = "landing"]
  BY DEF Audit, browser
<1>2. /\ pc'[f] = "landing"
      /\ \A g \in Flow \ {f} : tx'[g] = tx[g] /\ pc'[g] = pc[g] /\ run'[g] = run[g]
  BY <1>1, TxStep DEF TInv, TypeOK
<1>3. \A t \in KeyedTable : tx'[f][t] = tx[f][t]
  <2>1. "BillAudit" \in Table /\ KeyedTable \subseteq Table \ {"BillAudit"}
    BY DEF Table, KeyedTable
  <2>2. \A u \in Table \ {"BillAudit"} :
           With(f, "BillAudit", AuditEntry(f, "ok"))[u] = tx[f][u]
    BY <2>1, WithRows
  <2>3. tx'[f] = With(f, "BillAudit", AuditEntry(f, "ok"))
    BY <1>1, TxStep
  <2>. QED BY <2>1, <2>2, <2>3
<1>4. Whole(f)'
  <2>1. /\ tx'[f]["Entidades"] = tx[f]["Entidades"] /\ tx'[f]["Artigos"] = tx[f]["Artigos"]
        /\ tx'[f]["Doc001"] = tx[f]["Doc001"] /\ tx'[f]["LinDoc001"] = tx[f]["LinDoc001"]
    BY <1>3 DEF KeyedTable
  <2>2. Known(f, "Entidades")' = Known(f, "Entidades") /\ Known(f, "Artigos")' = Known(f, "Artigos")
    BY <1>1, <2>1 DEF Known
  <2>. QED BY <1>1, <1>2, <2>1, <2>2 DEF PostInv, Whole, Open, Holding
<1>5. \A g \in Flow : Whole(g)'
  BY <1>1, <1>2, <1>4, SameRowsGrow, OthersWhole
<1>. QED BY <1>1, <1>2, <1>3, <1>5, KeepPost

LEMMA FailPost ==
  ASSUME TInv, PostInv, NEW f \in Flow, Fail(f)
  PROVE  PostInv'
<1>1. /\ UNCHANGED <<ticked, run, db>> /\ tx' = [tx EXCEPT ![f] = NoRows]
      /\ pc' = [pc EXCEPT ![f] = "failing"]
  BY DEF Fail, Rollback, browser, storage
<1>2. /\ tx'[f] = NoRows /\ pc'[f] = "failing"
      /\ \A g \in Flow \ {f} : tx'[g] = tx[g] /\ pc'[g] = pc[g] /\ run'[g] = run[g]
  BY <1>1, TxStep DEF TInv, TypeOK
<1>3. \A t \in KeyedTable : tx'[f][t] = {}
  BY <1>2 DEF NoRows, Table, KeyedTable
<1>4. \A g \in Flow : Whole(g)'
  BY <1>1, <1>2, NothingWhole, SameRowsGrow, OthersWhole
<1>. QED BY <1>1, <1>2, <1>3, <1>4, KeepPost

LEMMA RecordFailurePost ==
  ASSUME TInv, DInv, PostInv, NEW f \in Flow, RecordFailure(f)
  PROVE  PostInv'
<1>1. /\ UNCHANGED <<ticked, tx>> /\ pc[f] = "failing" /\ pc'[f] = "idle"
      /\ \A g \in Flow \ {f} : pc'[g] = pc[g] /\ run'[g] = run[g]
  BY DEF RecordFailure, Finish, browser, TInv, TypeOK
<1>2. \A t \in KeyedTable : db'[t] = db[t]
  <2>1. \/ db' = [db EXCEPT !["BillAudit"] = @ \cup {AuditEntry(f, "error")}]
        \/ db' = db
    BY DEF RecordFailure
  <2>2. db = [t \in Table |-> db[t]]
    BY DEF TInv, TypeOK, Tables
  <2>. QED BY <2>1, <2>2 DEF KeyedTable, Table
<1>3. Grows
  BY <1>1, <1>2 DEF Grows, KeyedTable
<1>4. Whole(f)'
  <2>1. tx[f]["Entidades"] = {} /\ tx[f]["LinDoc001"] = {} /\ Whole(f)
    BY <1>1 DEF PostInv, Whole, Open, Holding
  <2>2. \A d \in tx[f]["Doc001"] : d.Entidade = run'[f].sup
    BY <1>1 DEF DInv, HeldHeader, Holding
  <2>. QED BY <1>1, <2>1, <2>2 DEF Whole, Open, Holding
<1>5. \A g \in Flow : Whole(g)'
  BY <1>1, <1>3, <1>4, OthersWhole
<1>. QED BY <1>1, <1>2, <1>5, KeepPost

(* What a commit leaves: its rows, no longer its own. *)
LEMMA LandRows ==
  ASSUME TInv, PostInv, NEW f \in Flow, Land(f)
  PROVE  /\ pc[f] = "landing" /\ pc'[f] \in {"landed", "failing"}
         /\ UNCHANGED <<ticked, run, req, mirror, plan, approvals>>
         /\ tx'[f] = NoRows
         /\ \A g \in Flow \ {f} : tx'[g] = tx[g] /\ pc'[g] = pc[g]
         /\ \A t \in Table : db'[t] = db[t] \cup tx[f][t]
         /\ \A t \in KeyedTable : db'[t] \ db[t] = tx[f][t]
         /\ DOMAIN db = Table /\ DOMAIN db' = Table
<1>1. /\ pc[f] = "landing" /\ UNCHANGED <<ticked, run, req, mirror, plan, approvals>>
      /\ tx' = [tx EXCEPT ![f] = NoRows]
      /\ db' = [t \in Table |-> db[t] \cup tx[f][t]]
  BY DEF Land, browser, service
<1>2. /\ tx'[f] = NoRows /\ pc'[f] \in {"landed", "failing"}
      /\ \A g \in Flow \ {f} : tx'[g] = tx[g] /\ pc'[g] = pc[g]
  BY <1>1, TxStep DEF Land, TInv, TypeOK
<1>3. KeyedTable \subseteq Table
  BY DEF KeyedTable, Table
<1>4. ASSUME NEW t \in KeyedTable PROVE db'[t] \ db[t] = tx[f][t]
  <2>1. \A r \in tx[f][t] : r \notin db[t]
    BY DEF PostInv, Distinct, Chaves
  <2>2. db'[t] = db[t] \cup tx[f][t]
    BY <1>1, <1>3
  <2>. QED BY <2>1, <2>2
<1>5. DOMAIN db = Table
  <2>1. db = [t \in Table |-> db[t]]
    BY DEF TInv, TypeOK, Tables
  <2>2. DOMAIN [t \in Table |-> db[t]] = Table
    OBVIOUS
  <2>. QED BY <2>1, <2>2, Zenon
<1>6. DOMAIN db' = Table /\ \A t \in Table : db'[t] = db[t] \cup tx[f][t]
  BY <1>1
<1>. QED BY <1>1, <1>2, <1>4, <1>5, <1>6

LEMMA LandPost ==
  ASSUME TInv, DInv, PostInv, NEW f \in Flow, Land(f)
  PROVE  PostInv'
<1>1. /\ pc'[f] \in {"landed", "failing"} /\ UNCHANGED <<ticked, run>> /\ tx'[f] = NoRows
      /\ \A g \in Flow \ {f} : tx'[g] = tx[g] /\ pc'[g] = pc[g]
      /\ \A t \in Table : db'[t] = db[t] \cup tx[f][t]
  BY LandRows
<1>2. KeyedTable \subseteq Table /\ \A t \in Table : tx'[f][t] = {}
  BY <1>1 DEF KeyedTable, Table, NoRows
<1>3. \A t \in Table : Chaves(db'[t]) = Chaves(db[t]) \cup Chaves(tx[f][t])
  BY <1>1 DEF Chaves
<1>4. Distinct'
  <2>1. ASSUME NEW t \in KeyedTable, NEW g \in Flow, NEW r \in tx'[g][t]
        PROVE  /\ r.Chave \notin Chaves(db'[t])
               /\ \A h \in Flow : \A s \in tx'[h][t] : r.Chave = s.Chave => h = g /\ r = s
    <3>1. g # f /\ r \in tx[g][t]
      BY <1>1, <1>2
    <3>2. r.Chave \notin Chaves(db[t])
      BY <3>1 DEF PostInv, Distinct
    <3>3. r.Chave \notin Chaves(tx[f][t])
      BY <3>1 DEF PostInv, Distinct, Chaves
    <3>4. \A h \in Flow : \A s \in tx'[h][t] : h # f /\ s \in tx[h][t]
      BY <1>1, <1>2
    <3>5. \A h \in Flow : \A s \in tx'[h][t] : r.Chave = s.Chave => h = g /\ r = s
      BY <3>1, <3>4 DEF PostInv, Distinct
    <3>. QED BY <1>2, <1>3, <3>2, <3>3, <3>5
  <2>. QED BY <2>1 DEF Distinct
<1>5. Grows
  BY <1>1, <1>3 DEF Grows, Table
<1>6. \A g \in Flow : Whole(g)'
  BY <1>1, <1>5, NothingWhole, OthersWhole
<1>7. \A g \in Flow : Ticked(g)'
  BY <1>1, <1>2 DEF PostInv, Ticked, Table
<1>8. CreatedAsAgreed'
  <2>1. db'["Entidades"] = db["Entidades"] \cup tx[f]["Entidades"]
        /\ db'["Artigos"] = db["Artigos"] \cup tx[f]["Artigos"]
    BY <1>1 DEF Table
  <2>. QED BY <1>1, <2>1 DEF PostInv, CreatedAsAgreed, Ticked
<1>. QED BY <1>4, <1>6, <1>7, <1>8 DEF PostInv

LEMMA CrashPost ==
  ASSUME PostInv, Crash
  PROVE  PostInv'
<1>1. /\ UNCHANGED <<ticked, db>>
      /\ \A f \in Flow : tx'[f] = NoRows /\ pc'[f] \in {"idle", "staged"}
  BY DEF Crash, browser
<1>2. \A f \in Flow : \A t \in KeyedTable : tx'[f][t] = {}
  BY <1>1 DEF NoRows, Table, KeyedTable
<1>. QED BY <1>1, <1>2, NothingWhole, KeepPost

LEMMA PostInvStep == TInv /\ DInv /\ PlanInv /\ PostInv /\ [Next]_vars => PostInv'
<1> SUFFICES ASSUME TInv, DInv, PlanInv, PostInv, [Next]_vars PROVE PostInv'
  OBVIOUS
<1>1. CASE \E p \in Pid : Upload(p)
  BY <1>1, UploadPost
<1>2. CASE \E f \in Flow : \/ \E p \in Pid : Accept(f, p)
                           \/ StageBegin(f) \/ StageRefuse(f) \/ StagePut(f) \/ StageOk(f) \/ StageLost(f)
                           \/ CommitBegin(f) \/ CommitNothing(f) \/ Answer(f)
  BY <1>2, OutsidePost
<1>3. CASE \E f \in Flow : Reuse(f) \/ ReadKey(f) \/ Audit(f) \/ Land(f) \/ RecordFailure(f) \/ Fail(f)
  BY <1>3, ReusePost, ReadKeyPost, AuditPost, LandPost, RecordFailurePost, FailPost
<1>4. CASE \E f \in Flow : InsertSupplier(f) \/ InsertDocument(f) \/ InsertArticle(f) \/ InsertLine(f)
  BY <1>4, InsertSupplierPost, InsertDocumentPost, InsertArticlePost, InsertLinePost
<1>5. CASE Crash
  BY <1>5, CrashPost
<1>6. CASE UNCHANGED vars
  <2>1. UNCHANGED <<ticked, pc, run, tx, db>>
    BY <1>6 DEF vars, browser, storage
  <2>2. \A f \in Flow : Whole(f)'
    BY <2>1 DEF PostInv, Whole, Known, Open
  <2>. QED BY <2>1, <2>2, PostFrame
<1>. QED BY <1>1, <1>2, <1>3, <1>4, <1>5, <1>6 DEF Next, Transaction

LEMMA AlwaysPost == Spec => [](TInv /\ DInv /\ PlanInv /\ PostInv)
  BY InitTInv, TInvStep, InitDInv, DInvStep, InitPlanInv, PlanInvStep, InitPostInv, PostInvStep,
     PTL DEF Spec

(* Master data appears only as an operator saw it and ticked it, whatever was *)
(* looked up again since and whichever commits overlap (service.py, _rematch: *)
(* only a match that stays "new" keeps its confirmation).                     *)
THEOREM CreationAgreed == Spec => []CreatedAsAgreed
<1>1. PostInv => CreatedAsAgreed
  BY DEF PostInv
<1>. QED BY <1>1, AlwaysPost, PTL

(* ---------------------- waiting for each other's keys ------------------- *)

(* A transaction waits for a supplier's key only before it has written one,
   for a header's only before it has one, and for others never: whoever holds
   those has a header too. *)
LEMMA WaitsUpward ==
  ASSUME DInv, PostInv, NEW f \in Flow, NEW g \in Flow, Waits(f, g)
  PROVE  \/ pc[f] = "supplier" /\ pc[g] # "supplier"
         \/ pc[f] = "document" /\ pc[g] \in Holding
<1>1. f # g /\ pc[f] \in {"supplier", "document", "article", "line"}
  BY DEF Waits, Written
<1>2. /\ pc[f] = "supplier" => tx[g]["Entidades"] # {}
      /\ pc[f] = "document" => tx[g]["Doc001"] # {}
      /\ pc[f] = "article" => tx[g]["Artigos"] # {}
      /\ pc[f] = "line" => tx[g]["LinDoc001"] # {}
  BY DEF Waits, Written, Chaves
<1>3. CASE pc[f] = "supplier"
  BY <1>2, <1>3 DEF PostInv, Whole, Open
<1>4. CASE pc[f] = "document"
  BY <1>2, <1>4 DEF DInv, HeldHeader
<1>5. CASE pc[f] \in {"article", "line"}
  <2>1. tx[f]["Doc001"] # {}
    BY <1>5 DEF DInv, HeldHeader, Holding, Chaves
  <2>2. tx[g]["Doc001"] # {}
    BY <1>2, <1>5 DEF DInv, PostInv, Whole, HeldHeader, Holding, Chaves
  <2>. QED BY <1>1, <2>1, <2>2 DEF DInv, HeadersSerialise
<1>. QED BY <1>1, <1>3, <1>4, <1>5

(* However many bills are written at once, no group of transactions waits in  *)
(* a circle: a header's key serialises those that have one, although articles *)
(* come in any order (write_executor.py, execute(): supplier, header, then    *)
(* each line with its article).                                               *)
THEOREM WaitsEnd == Spec => []NoWaitCycle
<1>1. ASSUME DInv, PostInv  PROVE NoWaitCycle
  <2> SUFFICES ASSUME NEW S \in SUBSET Flow, S # {}
               PROVE  \E f \in S : \A g \in S : ~ Waits(f, g)
    BY DEF NoWaitCycle
  <2>1. \A f, g \in S : Waits(f, g) => \/ pc[f] = "supplier" /\ pc[g] # "supplier"
                                       \/ pc[f] = "document" /\ pc[g] \in Holding
    BY <1>1, WaitsUpward
  <2>2. CASE \E f \in S : pc[f] \notin {"supplier", "document"}
    BY <2>1, <2>2
  <2>3. CASE /\ \A f \in S : pc[f] \in {"supplier", "document"}
             /\ \E f \in S : pc[f] = "document"
    BY <2>1, <2>3 DEF Holding
  <2>4. CASE \A f \in S : pc[f] = "supplier"
    BY <2>1, <2>4
  <2>. QED BY <2>2, <2>3, <2>4
<1>. QED BY <1>1, AlwaysPost, PTL

(* ------------------------- the ledger implemented ----------------------- *)

LEMMA InitLedger == Init => Ledger!Init
  BY DEF Init, Ledger!Init, NoRows, Table

LEMMA LandIsPost ==
  ASSUME TInv, DInv, PostInv, NEW f \in Flow, Land(f)
  PROVE  Ledger!Post
<1> DEFINE a == AuditEntry(f, "ok")
           k == run[f].doc
<1>1. /\ pc[f] = "landing"
      /\ \A t \in Table : db'[t] = db[t] \cup tx[f][t]
      /\ \A t \in KeyedTable : db'[t] \ db[t] = tx[f][t]
      /\ DOMAIN db = Table
  BY LandRows
<1>2. Chaves(tx[f]["Doc001"]) = {k} /\ Top(k) /\ tx[f]["BillAudit"] = {a}
  BY <1>1 DEF DInv, HeldHeader, HeldAudit, Holding
<1>3. PICK d \in tx[f]["Doc001"] : d.Chave = k
  BY <1>2 DEF Chaves
<1>4. tx[f]["Doc001"] = {d}
  <2>1. \A e \in tx[f]["Doc001"] : e.Chave = k
    BY <1>2 DEF Chaves
  <2>. QED BY <1>3, <2>1 DEF PostInv, Distinct, KeyedTable
<1>5. a.status = "ok" /\ a.document = k
  BY DEF AuditEntry
<1>6. k \notin Chaves(db["Doc001"])
  BY <1>3 DEF PostInv, Distinct, KeyedTable
<1>. HIDE DEF a, k
<1>7. a \notin db["BillAudit"]
  <2>1. SUFFICES ASSUME a \in db["BillAudit"] PROVE FALSE
    OBVIOUS
  <2>2. a \in OkAudits
    BY <1>5, <2>1 DEF OkAudits
  <2>. QED BY <1>5, <1>6, <2>2 DEF DInv, AuditedOnce
<1>8. db'["BillAudit"] \ db["BillAudit"] = {a}
  BY <1>1, <1>2, <1>7 DEF Table
<1>9. \A t \in {"Entidades", "Artigos", "Doc001", "LinDoc001"} : Ledger!NewKeys(t)
  <2>1. SUFFICES ASSUME NEW t \in KeyedTable PROVE Ledger!NewKeys(t)
    BY DEF KeyedTable
  <2>2. \A r \in tx[f][t] : r.Chave \notin Chaves(db[t])
    BY DEF PostInv, Distinct
  <2>3. \A r, s \in tx[f][t] : r.Chave = s.Chave => r = s
    BY DEF PostInv, Distinct
  <2>4. Ledger!Added(t) = tx[f][t]
    BY <1>1 DEF Ledger!Added
  <2>. QED BY <2>2, <2>3, <2>4 DEF Ledger!NewKeys, Ledger!Keys, Chaves
<1>10. Ledger!Append
  BY <1>1 DEF Ledger!Append
<1>11. \A r, s \in Ledger!Added("Entidades") : r = s
  <2>1. Ledger!Added("Entidades") = tx[f]["Entidades"]
    BY <1>1 DEF Ledger!Added, KeyedTable
  <2>2. \A r, s \in tx[f]["Entidades"] : r = s
    BY DEF PostInv, Whole
  <2>. QED BY <2>1, <2>2
<1>12. /\ Ledger!Added("Doc001") = {d} /\ Ledger!Added("LinDoc001") = tx[f]["LinDoc001"]
       /\ Ledger!Added("BillAudit") = {a}
  BY <1>1, <1>4, <1>8 DEF Ledger!Added, KeyedTable
<1>13. \A t \in {"Entidades", "Artigos"} : Known(f, t) \subseteq Ledger!Keys(db'[t])
  BY <1>1 DEF Known, Chaves, Ledger!Keys, Table
<1>14. d.Entidade \in Ledger!Keys(db'["Entidades"])
  BY <1>1, <1>3, <1>13 DEF PostInv, Whole
<1>15. \A l \in tx[f]["LinDoc001"] :
          l.Documento = d.Chave /\ l.ChaveProd \in Ledger!Keys(db'["Artigos"])
  BY <1>3, <1>13 DEF PostInv, Whole, k
<1>16. \E e \in Ledger!Added("Doc001") :
         /\ Ledger!Added("Doc001") = {e}
         /\ e.Entidade \in Ledger!Keys(db'["Entidades"])
         /\ \A l \in Ledger!Added("LinDoc001") :
              l.Documento = e.Chave /\ l.ChaveProd \in Ledger!Keys(db'["Artigos"])
         /\ \E b \in Ledger!Added("BillAudit") :
              Ledger!Added("BillAudit") = {b} /\ b.status = "ok" /\ b.document = e.Chave
  <2>. HIDE DEF Ledger!Added, Ledger!Keys
  <2>1. d \in Ledger!Added("Doc001") /\ a \in Ledger!Added("BillAudit")
    BY <1>12
  <2>2. \A l \in Ledger!Added("LinDoc001") :
           l.Documento = d.Chave /\ l.ChaveProd \in Ledger!Keys(db'["Artigos"])
    BY <1>12, <1>15
  <2>3. Ledger!Added("BillAudit") = {a} /\ a.status = "ok" /\ a.document = d.Chave
    BY <1>3, <1>5, <1>12
  <2>. QED BY <1>12, <1>14, <2>1, <2>2, <2>3
<1>. QED BY <1>9, <1>10, <1>11, <1>16 DEF Ledger!Post

LEMMA NoteIsNoted ==
  ASSUME TInv, NEW f \in Flow, RecordFailure(f)
  PROVE  Ledger!NoteFailure \/ UNCHANGED db
<1> DEFINE a == AuditEntry(f, "error")
<1>0. a.status = "error"
  BY DEF AuditEntry
<1>. HIDE DEF a
<1>1. \/ db' = [db EXCEPT !["BillAudit"] = @ \cup {a}]
      \/ db' = db
  BY DEF RecordFailure, a
<1>2. DOMAIN db = Table
  <2>1. db = [t \in Table |-> db[t]]
    BY DEF TInv, TypeOK, Tables
  <2>2. DOMAIN [t \in Table |-> db[t]] = Table
    OBVIOUS
  <2>. QED BY <2>1, <2>2, Zenon
<1>3. CASE db' = [db EXCEPT !["BillAudit"] = @ \cup {a}]
  <2>1. /\ \A t \in Table \ {"BillAudit"} : db'[t] = db[t]
        /\ db'["BillAudit"] = db["BillAudit"] \cup {a} /\ DOMAIN db' = Table
    BY <1>2, <1>3 DEF Table
  <2>2. CASE a \in db["BillAudit"]
    <3>1. \A t \in Table : db'[t] = db[t]
      BY <2>1, <2>2
    <3>2. db = [t \in Table |-> db[t]]
      BY DEF TInv, TypeOK, Tables
    <3>3. db' = [t \in Table |-> db'[t]]
      BY <1>2, <1>3
    <3>4. [t \in Table |-> db'[t]] = [t \in Table |-> db[t]]
      BY <3>1
    <3>. QED BY <3>2, <3>3, <3>4, Zenon
  <2>3. CASE a \notin db["BillAudit"]
    <3>1. Ledger!Added("BillAudit") = {a}
      BY <2>1, <2>3 DEF Ledger!Added
    <3>2. Ledger!Append
      BY <1>2, <2>1 DEF Ledger!Append
    <3>. QED BY <1>0, <1>2, <2>1, <3>1, <3>2 DEF Ledger!NoteFailure
  <2>. QED BY <2>2, <2>3
<1>. QED BY <1>1, <1>3

LEMMA NextLedger ==
  ASSUME TInv, DInv, PostInv, [Next]_vars
  PROVE  [Ledger!Next]_db
<1>1. CASE \E p \in Pid : Upload(p)
  BY <1>1 DEF Upload, storage
<1>2. CASE \E f \in Flow : \/ \E p \in Pid : Accept(f, p)
                           \/ StageBegin(f) \/ StageRefuse(f) \/ StagePut(f) \/ StageOk(f) \/ StageLost(f)
                           \/ CommitBegin(f) \/ CommitNothing(f)
  BY <1>2 DEF Accept, StageBegin, StageRefuse, StagePut, StageOk, StageLost,
         CommitBegin, CommitNothing, storage
<1>3. CASE \E f \in Flow : \/ Reuse(f) \/ ReadKey(f) \/ Audit(f) \/ Fail(f) \/ Answer(f)
                           \/ InsertSupplier(f) \/ InsertDocument(f)
                           \/ InsertArticle(f) \/ InsertLine(f)
  BY <1>3 DEF Reuse, ReadKey, Audit, Fail, Answer, InsertSupplier, InsertDocument,
              InsertArticle, InsertLine, Insert, storage
<1>4. CASE \E f \in Flow : Land(f)
  BY <1>4, LandIsPost DEF Ledger!Next
<1>5. CASE \E f \in Flow : RecordFailure(f)
  BY <1>5, NoteIsNoted DEF Ledger!Next
<1>6. CASE Crash \/ UNCHANGED vars
  BY <1>6 DEF Crash, vars, storage
<1>. QED BY <1>1, <1>2, <1>3, <1>4, <1>5, <1>6 DEF Next, Transaction

(* The service only ever posts whole bills and notes of failure, wherever a  *)
(* statement, the commit or the service itself fails (write_executor.py,     *)
(* execute() and record_failure()).                                          *)
THEOREM LedgerImplemented == Spec => ImplementsLedger
<1>1. TInv /\ DInv /\ PlanInv /\ PostInv /\ [Next]_vars => [Ledger!Next]_db
  BY NextLedger
<1>. QED BY <1>1, InitLedger, AlwaysPost, PTL DEF Spec, ImplementsLedger, Ledger!Spec

(* -------------------------- approvals are spent once -------------------- *)

(* What the approvals of a proposal have paid for so far: the documents written
   of it, and the commits under way. *)
Paid(p) == {a \in OkAudits : a.proposal = p}
Writing(p) == {f \in Flow : Open(f) /\ req[f].pid = p}
Due(p) == IF plan[p] = Absent THEN 0 ELSE 1

SpendInv ==
  \A p \in Pid :
    /\ IsFiniteSet(Paid(p)) /\ IsFiniteSet(Writing(p))
    /\ Cardinality(Paid(p)) + Cardinality(Writing(p)) + Due(p) <= approvals[p]

LEMMA InitSpend == Init => SpendInv
<1> SUFFICES ASSUME Init, NEW p \in Pid
             PROVE  /\ IsFiniteSet(Paid(p)) /\ IsFiniteSet(Writing(p))
                    /\ Cardinality(Paid(p)) + Cardinality(Writing(p)) + Due(p) <= approvals[p]
  BY DEF SpendInv
<1>1. Paid(p) = {} /\ Writing(p) = {} /\ Due(p) = 0 /\ approvals[p] = 0
  BY DEF Init, Paid, Writing, Due, OkAudits, NoRows, Table, Open
<1>. QED BY <1>1, FS_EmptySet

(* A step that writes no document and starts no commit. *)
LEMMA SpendFrame ==
  ASSUME TInv, SpendInv, UNCHANGED approvals, OkAudits' = OkAudits,
         \A p \in Pid : plan'[p] \in {plan[p], Absent},
         \A f \in Flow : Open(f)' => Open(f) /\ req'[f].pid = req[f].pid
  PROVE  SpendInv'
<1> SUFFICES ASSUME NEW p \in Pid
             PROVE  /\ IsFiniteSet(Paid(p)') /\ IsFiniteSet(Writing(p)')
                    /\ Cardinality(Paid(p)') + Cardinality(Writing(p)') + Due(p)' <= approvals'[p]
  BY DEF SpendInv
<1>1. Paid(p)' = Paid(p) /\ Writing(p)' \subseteq Writing(p)
  BY DEF Paid, Writing
<1>2. Due(p)' <= Due(p) /\ Due(p) \in Nat /\ Due(p)' \in Nat
  BY DEF Due
<1>3. /\ IsFiniteSet(Paid(p)) /\ IsFiniteSet(Writing(p))
      /\ Cardinality(Paid(p)) + Cardinality(Writing(p)) + Due(p) <= approvals[p]
      /\ approvals[p] \in Nat
  BY DEF SpendInv, TInv, TypeOK
<1>4. /\ IsFiniteSet(Writing(p)')
      /\ Cardinality(Writing(p)') <= Cardinality(Writing(p))
  BY <1>1, <1>3, FS_Subset
<1>5. /\ Cardinality(Paid(p)) \in Nat /\ Cardinality(Writing(p)) \in Nat
      /\ Cardinality(Writing(p)') \in Nat
  BY <1>3, <1>4, FS_CardinalityType
<1>. QED BY <1>1, <1>2, <1>3, <1>4, <1>5

LEMMA StagePutSpend ==
  ASSUME TInv, LatestInv, SpendInv, NEW f \in Flow, StagePut(f)
  PROVE  SpendInv'
<1> DEFINE w == PlanOf(Rematch(req[f].body))
<1>0. PICK q \in Pid : q = req[f].pid
  BY DEF StagePut, TInv, TypeOK, RequestType
<1>1. /\ pc[f] = "checking" /\ loop = f /\ UNCHANGED db
      /\ plan' = [plan EXCEPT ![q] = w] /\ approvals' = [approvals EXCEPT ![q] = @ + 1]
      /\ UNCHANGED req /\ pc' = [pc EXCEPT ![f] = "warning"]
  BY <1>0 DEF StagePut, storage
<1>2. q \in Pid /\ plan[q] = Absent
  BY <1>0, <1>1, BillConstants DEF LatestInv, TInv, TypeOK, RequestType
<1>3. /\ pc'[f] = "warning" /\ \A g \in Flow \ {f} : pc'[g] = pc[g] /\ req'[g] = req[g]
      /\ \A p \in Pid \ {q} : plan'[p] = plan[p] /\ approvals'[p] = approvals[p]
      /\ approvals'[q] = approvals[q] + 1
  BY <1>1, <1>2 DEF TInv, TypeOK
<1>4. \A p \in Pid : Paid(p)' = Paid(p) /\ Writing(p)' = Writing(p)
  BY <1>1, <1>3 DEF Paid, Writing, OkAudits, Open
<1>5. Due(q) = 0 /\ Due(q)' \in {0, 1} /\ \A p \in Pid \ {q} : Due(p)' = Due(p)
  BY <1>2, <1>3 DEF Due
<1>. HIDE DEF w
<1>6. ASSUME NEW p \in Pid
      PROVE  /\ IsFiniteSet(Paid(p)') /\ IsFiniteSet(Writing(p)')
             /\ Cardinality(Paid(p)') + Cardinality(Writing(p)') + Due(p)' <= approvals'[p]
  <2>1. /\ IsFiniteSet(Paid(p)) /\ IsFiniteSet(Writing(p)) /\ approvals[p] \in Nat
        /\ Cardinality(Paid(p)) + Cardinality(Writing(p)) + Due(p) <= approvals[p]
    BY DEF SpendInv, TInv, TypeOK
  <2>2. Cardinality(Paid(p)) \in Nat /\ Cardinality(Writing(p)) \in Nat
    BY <2>1, FS_CardinalityType
  <2>3. /\ IsFiniteSet(Paid(p)') /\ IsFiniteSet(Writing(p)')
        /\ Cardinality(Paid(p)') = Cardinality(Paid(p))
        /\ Cardinality(Writing(p)') = Cardinality(Writing(p))
    BY <1>4, <2>1, Zenon
  <2>4. CASE p = q
    BY <1>3, <1>5, <2>1, <2>2, <2>3, <2>4
  <2>5. CASE p # q
    BY <1>3, <1>5, <2>1, <2>2, <2>3, <2>5
  <2>. QED BY <2>4, <2>5
<1>. QED BY <1>6 DEF SpendInv

LEMMA CommitBeginSpend ==
  ASSUME TInv, SpendInv, NEW f \in Flow, CommitBegin(f)
  PROVE  SpendInv'
<1>0. PICK q \in Pid : q = req[f].pid
  BY DEF CommitBegin, TInv, TypeOK, RequestType
<1>1. /\ pc[f] = "staged" /\ plan[q] # Absent /\ UNCHANGED <<req, approvals, db>>
      /\ plan' = [plan EXCEPT ![q] = Absent] /\ pc' = [pc EXCEPT ![f] = "supplier"]
  BY <1>0 DEF CommitBegin, SpendPlan, storage
<1>2. q \in Pid
  OBVIOUS
<1>3. /\ pc'[f] = "supplier" /\ \A g \in Flow \ {f} : pc'[g] = pc[g]
      /\ \A p \in Pid \ {q} : plan'[p] = plan[p]
      /\ plan'[q] = Absent
  BY <1>1, <1>2 DEF TInv, TypeOK
<1>4. /\ \A p \in Pid : Paid(p)' = Paid(p)
      /\ \A p \in Pid \ {q} : Writing(p)' = Writing(p)
      /\ Writing(q)' = Writing(q) \cup {f} /\ f \notin Writing(q)
  BY <1>0, <1>1, <1>3 DEF Paid, Writing, OkAudits, Open
<1>5. Due(q) = 1 /\ Due(q)' = 0 /\ \A p \in Pid \ {q} : Due(p)' = Due(p)
  BY <1>1, <1>3 DEF Due
<1>6. ASSUME NEW p \in Pid
      PROVE  /\ IsFiniteSet(Paid(p)') /\ IsFiniteSet(Writing(p)')
             /\ Cardinality(Paid(p)') + Cardinality(Writing(p)') + Due(p)' <= approvals'[p]
  <2>1. /\ IsFiniteSet(Paid(p)) /\ IsFiniteSet(Writing(p)) /\ approvals[p] \in Nat
        /\ Cardinality(Paid(p)) + Cardinality(Writing(p)) + Due(p) <= approvals[p]
    BY DEF SpendInv, TInv, TypeOK
  <2>2. Cardinality(Paid(p)) \in Nat /\ Cardinality(Writing(p)) \in Nat
    BY <2>1, FS_CardinalityType
  <2>3. CASE p = q
    <3>1. /\ IsFiniteSet(Writing(p) \cup {f})
          /\ Cardinality(Writing(p) \cup {f}) = Cardinality(Writing(p)) + 1
      BY <1>4, <2>1, <2>3, FS_AddElement
    <3>2. /\ IsFiniteSet(Paid(p)') /\ IsFiniteSet(Writing(p)')
          /\ Cardinality(Paid(p)') = Cardinality(Paid(p))
          /\ Cardinality(Writing(p)') = Cardinality(Writing(p)) + 1
      BY <1>4, <2>1, <2>3, <3>1, Zenon
    <3>. QED BY <1>1, <1>5, <2>1, <2>2, <2>3, <3>2
  <2>4. CASE p # q
    BY <1>1, <1>4, <1>5, <2>1, <2>2, <2>4
  <2>. QED BY <2>3, <2>4
<1>. QED BY <1>6 DEF SpendInv

LEMMA LandSpend ==
  ASSUME TInv, DInv, PostInv, SpendInv, NEW f \in Flow, Land(f)
  PROVE  SpendInv'
<1> DEFINE a == AuditEntry(f, "ok")
<1>0. PICK q \in Pid : q = req[f].pid
  <2>1. pc[f] = "landing"
    BY DEF Land
  <2>. QED BY <2>1 DEF TInv, TypeOK, RequestType
<1>1. /\ pc[f] = "landing" /\ pc'[f] \in {"landed", "failing"}
      /\ UNCHANGED <<req, plan, approvals>>
      /\ \A g \in Flow \ {f} : pc'[g] = pc[g]
      /\ \A t \in Table : db'[t] = db[t] \cup tx[f][t]
  BY LandRows
<1>2. q \in Pid /\ a.proposal = q
  BY <1>0 DEF AuditEntry
<1>3. tx[f]["BillAudit"] = {a}
  BY <1>1 DEF DInv, HeldAudit
<1>4. /\ \A p \in Pid \ {q} : Paid(p)' = Paid(p) /\ Writing(p)' = Writing(p)
      /\ Paid(q)' \subseteq Paid(q) \cup {a}
      /\ Writing(q)' = Writing(q) \ {f} /\ f \in Writing(q)
  <2>. HIDE DEF a
  <2>1. db'["BillAudit"] = db["BillAudit"] \cup {a}
    BY <1>1, <1>3 DEF Table
  <2>2. \A p \in Pid \ {q} : Paid(p)' = Paid(p)
    BY <1>2, <2>1 DEF Paid, OkAudits
  <2>3. Paid(q)' \subseteq Paid(q) \cup {a}
    <3>1. OkAudits' \subseteq OkAudits \cup {a}
      BY <2>1 DEF OkAudits
    <3>. QED BY <3>1 DEF Paid
  <2>4. /\ \A p \in Pid \ {q} : Writing(p)' = Writing(p)
        /\ Writing(q)' = Writing(q) \ {f} /\ f \in Writing(q)
    BY <1>0, <1>1 DEF Writing, Open
  <2>. QED BY <2>2, <2>3, <2>4
<1>5. \A p \in Pid : Due(p)' = Due(p) /\ Due(p) \in Nat
  BY <1>1 DEF Due
<1>. HIDE DEF a
<1>6. ASSUME NEW p \in Pid
      PROVE  /\ IsFiniteSet(Paid(p)') /\ IsFiniteSet(Writing(p)')
             /\ Cardinality(Paid(p)') + Cardinality(Writing(p)') + Due(p)' <= approvals'[p]
  <2>1. /\ IsFiniteSet(Paid(p)) /\ IsFiniteSet(Writing(p)) /\ approvals[p] \in Nat
        /\ Cardinality(Paid(p)) + Cardinality(Writing(p)) + Due(p) <= approvals[p]
    BY DEF SpendInv, TInv, TypeOK
  <2>2. Cardinality(Paid(p)) \in Nat /\ Cardinality(Writing(p)) \in Nat
    BY <2>1, FS_CardinalityType
  <2>3. CASE p = q
    <3>1. /\ IsFiniteSet(Writing(p) \ {f})
          /\ Cardinality(Writing(p) \ {f}) = Cardinality(Writing(p)) - 1
      BY <1>4, <2>1, <2>3, FS_RemoveElement
    <3>2. /\ IsFiniteSet(Paid(p) \cup {a})
          /\ Cardinality(Paid(p) \cup {a}) <= Cardinality(Paid(p)) + 1
      <4>1. /\ IsFiniteSet(Paid(p) \cup {a})
            /\ Cardinality(Paid(p) \cup {a}) =
                 IF a \in Paid(p) THEN Cardinality(Paid(p)) ELSE Cardinality(Paid(p)) + 1
        BY <2>1, FS_AddElement
      <4>. QED BY <2>2, <4>1
    <3>3. /\ IsFiniteSet(Paid(p)')
          /\ Cardinality(Paid(p)') <= Cardinality(Paid(p) \cup {a})
      <4>1. Paid(p)' \in SUBSET (Paid(p) \cup {a})
        BY <1>4, <2>3
      <4>. QED BY <3>2, <4>1, FS_Subset
    <3>4. Cardinality(Paid(p)') \in Nat /\ Cardinality(Paid(p) \cup {a}) \in Nat
      BY <3>2, <3>3, FS_CardinalityType
    <3>5. /\ IsFiniteSet(Writing(p)')
          /\ Cardinality(Writing(p)') = Cardinality(Writing(p)) - 1
      BY <1>4, <2>3, <3>1, Zenon
    <3>6. approvals'[p] = approvals[p]
      BY <1>1
    <3>. QED BY <1>5, <2>1, <2>2, <3>2, <3>3, <3>4, <3>5, <3>6
  <2>4. CASE p # q
    BY <1>1, <1>4, <1>5, <2>1, <2>2, <2>4
  <2>. QED BY <2>3, <2>4
<1>. QED BY <1>6 DEF SpendInv

LEMMA SpendStep == TInv /\ DInv /\ PostInv /\ LatestInv /\ SpendInv /\ [Next]_vars => SpendInv'
<1> SUFFICES ASSUME TInv, DInv, PostInv, LatestInv, SpendInv, [Next]_vars PROVE SpendInv'
  OBVIOUS
<1>1. CASE \E p \in Pid : Upload(p)
  <2>1. UNCHANGED <<pc, req, plan, approvals, db>>
    BY <1>1 DEF Upload, storage
  <2>. QED BY <2>1, SpendFrame DEF Open, OkAudits
<1>2. CASE \E f \in Flow, p \in Pid : Accept(f, p)
  <2>1. PICK f \in Flow : \E p \in Pid : Accept(f, p)
    BY <1>2
  <2>2. /\ UNCHANGED <<plan, approvals, db>> /\ pc'[f] = "staging"
        /\ \A g \in Flow \ {f} : pc'[g] = pc[g] /\ req'[g] = req[g]
    BY <2>1 DEF Accept, service, storage, TInv, TypeOK
  <2>. QED BY <2>2, SpendFrame DEF Open, OkAudits
<1>3. CASE \E f \in Flow : StagePut(f)
  BY <1>3, StagePutSpend
<1>4. CASE \E f \in Flow : CommitBegin(f)
  BY <1>4, CommitBeginSpend
<1>5. CASE \E f \in Flow : Land(f)
  BY <1>5, LandSpend
<1>6. CASE \E f \in Flow : \/ StageBegin(f) \/ StageRefuse(f) \/ StageOk(f)
                           \/ StageLost(f) \/ CommitNothing(f)
                           \/ (Transaction(f) /\ ~ Land(f)) \/ Fail(f)
  <2>1. PICK f \in Flow : \/ StageBegin(f) \/ StageRefuse(f) \/ StageOk(f)
                          \/ StageLost(f) \/ CommitNothing(f)
                          \/ (Transaction(f) /\ ~ Land(f)) \/ Fail(f)
    BY <1>6
  <2>2. /\ \A g \in Flow \ {f} : pc'[g] = pc[g] /\ req'[g] = req[g]
        /\ pc'[f] # "idle" => req'[f].pid = req[f].pid
        /\ \A p \in Pid : plan'[p] \in {plan[p], Absent}
        /\ Open(f)' => Open(f)
    BY <2>1, OtherSteps
  <2>3. UNCHANGED approvals
    BY <2>1 DEF StageBegin, StageRefuse, StageOk, StageLost, CommitNothing, Transaction, Fail, Reuse, ReadKey,
       InsertSupplier, InsertDocument, InsertArticle, InsertLine, Insert, Audit, RecordFailure,
       Answer, service
  <2>4. OkAudits' = OkAudits
    <3>1. CASE RecordFailure(f)
      <4>1. \/ db' = [db EXCEPT !["BillAudit"] = @ \cup {AuditEntry(f, "error")}]
            \/ db' = db
        BY <3>1 DEF RecordFailure
      <4>2. AuditEntry(f, "error").status = "error"
        BY DEF AuditEntry
      <4>3. db = [t \in Table |-> db[t]]
        BY DEF TInv, TypeOK, Tables
      <4>. QED BY <4>1, <4>2, <4>3 DEF OkAudits, Table
    <3>2. CASE ~ RecordFailure(f)
      <4>1. UNCHANGED db
        BY <2>1, <3>2 DEF StageBegin, StageRefuse, StageOk, StageLost, CommitNothing, Transaction, Fail, Reuse,
           ReadKey, InsertSupplier, InsertDocument, InsertArticle, InsertLine, Insert, Audit,
           Answer, storage
      <4>. QED BY <4>1 DEF OkAudits
    <3>. QED BY <3>1, <3>2
  <2>5. \A g \in Flow : Open(g)' => Open(g) /\ req'[g].pid = req[g].pid
    BY <2>2 DEF Open
  <2>. QED BY <2>2, <2>3, <2>4, <2>5, SpendFrame
<1>7. CASE Crash
  <2>1. /\ UNCHANGED <<approvals, db>> /\ \A p \in Pid : plan'[p] = Absent
        /\ \A f \in Flow : pc'[f] \in {"staged", "idle"}
    BY <1>7 DEF Crash
  <2>. QED BY <2>1, SpendFrame DEF Open, OkAudits
<1>8. CASE UNCHANGED vars
  <2>1. UNCHANGED <<pc, req, plan, approvals, db>>
    BY <1>8 DEF vars, service, storage
  <2>. QED BY <2>1, SpendFrame DEF Open, OkAudits
<1>. QED BY <1>1, <1>2, <1>3, <1>4, <1>5, <1>6, <1>7, <1>8 DEF Next

(* A pass of the gate pays for one document at most, however many Accepts of *)
(* the same screen overlap and wherever they fail, the stage's own answer    *)
(* included (service.py, commit(): the plan is popped before it is used).    *)
THEOREM ApprovalsSpentOnce == Spec => []OneDocumentPerApproval
<1>1. SpendInv => OneDocumentPerApproval
  BY DEF SpendInv, OneDocumentPerApproval, Paid, Writing, Due
<1>. QED BY <1>1, InitLatestInv, LatestStep, InitSpend, SpendStep, AlwaysPost, PTL DEF Spec

(* ------------------------------ the mirror file -------------------------- *)

(* Every "ok" line of the file is of a document that is there, or of one that
   is about to land, or has its "error" line coming or come. *)
MirrorInv ==
  \A m \in mirror : m.status = "ok" =>
    \/ m \in OkAudits
    \/ \E f \in Flow : pc[f] = "landing" /\ m = AuditEntry(f, "ok")
    \/ \E f \in Flow : pc[f] = "failing" /\ req[f].pid = m.proposal
    \/ \E e \in mirror : e.status = "error" /\ e.proposal = m.proposal

(* A step of flow f outside of the end of its transaction. *)
LEMMA MirrorFrame ==
  ASSUME MirrorInv, NEW f \in Flow, UNCHANGED mirror, OkAudits \subseteq OkAudits',
         \A g \in Flow \ {f} : pc'[g] = pc[g] /\ req'[g] = req[g] /\ run'[g] = run[g],
         pc[f] \notin {"landing", "failing"}
  PROVE  MirrorInv'
<1> SUFFICES ASSUME NEW m \in mirror, m.status = "ok"
             PROVE  \/ m \in OkAudits'
                    \/ \E g \in Flow : pc'[g] = "landing" /\ m = AuditEntry(g, "ok")'
                    \/ \E g \in Flow : pc'[g] = "failing" /\ req'[g].pid = m.proposal
                    \/ \E e \in mirror : e.status = "error" /\ e.proposal = m.proposal
  BY DEF MirrorInv
<1>1. CASE m \in OkAudits
  BY <1>1
<1>2. ASSUME NEW g \in Flow, pc[g] = "landing", m = AuditEntry(g, "ok")
      PROVE  pc'[g] = "landing" /\ m = AuditEntry(g, "ok")'
  BY <1>2 DEF AuditEntry
<1>3. ASSUME NEW g \in Flow, pc[g] = "failing", req[g].pid = m.proposal
      PROVE  pc'[g] = "failing" /\ req'[g].pid = m.proposal
  BY <1>3
<1>. QED BY <1>1, <1>2, <1>3 DEF MirrorInv

LEMMA AuditMirror ==
  ASSUME TInv, MirrorInv, "mirror" \notin Faults, NEW f \in Flow, Audit(f)
  PROVE  MirrorInv'
<1> DEFINE a == AuditEntry(f, "ok")
<1>1. /\ pc[f] = "audit" /\ UNCHANGED <<req, run, db>> /\ mirror' = mirror \cup {a}
      /\ pc'[f] = "landing" /\ \A g \in Flow \ {f} : pc'[g] = pc[g]
  BY DEF Audit, Mirror, TInv, TypeOK
<1>2. OkAudits' = OkAudits /\ \A g \in Flow : AuditEntry(g, "ok")' = AuditEntry(g, "ok")
  BY <1>1 DEF OkAudits, AuditEntry
<1>. HIDE DEF a
<1>3. ASSUME NEW m \in mirror', m.status = "ok"
      PROVE  \/ m \in OkAudits'
             \/ \E g \in Flow : pc'[g] = "landing" /\ m = AuditEntry(g, "ok")'
             \/ \E g \in Flow : pc'[g] = "failing" /\ req'[g].pid = m.proposal
             \/ \E e \in mirror' : e.status = "error" /\ e.proposal = m.proposal
  <2>1. CASE m = a
    BY <1>1, <1>2, <2>1 DEF a
  <2>2. CASE m \in mirror
    BY <1>1, <1>2, <1>3, <2>2 DEF MirrorInv
  <2>. QED BY <1>1, <2>1, <2>2
<1>. QED BY <1>3 DEF MirrorInv

LEMMA LandMirror ==
  ASSUME TInv, DInv, PostInv, MirrorInv, NEW f \in Flow, Land(f)
  PROVE  MirrorInv'
<1> DEFINE a == AuditEntry(f, "ok")
<1>1. /\ pc[f] = "landing" /\ UNCHANGED <<req, run, mirror>>
      /\ \A g \in Flow \ {f} : pc'[g] = pc[g]
      /\ \A t \in Table : db'[t] = db[t] \cup tx[f][t]
  BY LandRows
<1>2. tx[f]["BillAudit"] = {a} /\ a.status = "ok"
  BY <1>1 DEF DInv, HeldAudit, AuditEntry
<1>3. \A g \in Flow : AuditEntry(g, "ok")' = AuditEntry(g, "ok")
  BY <1>1 DEF AuditEntry
<1>. HIDE DEF a
<1>4. OkAudits \subseteq OkAudits' /\ a \in OkAudits'
  BY <1>1, <1>2 DEF OkAudits, Table
<1>5. ASSUME NEW m \in mirror, m.status = "ok"
      PROVE  \/ m \in OkAudits'
             \/ \E g \in Flow : pc'[g] = "landing" /\ m = AuditEntry(g, "ok")'
             \/ \E g \in Flow : pc'[g] = "failing" /\ req'[g].pid = m.proposal
             \/ \E e \in mirror : e.status = "error" /\ e.proposal = m.proposal
  <2>1. ASSUME NEW g \in Flow, pc[g] = "landing", m = AuditEntry(g, "ok")
        PROVE  m \in OkAudits' \/ (pc'[g] = "landing" /\ m = AuditEntry(g, "ok")')
    BY <1>1, <1>3, <1>4, <2>1 DEF a
  <2>2. ASSUME NEW g \in Flow, pc[g] = "failing", req[g].pid = m.proposal
        PROVE  pc'[g] = "failing" /\ req'[g].pid = m.proposal
    BY <1>1, <2>2
  <2>. QED BY <1>4, <1>5, <2>1, <2>2 DEF MirrorInv
<1>. QED BY <1>1, <1>5 DEF MirrorInv

LEMMA FailMirror ==
  ASSUME TInv, MirrorInv, NEW f \in Flow, Fail(f)
  PROVE  MirrorInv'
<1>1. /\ UNCHANGED <<req, run, db, mirror>> /\ pc'[f] = "failing"
      /\ \A g \in Flow \ {f} : pc'[g] = pc[g]
  BY DEF Fail, storage, TInv, TypeOK
<1>2. OkAudits' = OkAudits /\ \A g \in Flow : AuditEntry(g, "ok")' = AuditEntry(g, "ok")
  BY <1>1 DEF OkAudits, AuditEntry
<1>3. AuditEntry(f, "ok").proposal = req[f].pid
  BY DEF AuditEntry
<1>4. ASSUME NEW m \in mirror, m.status = "ok"
      PROVE  \/ m \in OkAudits'
             \/ \E g \in Flow : pc'[g] = "landing" /\ m = AuditEntry(g, "ok")'
             \/ \E g \in Flow : pc'[g] = "failing" /\ req'[g].pid = m.proposal
             \/ \E e \in mirror : e.status = "error" /\ e.proposal = m.proposal
  <2>1. ASSUME NEW g \in Flow, pc[g] = "landing", m = AuditEntry(g, "ok")
        PROVE  \/ pc'[g] = "landing" /\ m = AuditEntry(g, "ok")'
               \/ pc'[g] = "failing" /\ req'[g].pid = m.proposal
    BY <1>1, <1>2, <1>3, <2>1
  <2>2. ASSUME NEW g \in Flow, pc[g] = "failing", req[g].pid = m.proposal
        PROVE  pc'[g] = "failing" /\ req'[g].pid = m.proposal
    BY <1>1, <2>2
  <2>. QED BY <1>2, <1>4, <2>1, <2>2 DEF MirrorInv
<1>. QED BY <1>1, <1>4 DEF MirrorInv

LEMMA RecordFailureMirror ==
  ASSUME TInv, MirrorInv, "mirror" \notin Faults, NEW f \in Flow, RecordFailure(f)
  PROVE  MirrorInv'
<1> DEFINE a == AuditEntry(f, "error")
<1>1. /\ pc[f] = "failing" /\ mirror' = mirror \cup {a}
      /\ \A g \in Flow \ {f} : pc'[g] = pc[g] /\ req'[g] = req[g] /\ run'[g] = run[g]
  BY DEF RecordFailure, Finish, Mirror, TInv, TypeOK
<1>2. OkAudits \subseteq OkAudits'
  <2>1. db["BillAudit"] \subseteq db'["BillAudit"]
    <3>1. \/ db' = [db EXCEPT !["BillAudit"] = @ \cup {a}]
          \/ db' = db
      BY DEF RecordFailure
    <3>2. db = [t \in Table |-> db[t]]
      BY DEF TInv, TypeOK, Tables
    <3>. QED BY <3>1, <3>2 DEF Table
  <2>. QED BY <2>1 DEF OkAudits
<1>3. a.status = "error" /\ a.proposal = req[f].pid
  BY DEF AuditEntry
<1>4. \A g \in Flow \ {f} : AuditEntry(g, "ok")' = AuditEntry(g, "ok")
  BY <1>1 DEF AuditEntry
<1>. HIDE DEF a
<1>5. ASSUME NEW m \in mirror', m.status = "ok"
      PROVE  \/ m \in OkAudits'
             \/ \E g \in Flow : pc'[g] = "landing" /\ m = AuditEntry(g, "ok")'
             \/ \E g \in Flow : pc'[g] = "failing" /\ req'[g].pid = m.proposal
             \/ \E e \in mirror' : e.status = "error" /\ e.proposal = m.proposal
  <2>0. m \in mirror
    BY <1>1, <1>3, <1>5
  <2>1. ASSUME NEW g \in Flow, pc[g] = "landing", m = AuditEntry(g, "ok")
        PROVE  pc'[g] = "landing" /\ m = AuditEntry(g, "ok")'
    BY <1>1, <1>4, <2>1
  <2>2. ASSUME NEW g \in Flow, pc[g] = "failing", req[g].pid = m.proposal
        PROVE  \/ pc'[g] = "failing" /\ req'[g].pid = m.proposal
               \/ \E e \in mirror' : e.status = "error" /\ e.proposal = m.proposal
    BY <1>1, <1>3, <2>2
  <2>3. \A e \in mirror : e \in mirror'
    BY <1>1
  <2>4. \/ m \in OkAudits
        \/ \E g \in Flow : pc[g] = "landing" /\ m = AuditEntry(g, "ok")
        \/ \E g \in Flow : pc[g] = "failing" /\ req[g].pid = m.proposal
        \/ \E e \in mirror : e.status = "error" /\ e.proposal = m.proposal
    BY <1>5, <2>0 DEF MirrorInv
  <2>. QED BY <1>2, <2>1, <2>2, <2>3, <2>4
<1>. QED BY <1>5 DEF MirrorInv

MirrorWhole == crashes = 0 => MirrorInv

LEMMA MirrorStep ==
  ASSUME "mirror" \notin Faults
  PROVE  TInv /\ DInv /\ PostInv /\ MirrorWhole /\ [Next]_vars => MirrorWhole'
<1> SUFFICES ASSUME TInv, DInv, PostInv, MirrorWhole, [Next]_vars PROVE MirrorWhole'
  OBVIOUS
<1>1. CASE Crash
  <2>1. crashes \in Nat /\ crashes' = crashes + 1
    BY <1>1 DEF Crash, TInv, TypeOK
  <2>. QED BY <2>1 DEF MirrorWhole
<1>2. CASE UNCHANGED vars
  <2>1. UNCHANGED <<mirror, pc, req, run, db, crashes>>
    BY <1>2 DEF vars, storage
  <2>. QED BY <2>1 DEF MirrorWhole, MirrorInv, OkAudits, AuditEntry
<1>3. CASE \E p \in Pid : Upload(p)
  <2>1. UNCHANGED <<mirror, pc, req, run, db, crashes>>
    BY <1>3 DEF Upload, storage
  <2>. QED BY <2>1 DEF MirrorWhole, MirrorInv, OkAudits, AuditEntry
<1>4. CASE \E f \in Flow : Audit(f) \/ Land(f) \/ Fail(f) \/ RecordFailure(f)
  <2>1. UNCHANGED crashes
    BY <1>4 DEF Audit, Land, Fail, RecordFailure
  <2>. QED BY <1>4, <2>1, AuditMirror, LandMirror, FailMirror, RecordFailureMirror DEF MirrorWhole
<1>5. CASE \E f \in Flow :
             \/ \E p \in Pid : Accept(f, p)
             \/ StageBegin(f) \/ StageRefuse(f) \/ StagePut(f) \/ StageOk(f) \/ StageLost(f)
             \/ CommitBegin(f) \/ CommitNothing(f)
             \/ Reuse(f) \/ ReadKey(f) \/ InsertSupplier(f) \/ InsertDocument(f)
             \/ InsertArticle(f) \/ InsertLine(f) \/ Answer(f)
  <2>1. PICK f \in Flow :
             \/ \E p \in Pid : Accept(f, p)
             \/ StageBegin(f) \/ StageRefuse(f) \/ StagePut(f) \/ StageOk(f) \/ StageLost(f)
             \/ CommitBegin(f) \/ CommitNothing(f)
             \/ Reuse(f) \/ ReadKey(f) \/ InsertSupplier(f) \/ InsertDocument(f)
             \/ InsertArticle(f) \/ InsertLine(f) \/ Answer(f)
    BY <1>5
  <2>2. UNCHANGED <<db, mirror, crashes>>
    BY <2>1 DEF Accept, StageBegin, StageRefuse, StagePut, StageOk, StageLost,
         CommitBegin, CommitNothing, Reuse,
       ReadKey, InsertSupplier, InsertDocument, InsertArticle, InsertLine, Insert, Answer, storage
  <2>3. pc[f] \notin {"landing", "failing"}
    BY <2>1 DEF Accept, StageBegin, StageRefuse, StagePut, StageOk, StageLost,
         CommitBegin, CommitNothing, Reuse,
       ReadKey, InsertSupplier, InsertDocument, InsertArticle, InsertLine, Answer, Written
  <2>4. \A g \in Flow \ {f} : pc'[g] = pc[g] /\ req'[g] = req[g] /\ run'[g] = run[g]
    BY <2>1, OtherSteps DEF Accept, StagePut, CommitBegin, Transaction, TInv, TypeOK
  <2>. QED BY <2>2, <2>3, <2>4, MirrorFrame DEF MirrorWhole, OkAudits
<1>. QED BY <1>1, <1>2, <1>3, <1>4, <1>5 DEF Next, Transaction

(* As long as the service has not stopped and the file takes every line, the  *)
(* file alone never ends with a document that the ERP does not have           *)
(* (write_executor.py, execute(): the "ok" line precedes the commit;          *)
(* record_failure(): an "error" line follows where it failed).                *)
THEOREM MirrorRetracted ==
  ASSUME "mirror" \notin Faults
  PROVE  Spec => [](crashes = 0 => MirrorRetracts)
<1>1. Init => MirrorWhole
  BY DEF Init, MirrorWhole, MirrorInv
<1>2. MirrorWhole => (crashes = 0 => MirrorRetracts)
  BY DEF MirrorWhole, MirrorInv, MirrorRetracts, AuditEntry
<1>3. TInv /\ DInv /\ PlanInv /\ PostInv /\ MirrorWhole /\ [Next]_vars => MirrorWhole'
  BY MirrorStep
<1>. QED BY <1>1, <1>2, <1>3, AlwaysPost, PTL DEF Spec

(* --------------------- one Accept at a time ----------------------------- *)

(* Accepts that do not overlap. *)
Solo == \A f, g \in Flow : f = g

(* Where a step neither puts a plan, starts on it nor lands it, what is
   staged or being written was so before, and the database says the same. *)
LEMMA QuietSteps ==
  ASSUME TInv, [Next]_vars,
         ~ \E f \in Flow : StagePut(f) \/ CommitBegin(f) \/ Land(f)
  PROVE  /\ \A t \in KeyedTable : db'[t] = db[t]
         /\ \A f \in Flow : pc'[f] \in {"warning", "staged"} =>
              /\ pc[f] \in {"warning", "staged"} /\ req'[f].pid = req[f].pid
              /\ plan'[req[f].pid] \in {plan[req[f].pid], Absent}
         /\ \A f \in Flow : Open(f)' => Open(f) /\ run'[f].plan = run[f].plan
<1>0. \A f \in Flow : pc[f] # "idle" => req[f].pid \in Pid
  BY DEF TInv, TypeOK, RequestType
<1>1. CASE \E p \in Pid : Upload(p)
  <2>1. UNCHANGED <<pc, req, plan, run, db>>
    BY <1>1 DEF Upload, storage
  <2>. QED BY <2>1 DEF Open
<1>2. CASE \E f \in Flow, p \in Pid : Accept(f, p)
  <2>1. PICK f \in Flow : \E p \in Pid : Accept(f, p)
    BY <1>2
  <2>2. /\ UNCHANGED <<plan, run, db>> /\ pc'[f] = "staging"
        /\ \A g \in Flow \ {f} : pc'[g] = pc[g] /\ req'[g] = req[g]
    BY <2>1 DEF Accept, service, storage, TInv, TypeOK
  <2>. QED BY <2>2 DEF Open
<1>3. CASE \E f \in Flow : \/ StageBegin(f) \/ StageRefuse(f) \/ StageOk(f)
                           \/ StageLost(f) \/ CommitNothing(f) \/ Transaction(f) \/ Fail(f)
  <2>1. PICK f \in Flow : \/ StageBegin(f) \/ StageRefuse(f) \/ StageOk(f)
                          \/ StageLost(f) \/ CommitNothing(f) \/ Transaction(f) \/ Fail(f)
    BY <1>3
  <2>2. /\ \A g \in Flow \ {f} : pc'[g] = pc[g] /\ req'[g] = req[g] /\ run'[g] = run[g]
        /\ pc'[f] # "idle" => pc[f] # "idle" /\ req'[f].pid = req[f].pid
        /\ \A p \in Pid : plan'[p] \in {plan[p], Absent}
        /\ Open(f)' => Open(f) /\ run'[f].plan = run[f].plan
    BY <2>1, OtherSteps
  <2>3. \A t \in KeyedTable : db'[t] = db[t]
    <3>1. CASE RecordFailure(f)
      <4>1. \/ db' = [db EXCEPT !["BillAudit"] = @ \cup {AuditEntry(f, "error")}]
            \/ db' = db
        BY <3>1 DEF RecordFailure
      <4>2. db = [t \in Table |-> db[t]]
        BY DEF TInv, TypeOK, Tables
      <4>. QED BY <4>1, <4>2 DEF KeyedTable, Table
    <3>2. CASE ~ RecordFailure(f)
      BY <2>1, <3>2 DEF StageBegin, StageRefuse, StageOk, StageLost, CommitNothing, Transaction, Fail, Reuse,
         ReadKey, InsertSupplier, InsertDocument, InsertArticle, InsertLine, Insert, Audit,
         Answer, storage
    <3>. QED BY <3>1, <3>2
  <2>4. pc'[f] \in {"warning", "staged"} => pc[f] \in {"warning", "staged"}
    BY <2>1 DEF StageBegin, StageRefuse, StageOk, StageLost, CommitNothing, Transaction, Fail, Reuse, ReadKey,
       InsertSupplier, InsertDocument, InsertArticle, InsertLine, Insert, Audit, RecordFailure,
       Answer, Finish, Written, TInv, TypeOK
  <2>5. ASSUME NEW g \in Flow, pc'[g] \in {"warning", "staged"}
        PROVE  /\ pc[g] \in {"warning", "staged"} /\ req'[g].pid = req[g].pid
               /\ plan'[req[g].pid] \in {plan[req[g].pid], Absent}
    BY <1>0, <2>2, <2>4, <2>5
  <2>6. ASSUME NEW g \in Flow, Open(g)'
        PROVE  Open(g) /\ run'[g].plan = run[g].plan
    BY <2>2, <2>6 DEF Open
  <2>. QED BY <2>3, <2>5, <2>6
<1>4. CASE Crash
  <2>1. /\ UNCHANGED db /\ \A p \in Pid : plan'[p] = Absent
        /\ \A f \in Flow : pc'[f] = IF pc[f] = "staged" THEN pc[f] ELSE "idle"
        /\ \A f \in Flow : req'[f] = IF pc[f] = "staged" THEN req[f] ELSE Absent
    BY <1>4 DEF Crash
  <2>. QED BY <1>0, <2>1 DEF Open
<1>5. CASE UNCHANGED vars
  <2>1. UNCHANGED <<pc, req, plan, run, db>>
    BY <1>5 DEF vars, service, storage
  <2>. QED BY <2>1 DEF Open
<1>. QED BY <1>1, <1>2, <1>3, <1>4, <1>5 DEF Next

(* The supplier a plan is to create has a tax id nobody has. *)
Clean(w) ==
  w.sup.status = "new" /\ w.sup.new.nif # NoNif =>
    \A r \in db["Entidades"] : r.nif # w.sup.new.nif

NifInv ==
  /\ OneSupplierPerNif
  /\ \A f \in Flow :
       /\ pc[f] \in {"warning", "staged"} /\ plan[req[f].pid] # Absent => Clean(plan[req[f].pid])
       /\ Open(f) => Clean(run[f].plan)
       /\ \A r \in tx[f]["Entidades"] :
            run[f].plan.sup.status = "new" /\ r.nif = run[f].plan.sup.new.nif

LEMMA AgreedClean ==
  ASSUME TInv, OneSupplierPerNif, NEW b \in ProposalType
  PROVE  Clean(PlanOf(Rematch(b)))
<1> DEFINE s == b.bill.sup
           now == MatchSupplier(s)
           w == PlanOf(Rematch(b))
<1>1. s \in Supplier /\ w.sup = Renewed(b.sup, now)
  BY DEF ProposalType, Bill, PlanOf, Rematch
<1>. HIDE DEF s, now
<1>2. SUFFICES ASSUME w.sup.status = "new", w.sup.new.nif # NoNif,
                      NEW r \in db["Entidades"], r.nif = w.sup.new.nif
               PROVE  FALSE
  BY DEF Clean
<1>3. now.status = "new" /\ w.sup = [now EXCEPT !.confirmed = b.sup.confirmed]
  BY <1>1, <1>2 DEF Renewed, KeepConfirmation
<1>4. now = New(s)
  BY <1>1, <1>3, MatchPoints DEF now
<1>5. w.sup.new = s
  BY <1>3, <1>4 DEF New
<1> DEFINE same == {e \in db["Entidades"] : s.nif # NoNif /\ e.nif = s.nif}
<1>6. same = {r}
  BY <1>2, <1>5 DEF OneSupplierPerNif
<1>7. Cardinality(same) = 1
  BY <1>6, FS_Singleton
<1>8. now = Resolve(same, s)
  BY <1>7 DEF now, MatchSupplier
<1>. HIDE DEF same
<1>9. Resolve(same, s).status = "matched"
  BY <1>6, <1>7 DEF Resolve, Matched
<1>. QED BY <1>3, <1>8, <1>9

(* Only the insert of the supplier adds one to a transaction. *)
LEMMA SupplierRows ==
  ASSUME TInv, [Next]_vars, NEW f \in Flow, ~ InsertSupplier(f), Solo
  PROVE  tx'[f]["Entidades"] \in {tx[f]["Entidades"], {}}
<1>0. \A g \in Flow : g = f
  BY DEF Solo
<1>1. CASE \E g \in Flow, p \in Pid : Accept(g, p)
  BY <1>1 DEF Accept
<1>2. CASE \E g \in Flow : \/ StageBegin(g) \/ StageRefuse(g) \/ StagePut(g) \/ StageOk(g) \/ StageLost(g)
                           \/ CommitBegin(g) \/ CommitNothing(g)
                           \/ Reuse(g) \/ ReadKey(g) \/ Answer(g) \/ RecordFailure(g)
  BY <1>2 DEF StageBegin, StageRefuse, StagePut, StageOk, StageLost,
         CommitBegin, CommitNothing, Reuse, ReadKey,
              Answer, RecordFailure
<1>3. CASE (\E p \in Pid : Upload(p)) \/ UNCHANGED vars
  BY <1>3 DEF Upload, vars
<1>4. CASE \E g \in Flow : InsertDocument(g) \/ InsertArticle(g) \/ InsertLine(g) \/ Audit(g)
  <2>1. PICK t, row : t \in Table \ {"Entidades"} /\ tx' = [tx EXCEPT ![f] = With(f, t, row)]
    BY <1>0, <1>4 DEF InsertDocument, InsertArticle, InsertLine, Insert, Audit, Table
  <2>2. tx'[f] = With(f, t, row)
    BY <2>1, TxStep
  <2>3. "Entidades" \in Table \ {t}
    BY <2>1 DEF Table
  <2>4. With(f, t, row)["Entidades"] = tx[f]["Entidades"]
    BY <2>1, <2>3, WithRows
  <2>. QED BY <2>2, <2>4
<1>5. CASE Crash \/ \E g \in Flow : Land(g) \/ Fail(g)
  <2>1. tx'[f] = NoRows
    BY <1>0, <1>5, TxStep DEF Crash, Land, Fail, Rollback
  <2>. QED BY <2>1 DEF NoRows, Table
<1>. QED BY <1>0, <1>1, <1>2, <1>3, <1>4, <1>5 DEF Next, Transaction

LEMMA NifStep ==
  ASSUME Solo
  PROVE  TInv /\ DInv /\ PlanInv /\ PostInv /\ NifInv /\ [Next]_vars => NifInv'
<1> SUFFICES ASSUME TInv, DInv, PlanInv, PostInv, NifInv, [Next]_vars PROVE NifInv'
  OBVIOUS
<1>1. CASE \E f \in Flow : StagePut(f)
  <2>1. PICK f \in Flow : StagePut(f)
    BY <1>1
  <2> DEFINE w == PlanOf(Rematch(req[f].body))
  <2>2. /\ pc[f] = "checking" /\ pc'[f] = "warning" /\ UNCHANGED <<db, tx, req>>
        /\ plan'[req[f].pid] = w /\ req[f] \in RequestType
    <3>1. /\ pc[f] = "checking" /\ req[f] \in RequestType /\ req[f].pid \in Pid
      BY <2>1 DEF StagePut, TInv, TypeOK, RequestType
    <3>3. pc'[f] = "warning" /\ UNCHANGED <<db, tx, req>> /\ plan'[req[f].pid] = w
      BY <2>1, <3>1 DEF StagePut, TInv, TypeOK, storage
    <3>. HIDE DEF w
    <3>. QED BY <3>1, <3>3
  <2>3. Clean(w)
    BY <2>2, AgreedClean DEF NifInv, RequestType
  <2>. HIDE DEF w
  <2>4. Clean(plan[req[f].pid])'
    BY <2>2, <2>3 DEF Clean
  <2>5. tx[f]["Entidades"] = {}
    BY <2>2 DEF PostInv, Whole, Open
  <2>6. \A g \in Flow : g = f
    BY <2>1 DEF Solo
  <2>7. OneSupplierPerNif'
    BY <2>2 DEF NifInv, OneSupplierPerNif
  <2>. QED BY <2>2, <2>4, <2>5, <2>6, <2>7 DEF NifInv, Open
<1>2. CASE \E f \in Flow : CommitBegin(f)
  <2>1. PICK f \in Flow : CommitBegin(f)
    BY <1>2
  <2>2. /\ pc[f] = "staged" /\ plan[req[f].pid] # Absent /\ UNCHANGED <<db, tx>>
        /\ pc'[f] = "supplier" /\ run'[f].plan = plan[req[f].pid]
    BY <2>1 DEF CommitBegin, storage, Stopped, TInv, TypeOK
  <2>3. Clean(run[f].plan)'
    BY <2>2 DEF NifInv, Clean
  <2>4. tx[f]["Entidades"] = {}
    BY <2>2 DEF PostInv, Whole, Open
  <2>5. \A g \in Flow : g = f
    BY <2>1 DEF Solo
  <2>6. OneSupplierPerNif'
    BY <2>2 DEF NifInv, OneSupplierPerNif
  <2>. QED BY <2>2, <2>3, <2>4, <2>5, <2>6 DEF NifInv
<1>3. CASE \E f \in Flow : Land(f)
  <2>1. PICK f \in Flow : Land(f)
    BY <1>3
  <2>2. /\ pc[f] = "landing" /\ pc'[f] \in {"landed", "failing"} /\ tx'[f] = NoRows
        /\ \A t \in Table : db'[t] = db[t] \cup tx[f][t]
    BY <2>1, LandRows
  <2>3. db'["Entidades"] = db["Entidades"] \cup tx[f]["Entidades"] /\ tx'[f]["Entidades"] = {}
    BY <2>2 DEF Table, NoRows
  <2>4. ASSUME NEW r \in tx[f]["Entidades"], r.nif # NoNif, NEW s \in db["Entidades"]
        PROVE  r.nif # s.nif
    BY <2>2, <2>4 DEF NifInv, Clean, Open
  <2>5. \A r, s \in tx[f]["Entidades"] : r = s
    BY DEF PostInv, Whole
  <2>6. OneSupplierPerNif'
    BY <2>3, <2>4, <2>5 DEF NifInv, OneSupplierPerNif
  <2>7. \A g \in Flow : g = f
    BY <2>1 DEF Solo
  <2>. QED BY <2>2, <2>3, <2>6, <2>7 DEF NifInv, Open
<1>4. CASE ~ \E f \in Flow : StagePut(f) \/ CommitBegin(f) \/ Land(f)
  <2>1. /\ db'["Entidades"] = db["Entidades"]
        /\ \A f \in Flow : pc'[f] \in {"warning", "staged"} =>
             /\ pc[f] \in {"warning", "staged"} /\ req'[f].pid = req[f].pid
             /\ plan'[req[f].pid] \in {plan[req[f].pid], Absent}
        /\ \A f \in Flow : Open(f)' => Open(f) /\ run'[f].plan = run[f].plan
    BY <1>4, QuietSteps DEF KeyedTable
  <2>2. \A w : Clean(w)' <=> Clean(w)
    BY <2>1 DEF Clean
  <2>3. OneSupplierPerNif'
    BY <2>1 DEF NifInv, OneSupplierPerNif
  <2>4. ASSUME NEW f \in Flow, NEW r \in tx'[f]["Entidades"]
        PROVE  run'[f].plan.sup.status = "new" /\ r.nif = run'[f].plan.sup.new.nif
    <3>1. CASE InsertSupplier(f)
      <4>1. /\ pc[f] = "supplier" /\ run[f].key # 0 /\ pc'[f] = "document"
            /\ tx' = [tx EXCEPT ![f] = With(f, "Entidades",
                 [Chave |-> run[f].key, nif |-> run[f].plan.sup.new.nif, name |-> run[f].plan.sup.new.name])]
        BY <3>1 DEF InsertSupplier, Insert, Match, TInv, TypeOK
      <4>2. Open(f)' /\ run'[f].plan = run[f].plan
        BY <2>1, <4>1 DEF Open
      <4>3. tx'[f]["Entidades"] = tx[f]["Entidades"] \cup
              {[Chave |-> run[f].key, nif |-> run[f].plan.sup.new.nif, name |-> run[f].plan.sup.new.name]}
        <5> DEFINE row == [Chave |-> run[f].key, nif |-> run[f].plan.sup.new.nif,
                           name |-> run[f].plan.sup.new.name]
        <5>1. tx' = [tx EXCEPT ![f] = With(f, "Entidades", row)] /\ "Entidades" \in Table
          BY <4>1 DEF Table
        <5>. HIDE DEF row
        <5>2. tx'[f] = With(f, "Entidades", row)
          BY <5>1, TxStep
        <5>3. With(f, "Entidades", row)["Entidades"] = tx[f]["Entidades"] \cup {row}
          BY <5>1, WithRows
        <5>. QED BY <5>2, <5>3 DEF row
      <4>4. run[f].plan.sup.status = "new"
        BY <4>1 DEF TInv, Located, Creatable, Match
      <4>. QED BY <4>2, <4>3, <4>4 DEF NifInv
    <3>2. CASE ~ InsertSupplier(f)
      <4>1. r \in tx[f]["Entidades"]
        BY <3>2, SupplierRows
      <4>2. PostInv'
        BY PostInvStep
      <4>3. Open(f)'
        BY <4>2 DEF PostInv, Whole
      <4>. QED BY <2>1, <4>1, <4>3 DEF NifInv
    <3>. QED BY <3>1, <3>2
  <2>. QED BY <2>1, <2>2, <2>3, <2>4 DEF NifInv
<1>. QED BY <1>1, <1>2, <1>3, <1>4

(* Where Accepts do not overlap and the ERP has one supplier per tax id to    *)
(* begin with, it stays so (service.py, _rematch(): "new" is looked up again  *)
(* before it is written).                                                     *)
THEOREM SuppliersStayUnique ==
  ASSUME Solo,
         \A r, s \in Entidades0 : r.nif = s.nif /\ r.nif # NoNif => r = s
  PROVE  Spec => []OneSupplierPerNif
<1>1. Init => NifInv
  BY DEF Init, NifInv, OneSupplierPerNif, NoRows, Table, Open
<1>2. NifInv => OneSupplierPerNif
  BY DEF NifInv
<1>3. TInv /\ DInv /\ PlanInv /\ PostInv /\ NifInv /\ [Next]_vars => NifInv'
  BY NifStep
<1>. QED BY <1>1, <1>2, <1>3, AlwaysPost, PTL DEF Spec
=============================================================================
