------------------------ MODULE BillIngestionProofs ------------------------
(***************************************************************************)
(* Types, keys and plans of BillIngestion, for any number of proposals and  *)
(* Accepts, any bills, any faults and any bounds.                           *)
(***************************************************************************)
EXTENDS BillIngestion, TLAPS, WellFoundedInduction

(* A set of naturals with an upper bound has a greatest element, if any.    *)
LEMMA BoundedMax ==
  ASSUME NEW S, S \subseteq Nat, S # {}, NEW n \in Nat, \A k \in S : k <= n
  PROVE  Max(S) \in S /\ \A k \in S : k <= Max(S)
<1> DEFINE T == {m \in Nat : \A k \in S : k <= m}
<1>1. IsWellFoundedOn(OpToRel(<, Nat), Nat)
  BY NatLessThanWellFounded
<1>2. PICK x \in T : \A y \in T : ~ (<<y, x>> \in OpToRel(<, Nat))
  <2>1. T \subseteq Nat /\ T # {}
    OBVIOUS
  <2>. HIDE DEF T
  <2>. QED BY <1>1, <2>1, WFMin
<1>3. \A y \in T : ~ (y < x)
  BY <1>2 DEF OpToRel
<1>4. x \in S
  <2>1. SUFFICES ASSUME x \notin S PROVE FALSE
    OBVIOUS
  <2>0. PICK k \in S : TRUE
    OBVIOUS
  <2>2. x - 1 \in Nat
    BY <2>0, <2>1
  <2>3. x - 1 \in T
    BY <2>1, <2>2
  <2>. QED BY <2>3, <2>2, <1>3
<1>5. \E y \in S : \A k \in S : y >= k
  BY <1>4
<1>. QED BY <1>5 DEF Max

(* ------------------------------- types -------------------------------- *)

KeyedTable == {"Entidades", "Doc001", "Artigos", "LinDoc001"}

(* Some natural number is above every key in use. *)
KeysBounded ==
  \E n \in Nat : \A t \in KeyedTable :
     /\ \A r \in db[t] : r.Chave <= n
     /\ \A f \in Flow : \A r \in tx[f][t] : r.Chave <= n

(* What an open transaction has resolved so far is a real key, a key is read
   only where something is to be inserted, and no line is beyond the plan's. *)
Located(f) ==
  /\ pc[f] \in {"supplier", "document"} => run[f].at = 1
  /\ pc[f] \in {"document", "article", "line", "audit", "landing"} => run[f].sup # 0
  /\ pc[f] \in {"article", "line", "audit", "landing"} => run[f].doc # 0
  /\ pc[f] = "line" => run[f].art # 0
  /\ pc[f] \in {"article", "line"} => run[f].at \in DOMAIN run[f].plan.lines
  /\ pc[f] \in {"supplier", "article"} /\ run[f].key # 0 => Creatable(Match(f))

TInv == TypeOK /\ KeysBounded /\ \A f \in Flow : Located(f)

LEMMA ResolveType ==
  ASSUME NEW rows, NEW V, NEW value \in V, \A r \in rows : r.Chave \in Nat
  PROVE  Resolve(rows, value) \in MatchOf(V)
<1>1. CASE rows = {}
  BY <1>1 DEF Resolve, MatchOf, New
<1>2. CASE rows # {} /\ Cardinality(rows) = 1
  <2>1. (CHOOSE r \in rows : TRUE) \in rows
    BY <1>2
  <2>. QED BY <1>2, <2>1 DEF Resolve, MatchOf, Matched
<1>3. CASE rows # {} /\ Cardinality(rows) # 1
  BY <1>3 DEF Resolve, MatchOf, Ambiguous, Chaves
<1>. QED BY <1>1, <1>2, <1>3

LEMMA MatchSupplierType ==
  ASSUME Tables(db), NEW s \in Supplier
  PROVE  MatchSupplier(s) \in MatchOf(Supplier)
<1>1. \A r \in db["Entidades"] : r.Chave \in Nat
  BY DEF Tables
<1>. QED BY <1>1, ResolveType DEF MatchSupplier, NamedLike

LEMMA MatchLineType ==
  ASSUME Tables(db), NEW text \in Text
  PROVE  MatchLine(text) \in MatchOf(Text)
<1>1. \A r \in db["Artigos"] : r.Chave \in Nat
  BY DEF Tables
<1>. QED BY <1>1, ResolveType DEF MatchLine, NamedLike

LEMMA ProposalTypeOK ==
  ASSUME Tables(db), NEW b \in Bill
  PROVE  Proposal(b) \in ProposalType
<1>1. b.sup \in Supplier /\ b.lines \in Seq(Text)
  BY DEF Bill
<1>2. MatchSupplier(b.sup) \in MatchOf(Supplier)
  BY <1>1, MatchSupplierType
<1>3. [i \in DOMAIN b.lines |-> MatchLine(b.lines[i])] \in Seq(MatchOf(Text))
  <2>1. \A i \in DOMAIN b.lines : MatchLine(b.lines[i]) \in MatchOf(Text)
    BY <1>1, MatchLineType
  <2>. QED BY <1>1, <2>1
<1>. QED BY <1>2, <1>3 DEF Proposal, ProposalType

LEMMA BlankedType ==
  ASSUME NEW b \in Bill
  PROVE  Blanked(b) \in Bill
  BY DEF Blanked, Bill, Supplier

LEMMA EditedType ==
  ASSUME NEW V, NEW m \in MatchOf(V)
  PROVE  Edited(m) \subseteq MatchOf(V)
<1>1. \A c \in m.candidates : [m EXCEPT !.status = "matched", !.chave = c] \in MatchOf(V)
  BY DEF MatchOf
<1>2. \A b \in BOOLEAN : [m EXCEPT !.confirmed = b] \in MatchOf(V)
  BY DEF MatchOf
<1>. QED BY <1>1, <1>2 DEF Edited

LEMMA EditsType ==
  ASSUME NEW p \in ProposalType, NEW e \in Edits(p)
  PROVE  e \in ProposalType
<1>1. PICK b \in Typed, s \in Edited(p.sup),
           ls \in {l \in [DOMAIN p.lines -> UNION {Edited(p.lines[i]) : i \in DOMAIN p.lines}] :
                   \A i \in DOMAIN p.lines : l[i] \in Edited(p.lines[i])} :
        e = [bill |-> b, sup |-> s, lines |-> ls]
  BY DEF Edits
<1>2. b \in Bill
  BY BillConstants
<1>3. s \in MatchOf(Supplier)
  BY EditedType DEF ProposalType
<1>4. ls \in Seq(MatchOf(Text))
  <2>1. p.lines \in Seq(MatchOf(Text))
    BY DEF ProposalType
  <2>2. \A i \in DOMAIN p.lines : p.lines[i] \in MatchOf(Text)
    BY <2>1
  <2>3. \A i \in DOMAIN p.lines : ls[i] \in MatchOf(Text)
    BY <2>2, EditedType
  <2>4. DOMAIN p.lines = 1..Len(p.lines) /\ Len(p.lines) \in Nat
    BY <2>1
  <2>5. ls = [i \in 1..Len(p.lines) |-> ls[i]]
    BY <2>4
  <2>. QED BY <2>3, <2>4, <2>5
<1>. QED BY <1>1, <1>2, <1>3, <1>4 DEF ProposalType

LEMMA RenewedType ==
  ASSUME NEW V, NEW old \in MatchOf(V), NEW now \in MatchOf(V)
  PROVE  Renewed(old, now) \in MatchOf(V)
  BY DEF Renewed, KeepConfirmation, MatchOf

LEMMA RematchType ==
  ASSUME Tables(db), NEW p \in ProposalType, Len(p.bill.lines) = Len(p.lines)
  PROVE  Rematch(p) \in ProposalType
<1>1. /\ p.bill \in Bill /\ p.bill.sup \in Supplier /\ p.bill.lines \in Seq(Text)
      /\ p.sup \in MatchOf(Supplier) /\ p.lines \in Seq(MatchOf(Text))
  BY DEF ProposalType, Bill
<1>2. Renewed(p.sup, MatchSupplier(p.bill.sup)) \in MatchOf(Supplier)
  BY <1>1, MatchSupplierType, RenewedType
<1>3. \A i \in DOMAIN p.lines :
        Renewed(p.lines[i], MatchLine(p.bill.lines[i])) \in MatchOf(Text)
  <2>1. \A i \in DOMAIN p.lines : p.lines[i] \in MatchOf(Text) /\ p.bill.lines[i] \in Text
    BY <1>1
  <2>. QED BY <2>1, MatchLineType, RenewedType
<1>4. [i \in DOMAIN p.lines |-> Renewed(p.lines[i], MatchLine(p.bill.lines[i]))]
        \in Seq(MatchOf(Text))
  BY <1>1, <1>3
<1>. QED BY <1>1, <1>2, <1>4 DEF Rematch, ProposalType

LEMMA MatchType ==
  ASSUME TInv, NEW f \in Flow
  PROVE  /\ pc[f] = "supplier" => Match(f) \in MatchOf(Supplier)
         /\ pc[f] = "article" => Match(f) \in MatchOf(Text)
<1>1. CASE pc[f] = "supplier"
  <2>1. run[f].plan \in PlanType
    BY <1>1 DEF TInv, TypeOK, Open
  <2>. QED BY <1>1, <2>1 DEF Match, PlanType
<1>2. CASE pc[f] = "article"
  <2>1. run[f].plan \in PlanType /\ run[f].at \in DOMAIN run[f].plan.lines
    BY <1>2 DEF TInv, TypeOK, Open, Located
  <2>2. run[f].plan.lines \in Seq(MatchOf(Text))
    BY <2>1 DEF PlanType
  <2>. QED BY <1>2, <2>1, <2>2 DEF Match
<1>. QED BY <1>1, <1>2

LEMMA RowKeys ==
  ASSUME NEW rows, Tables(rows), NEW t \in KeyedTable, NEW r \in rows[t]
  PROVE  r.Chave \in Nat \ {0}
<1>1. CASE t = "Entidades"  BY <1>1 DEF Tables
<1>2. CASE t = "Doc001"     BY <1>2 DEF Tables
<1>3. CASE t = "Artigos"    BY <1>3 DEF Tables
<1>4. CASE t = "LinDoc001"  BY <1>4 DEF Tables
<1>. QED BY <1>1, <1>2, <1>3, <1>4 DEF KeyedTable

LEMMA NextKeyType ==
  ASSUME TInv, NEW f \in Flow, NEW t \in KeyedTable
  PROVE  /\ NextKey(f, t) \in Nat \ {0}
         /\ \A r \in db[t] \cup tx[f][t] : r.Chave < NextKey(f, t)
<1> DEFINE S == {0} \cup Chaves(db[t] \cup tx[f][t])
<1>1. PICK n \in Nat : \A r \in db[t] \cup tx[f][t] : r.Chave <= n
  BY DEF TInv, KeysBounded
<1>2. \A r \in db[t] \cup tx[f][t] : r.Chave \in Nat
  BY RowKeys DEF TInv, TypeOK
<1>3. S \subseteq Nat /\ S # {} /\ \A k \in S : k <= n
  BY <1>1, <1>2 DEF Chaves
<1>4. Max(S) \in S /\ \A k \in S : k <= Max(S)
  <2>. HIDE DEF S
  <2>. QED BY <1>3, BoundedMax
<1>5. NextKey(f, t) = Max(S) + 1
  BY DEF NextKey
<1>6. \A r \in db[t] \cup tx[f][t] : r.Chave \in S
  BY DEF Chaves
<1>. DEFINE m == Max(S)
<1>7. m \in Nat /\ \A r \in db[t] \cup tx[f][t] : r.Chave <= m
  <2>. HIDE DEF S
  <2>. QED BY <1>3, <1>4, <1>6
<1>. HIDE DEF m
<1>8. NextKey(f, t) = m + 1
  BY <1>5 DEF m
<1>. QED BY <1>2, <1>7, <1>8

(* A step that leaves the transactions and the tables alone. *)
LEMMA KeysUnchanged ==
  ASSUME KeysBounded, UNCHANGED <<tx, db>>
  PROVE  KeysBounded'
  BY DEF KeysBounded

LEMMA InitTInv == Init => TInv
<1> SUFFICES ASSUME Init PROVE TInv
  OBVIOUS
<1>1. Tables(NoRows)
  BY DEF Tables, NoRows, Table
<1>2. /\ db = [t \in Table |-> db[t]]
      /\ db["Entidades"] = Entidades0 /\ db["Artigos"] = Artigos0
      /\ db["Doc001"] = {} /\ db["LinDoc001"] = {} /\ db["BillAudit"] = {}
  BY DEF Init, NoRows, Table
<1>3. /\ \A r \in Entidades0 : r \in [Chave : Nat \ {0}, nif : Nif \cup {NoNif}, name : Text]
      /\ \A r \in Artigos0 : r \in [Chave : Nat \ {0}, name : Text]
      /\ \A r \in Entidades0 \cup Artigos0 : r.Chave <= LastChave
  <2>1. 1..LastChave \subseteq Nat \ {0} /\ \A k \in 1..LastChave : k <= LastChave
    BY BillConstants
  <2>2. \A r \in Entidades0 : r \in [Chave : 1..LastChave, nif : Nif \cup {NoNif}, name : Text]
    BY BillConstants
  <2>3. \A r \in Artigos0 : r \in [Chave : 1..LastChave, name : Text]
    BY BillConstants
  <2>. QED BY <2>1, <2>2, <2>3
<1>4. Tables(db)
  BY <1>2, <1>3 DEF Tables
<1>5. TypeOK
  <2>1. tx = [f \in Flow |-> tx[f]] /\ \A f \in Flow : tx[f] = NoRows
    BY DEF Init
  <2>. QED BY <1>1, <1>4, <2>1 DEF Init, TypeOK, PcType, RunType, Stopped, Open
<1>6. KeysBounded
  <2>1. \A t \in KeyedTable : /\ \A r \in db[t] : r.Chave <= LastChave
                             /\ \A f \in Flow : tx[f][t] = {}
    BY <1>2, <1>3 DEF KeyedTable, Init, NoRows, Table
  <2>. QED BY <2>1, BillConstants DEF KeysBounded
<1>7. \A f \in Flow : Located(f)
  BY DEF Init, Located
<1>. QED BY <1>5, <1>6, <1>7 DEF TInv

LEMMA UploadTInv ==
  ASSUME TInv, NEW p \in Pid, Upload(p)
  PROVE  TInv'
<1>1. screen' \in [Pid -> ProposalType \cup {Absent}]
  <2>1. PICK b \in Extracted : screen' = [screen EXCEPT ![p] = Proposal(Blanked(b))]
    BY DEF Upload
  <2>2. b \in Bill
    BY BillConstants
  <2>3. Proposal(Blanked(b)) \in ProposalType
    BY <2>2, BlankedType, ProposalTypeOK DEF TInv, TypeOK
  <2>. QED BY <2>1, <2>3 DEF TInv, TypeOK
<1>2. TypeOK'
  BY <1>1 DEF TInv, TypeOK, Upload, Open, storage
<1>3. KeysBounded'
  BY KeysUnchanged DEF TInv, Upload, storage
<1>4. \A f \in Flow : Located(f)'
  BY DEF TInv, Upload, Located, Match
<1>. QED BY <1>2, <1>3, <1>4 DEF TInv

LEMMA AcceptTInv ==
  ASSUME TInv, NEW f \in Flow, NEW p \in Pid, Accept(f, p)
  PROVE  TInv'
<1>1. PICK e \in Edits(screen[p]) :
        /\ screen' = [screen EXCEPT ![p] = e]
        /\ req' = [req EXCEPT ![f] = [pid |-> p, body |-> e, warned |-> FALSE]]
  BY DEF Accept
<1>2. e \in ProposalType
  <2>1. screen[p] \in ProposalType
    BY DEF TInv, TypeOK, Accept
  <2>. QED BY <1>1, <2>1, EditsType
<1>3. req'[f] \in RequestType /\ req' \in [Flow -> RequestType \cup {Absent}]
  BY <1>1, <1>2 DEF TInv, TypeOK, RequestType
<1>4. TypeOK'
  <2>1. /\ screen' \in [Pid -> ProposalType \cup {Absent}]
        /\ pc' \in [Flow -> PcType] /\ clicks' \in Nat
    BY <1>1, <1>2 DEF TInv, TypeOK, Accept, PcType
  <2>2. \A g \in Flow : pc'[g] # "idle" => req'[g] \in RequestType
    BY <1>1, <1>3 DEF TInv, TypeOK, Accept
  <2>3. \A g \in Flow : Open(g)' => run'[g].plan \in PlanType
    BY DEF TInv, TypeOK, Accept, Open
  <2>4. UNCHANGED <<service, run, tx, storage, crashes>>
    BY DEF Accept
  <2>. QED BY <1>3, <2>1, <2>2, <2>3, <2>4 DEF TInv, TypeOK, service, storage
<1>5. KeysBounded'
  BY KeysUnchanged DEF TInv, Accept, storage
<1>6. \A g \in Flow : Located(g)'
  BY DEF TInv, TypeOK, Accept, Located, Match
<1>. QED BY <1>4, <1>5, <1>6 DEF TInv

(* What a step on flow f must show of f when the tables stay as they are: the
   other flows keep their request, their place and their locals. *)
LEMMA FlowStep ==
  ASSUME TInv, NEW f \in Flow,
         \A g \in Flow \ {f} : pc'[g] = pc[g] /\ req'[g] = req[g] /\ run'[g] = run[g],
         pc' \in [Flow -> PcType], req' \in [Flow -> RequestType \cup {Absent}],
         run' \in [Flow -> RunType],
         pc'[f] # "idle" => req'[f] \in RequestType,
         Open(f)' => run'[f].plan \in PlanType, Located(f)',
         UNCHANGED <<screen, clicks, crashes>>,
         loop' \in Flow \cup {Absent}, proposals' \subseteq Pid,
         plan' \in [Pid -> PlanType \cup {Absent}],
         fresh' \in [Pid -> PlanType \cup {Absent}],
         approvals' \in [Pid -> Nat],
         tx' = [g \in Flow |-> tx'[g]], \A g \in Flow : Tables(tx'[g]),
         Tables(db'), mirror' \subseteq AuditType,
         KeysBounded'
  PROVE  TInv'
<1>2. \A g \in Flow : pc'[g] # "idle" => req'[g] \in RequestType
  BY DEF TInv, TypeOK
<1>4. \A g \in Flow : Open(g)' => run'[g].plan \in PlanType
  BY DEF TInv, TypeOK, Open
<1>5. \A g \in Flow : Located(g)'
  BY DEF TInv, Located, Match
<1>6. TypeOK'
  BY <1>2, <1>4 DEF TInv, TypeOK
<1>. QED BY <1>5, <1>6 DEF TInv

(* The same for a step that leaves the tables and the service's stores alone. *)
LEMMA LocalStep ==
  ASSUME TInv, NEW f \in Flow,
         \A g \in Flow \ {f} : pc'[g] = pc[g] /\ req'[g] = req[g] /\ run'[g] = run[g],
         pc' \in [Flow -> PcType], req' \in [Flow -> RequestType \cup {Absent}],
         run' \in [Flow -> RunType],
         pc'[f] # "idle" => req'[f] \in RequestType,
         Open(f)' => run'[f].plan \in PlanType, Located(f)',
         UNCHANGED <<browser, service, tx, storage, crashes>>
  PROVE  TInv'
<1>1. KeysBounded'
  BY KeysUnchanged DEF TInv, storage
<1>. QED BY <1>1, FlowStep DEF TInv, TypeOK, browser, service, storage

LEMMA StageBeginTInv ==
  ASSUME TInv, NEW f \in Flow, StageBegin(f)
  PROVE  TInv'
<1>1. req[f] \in RequestType /\ run[f] \in RunType
  BY DEF TInv, TypeOK, StageBegin
<1>2. plan' \in [Pid -> PlanType \cup {Absent}]
  BY <1>1 DEF TInv, TypeOK, StageBegin, PopPlan, RequestType
<1>3. /\ pc' \in [Flow -> PcType] /\ pc'[f] = "checking"
      /\ \A g \in Flow \ {f} : pc'[g] = pc[g]
  BY DEF TInv, TypeOK, StageBegin, PcType
<1>4. ~ Open(f)' /\ Located(f)'
  BY <1>3 DEF Open, Located
<1>5. KeysBounded'
  BY KeysUnchanged DEF TInv, StageBegin, storage
<1>6. /\ UNCHANGED <<screen, clicks, crashes, req, run, proposals, fresh, approvals, tx, db, mirror>>
      /\ loop' = f
  BY DEF StageBegin, browser, storage
<1>. QED BY <1>1, <1>2, <1>3, <1>4, <1>5, <1>6, FlowStep DEF TInv, TypeOK

LEMMA StageRefuseTInv ==
  ASSUME TInv, NEW f \in Flow, StageRefuse(f)
  PROVE  TInv'
<1>1. req[f] \in RequestType /\ run[f] \in RunType
  BY DEF TInv, TypeOK, StageRefuse
<1>2. fresh' \in [Pid -> PlanType \cup {Absent}] /\ proposals' \subseteq Pid
  BY <1>1 DEF TInv, TypeOK, StageRefuse, RequestType
<1>3. /\ pc' \in [Flow -> PcType] /\ pc'[f] = "idle"
      /\ req' \in [Flow -> RequestType \cup {Absent}]
      /\ \A g \in Flow \ {f} : pc'[g] = pc[g] /\ req'[g] = req[g]
  BY DEF TInv, TypeOK, StageRefuse, Finish, PcType
<1>4. ~ Open(f)' /\ Located(f)'
  BY <1>3 DEF Open, Located
<1>5. KeysBounded'
  BY KeysUnchanged DEF TInv, StageRefuse, storage
<1>6. /\ UNCHANGED <<screen, clicks, crashes, run, plan, approvals, tx, db, mirror>>
      /\ loop' = Absent
  BY DEF StageRefuse, browser, storage
<1>. QED BY <1>1, <1>2, <1>3, <1>4, <1>5, <1>6, FlowStep DEF TInv, TypeOK

LEMMA StagePutTInv ==
  ASSUME TInv, NEW f \in Flow, StagePut(f)
  PROVE  TInv'
<1> DEFINE w == PlanOf(Rematch(req[f].body))
<1>1. req[f] \in RequestType /\ run[f] \in RunType /\ Tables(db)
  BY DEF TInv, TypeOK, StagePut
<1>2. w \in PlanType
  <2>1. req[f].body \in ProposalType
    BY <1>1 DEF RequestType
  <2>2. Len(Rematch(req[f].body).bill.lines) = Len(Rematch(req[f].body).lines)
    BY DEF StagePut, Passes
  <2>3. req[f].body.lines \in Seq(MatchOf(Text))
    BY <2>1 DEF ProposalType
  <2>4. Len(req[f].body.bill.lines) = Len(req[f].body.lines)
    BY <2>2, <2>3 DEF Rematch
  <2>5. Rematch(req[f].body) \in ProposalType
    BY <1>1, <2>1, <2>4, RematchType
  <2>. QED BY <2>5 DEF PlanOf, PlanType, ProposalType, Bill
<1>3. /\ plan' \in [Pid -> PlanType \cup {Absent}]
      /\ fresh' \in [Pid -> PlanType \cup {Absent}]
      /\ approvals' \in [Pid -> Nat] /\ proposals' \subseteq Pid
  <2>1. req[f].pid \in Pid
    BY <1>1 DEF RequestType
  <2>2. /\ plan' = [plan EXCEPT ![req[f].pid] = w]
        /\ fresh' = [fresh EXCEPT ![req[f].pid] = w]
        /\ approvals' = [approvals EXCEPT ![req[f].pid] = @ + 1]
        /\ proposals' = proposals \cup {req[f].pid}
    BY DEF StagePut
  <2>. HIDE DEF w
  <2>. QED BY <1>2, <2>1, <2>2 DEF TInv, TypeOK
<1>5. /\ pc' \in [Flow -> PcType] /\ pc'[f] = "warning" /\ UNCHANGED req
      /\ \A g \in Flow \ {f} : pc'[g] = pc[g] /\ req'[g] = req[g]
  BY DEF TInv, TypeOK, StagePut, PcType
<1>6. ~ Open(f)' /\ Located(f)'
  BY <1>5 DEF Open, Located
<1>7. KeysBounded'
  BY KeysUnchanged DEF TInv, StagePut, storage
<1>8. /\ UNCHANGED <<screen, clicks, crashes, run, tx, db, mirror>>
      /\ loop' = f
  BY DEF StagePut, browser, storage
<1>. QED BY <1>1, <1>3, <1>5, <1>6, <1>7, <1>8, FlowStep DEF TInv, TypeOK

LEMMA StageOkTInv ==
  ASSUME TInv, NEW f \in Flow, StageOk(f)
  PROVE  TInv'
<1>1. req[f] \in RequestType /\ run[f] \in RunType
  BY DEF TInv, TypeOK, StageOk
<1>2. [req[f] EXCEPT !.warned = Duplicate(req[f].body.bill.vref)] \in RequestType
  BY <1>1 DEF RequestType, Duplicate
<1>3. /\ pc' \in [Flow -> PcType] /\ pc'[f] = "staged"
      /\ req' \in [Flow -> RequestType \cup {Absent}] /\ req'[f] \in RequestType
      /\ \A g \in Flow \ {f} : pc'[g] = pc[g] /\ req'[g] = req[g]
  BY <1>2 DEF TInv, TypeOK, StageOk, PcType
<1>4. ~ Open(f)' /\ Located(f)'
  BY <1>3 DEF Open, Located
<1>5. KeysBounded'
  BY KeysUnchanged DEF TInv, StageOk, storage
<1>6. /\ UNCHANGED <<screen, clicks, crashes, run, proposals, plan, fresh, approvals, tx, db, mirror>>
      /\ loop' = Absent
  BY DEF StageOk, browser, storage
<1>. QED BY <1>1, <1>3, <1>4, <1>5, <1>6, FlowStep DEF TInv, TypeOK

LEMMA StageLostTInv ==
  ASSUME TInv, NEW f \in Flow, StageLost(f)
  PROVE  TInv'
<1>1. req[f] \in RequestType /\ run[f] \in RunType
  BY DEF TInv, TypeOK, StageLost
<1>2. fresh' \in [Pid -> PlanType \cup {Absent}]
  BY <1>1 DEF TInv, TypeOK, StageLost, RequestType
<1>3. /\ pc' \in [Flow -> PcType] /\ pc'[f] = "idle"
      /\ req' \in [Flow -> RequestType \cup {Absent}]
      /\ \A g \in Flow \ {f} : pc'[g] = pc[g] /\ req'[g] = req[g]
  BY DEF TInv, TypeOK, StageLost, Finish, PcType
<1>4. ~ Open(f)' /\ Located(f)'
  BY <1>3 DEF Open, Located
<1>5. KeysBounded'
  BY KeysUnchanged DEF TInv, StageLost, storage
<1>6. /\ UNCHANGED <<screen, clicks, crashes, run, proposals, plan, approvals, tx, db, mirror>>
      /\ loop' = Absent
  BY DEF StageLost, browser, storage
<1>. QED BY <1>1, <1>2, <1>3, <1>4, <1>5, <1>6, FlowStep DEF TInv, TypeOK

LEMMA CommitBeginTInv ==
  ASSUME TInv, NEW f \in Flow, CommitBegin(f)
  PROVE  TInv'
<1> DEFINE r == [Stopped EXCEPT !.plan = plan[req[f].pid]]
<1>1. req[f] \in RequestType /\ req[f].pid \in Pid
  BY DEF TInv, TypeOK, CommitBegin, RequestType
<1>2. plan[req[f].pid] \in PlanType
  BY <1>1 DEF TInv, TypeOK, CommitBegin
<1>3. r \in RunType /\ r.plan \in PlanType /\ r.at = 1 /\ r.key = 0
  BY <1>2 DEF Stopped, RunType
<1>4. /\ pc' \in [Flow -> PcType] /\ pc'[f] = "supplier"
      /\ run' \in [Flow -> RunType] /\ run'[f] = r
      /\ \A g \in Flow \ {f} : pc'[g] = pc[g] /\ run'[g] = run[g]
  BY <1>3 DEF TInv, TypeOK, CommitBegin, PcType
<1>5. plan' \in [Pid -> PlanType \cup {Absent}]
  BY <1>1 DEF TInv, TypeOK, CommitBegin, SpendPlan
<1>6. Located(f)'
  BY <1>3, <1>4 DEF Located
<1>7. KeysBounded'
  BY KeysUnchanged DEF TInv, CommitBegin, storage
<1>8. UNCHANGED <<screen, clicks, crashes, req, loop, proposals, fresh, approvals, tx, db, mirror>>
  BY DEF CommitBegin, browser, storage
<1>. HIDE DEF r
<1>. QED BY <1>1, <1>3, <1>4, <1>5, <1>6, <1>7, <1>8, FlowStep DEF TInv, TypeOK

LEMMA CommitNothingTInv ==
  ASSUME TInv, NEW f \in Flow, CommitNothing(f)
  PROVE  TInv'
<1>1. /\ pc' \in [Flow -> PcType] /\ pc'[f] = "idle"
      /\ req' \in [Flow -> RequestType \cup {Absent}]
      /\ \A g \in Flow \ {f} : pc'[g] = pc[g] /\ req'[g] = req[g]
  BY DEF TInv, TypeOK, CommitNothing, Finish, PcType
<1>2. ~ Open(f)' /\ Located(f)'
  BY <1>1 DEF Open, Located
<1>3. UNCHANGED <<browser, service, run, tx, storage, crashes>>
  BY DEF CommitNothing
<1>4. run' \in [Flow -> RunType]
  BY <1>3 DEF TInv, TypeOK
<1>. QED BY <1>1, <1>2, <1>3, <1>4, LocalStep

LEMMA ReuseTInv ==
  ASSUME TInv, NEW f \in Flow, Reuse(f)
  PROVE  TInv'
<1> DEFINE k == Match(f).chave
<1>1. k \in Nat \ {0}
  BY MatchType DEF Reuse, Resolved, MatchOf
<1>2. /\ run[f] \in RunType /\ run[f].plan \in PlanType
      /\ req[f] \in RequestType /\ Located(f)
  BY DEF TInv, TypeOK, Reuse, Open
<1>3. UNCHANGED <<browser, req, service, tx, storage, crashes>>
  BY DEF Reuse
<1>4. CASE pc[f] = "supplier"
  <2>1. run' = [run EXCEPT ![f].sup = k] /\ pc' = [pc EXCEPT ![f] = "document"]
    BY <1>4 DEF Reuse, TInv, TypeOK
  <2>. HIDE DEF k
  <2>2. /\ pc' \in [Flow -> PcType] /\ pc'[f] = "document"
        /\ run' \in [Flow -> RunType] /\ run'[f] = [run[f] EXCEPT !.sup = k]
        /\ \A g \in Flow \ {f} : pc'[g] = pc[g] /\ run'[g] = run[g]
    BY <1>1, <2>1 DEF TInv, TypeOK, PcType, RunType
  <2>3. run'[f].plan = run[f].plan /\ run'[f].sup = k /\ run'[f].at = run[f].at
    BY <1>2, <2>2 DEF RunType
  <2>4. Located(f)'
    BY <1>1, <1>2, <1>4, <2>2, <2>3 DEF Located
  <2>. QED BY <1>2, <1>3, <2>2, <2>3, <2>4, LocalStep DEF TInv, TypeOK
<1>5. CASE pc[f] = "article"
  <2>1. run' = [run EXCEPT ![f].art = k] /\ pc' = [pc EXCEPT ![f] = "line"]
    BY <1>5 DEF Reuse, TInv, TypeOK
  <2>. HIDE DEF k
  <2>2. /\ pc' \in [Flow -> PcType] /\ pc'[f] = "line"
        /\ run' \in [Flow -> RunType] /\ run'[f] = [run[f] EXCEPT !.art = k]
        /\ \A g \in Flow \ {f} : pc'[g] = pc[g] /\ run'[g] = run[g]
    BY <1>1, <2>1 DEF TInv, TypeOK, PcType, RunType
  <2>3. /\ run'[f].plan = run[f].plan /\ run'[f].art = k /\ run'[f].at = run[f].at
        /\ run'[f].sup = run[f].sup /\ run'[f].doc = run[f].doc
    BY <1>2, <2>2 DEF RunType
  <2>4. Located(f)'
    BY <1>1, <1>2, <1>5, <2>2, <2>3 DEF Located
  <2>. QED BY <1>2, <1>3, <2>2, <2>3, <2>4, LocalStep DEF TInv, TypeOK
<1>. QED BY <1>4, <1>5 DEF Reuse

LEMMA WrittenTables ==
  ASSUME NEW s \in DOMAIN Written
  PROVE  Written[s] \in KeyedTable
  BY DEF Written, KeyedTable

LEMMA ReadKeyTInv ==
  ASSUME TInv, NEW f \in Flow, ReadKey(f)
  PROVE  TInv'
<1> DEFINE k == NextKey(f, Written[pc[f]])
<1>1. k \in Nat \ {0}
  BY NextKeyType, WrittenTables DEF ReadKey
<1>2. /\ run[f] \in RunType /\ run[f].plan \in PlanType
      /\ req[f] \in RequestType /\ Located(f)
  BY DEF TInv, TypeOK, ReadKey, Open, Written
<1>3. UNCHANGED <<browser, pc, req, service, tx, storage, crashes>>
  BY DEF ReadKey
<1>4. run' = [run EXCEPT ![f].key = k]
  BY DEF ReadKey
<1>5. pc[f] \in {"supplier", "article"} => Creatable(Match(f))
  BY DEF ReadKey
<1>. HIDE DEF k
<1>6. /\ run' \in [Flow -> RunType] /\ run'[f] = [run[f] EXCEPT !.key = k]
      /\ \A g \in Flow \ {f} : run'[g] = run[g]
  BY <1>1, <1>4 DEF TInv, TypeOK, RunType
<1>7. /\ run'[f].plan = run[f].plan /\ run'[f].art = run[f].art /\ run'[f].at = run[f].at
      /\ run'[f].sup = run[f].sup /\ run'[f].doc = run[f].doc
  BY <1>2, <1>6 DEF RunType
<1>8. Match(f)' = Match(f)
  BY <1>3, <1>7 DEF Match
<1>9. Located(f)'
  BY <1>2, <1>3, <1>5, <1>7, <1>8 DEF Located
<1>. QED BY <1>2, <1>3, <1>6, <1>7, <1>9, LocalStep DEF TInv, TypeOK

(* A step that changes one flow's uncommitted rows. *)
LEMMA TxStep ==
  ASSUME TInv, NEW f \in Flow, NEW rows, tx' = [tx EXCEPT ![f] = rows]
  PROVE  /\ tx' = [g \in Flow |-> tx'[g]] /\ tx'[f] = rows
         /\ \A g \in Flow \ {f} : tx'[g] = tx[g]
<1>1. DOMAIN tx = Flow
  <2>1. tx = [g \in Flow |-> tx[g]]
    BY DEF TInv, TypeOK
  <2>2. DOMAIN [g \in Flow |-> tx[g]] = Flow
    OBVIOUS
  <2>. QED BY <2>1, <2>2, Zenon
<1>2. tx' = [g \in Flow |-> IF g = f THEN rows ELSE tx[g]]
  BY <1>1
<1>3. tx'[f] = rows /\ \A g \in Flow \ {f} : tx'[g] = tx[g]
  BY <1>2
<1>4. tx' = [g \in Flow |-> tx'[g]]
  BY <1>2
<1>. QED BY <1>3, <1>4

(* A row with the key just read keeps the keys bounded. *)
LEMMA KeysGrow ==
  ASSUME TInv, NEW f \in Flow, NEW t \in KeyedTable, NEW row, row.Chave \in Nat,
         tx' = [tx EXCEPT ![f] = With(f, t, row)], db' = db
  PROVE  KeysBounded'
<1>1. PICK n \in Nat : \A u \in KeyedTable :
        /\ \A r \in db[u] : r.Chave <= n
        /\ \A g \in Flow : \A r \in tx[g][u] : r.Chave <= n
  BY DEF TInv, KeysBounded
<1>2. PICK m \in Nat : m >= n /\ m >= row.Chave
  <2>1. CASE n >= row.Chave  BY <2>1
  <2>2. CASE row.Chave >= n  BY <2>2
  <2>. QED BY <2>1, <2>2
<1>3. ASSUME NEW u \in KeyedTable
      PROVE  /\ \A r \in db[u] : r.Chave <= m
             /\ \A g \in Flow : \A r \in tx[g][u] : r.Chave <= m
  <2>1. \A r \in db[u] : r.Chave \in Nat
    BY RowKeys DEF TInv, TypeOK
  <2>2. \A g \in Flow : \A r \in tx[g][u] : r.Chave \in Nat
    BY RowKeys DEF TInv, TypeOK
  <2>. QED BY <1>1, <1>2, <2>1, <2>2
<1>4. ASSUME NEW u \in KeyedTable, NEW g \in Flow, NEW r \in tx'[g][u]
      PROVE  r \in tx[g][u] \/ r = row
  <2>1. u \in DOMAIN tx[f]
    <3>1. tx[f] = [v \in Table |-> tx[f][v]] /\ u \in Table
      BY DEF TInv, TypeOK, Tables, Table, KeyedTable
    <3>2. DOMAIN [v \in Table |-> tx[f][v]] = Table
      OBVIOUS
    <3>. QED BY <3>1, <3>2, Zenon
  <2>2. tx'[f] = With(f, t, row) /\ (g # f => tx'[g] = tx[g])
    BY TxStep
  <2>3. tx'[f][u] = IF u = t THEN tx[f][u] \cup {row} ELSE tx[f][u]
    BY <2>1, <2>2 DEF With
  <2>. QED BY <2>2, <2>3
<1>5. \A u \in KeyedTable :
        /\ \A r \in db'[u] : r.Chave <= m
        /\ \A g \in Flow : \A r \in tx'[g][u] : r.Chave <= m
  BY <1>2, <1>3, <1>4
<1>. QED BY <1>5 DEF KeysBounded

LEMMA InsertTInv ==
  ASSUME TInv, NEW f \in Flow, NEW t \in KeyedTable, NEW row, NEW r \in RunType, NEW next,
         Insert(f, t, row, r, next), Open(f),
         row.Chave = run[f].key, Tables(With(f, t, row)),
         r.plan = run[f].plan, next \in PcType \ {"idle"},
         next \in {"document", "article", "line", "audit"} => r.sup # 0,
         next \in {"article", "line", "audit"} => r.doc # 0,
         next = "line" => r.art # 0,
         next = "document" => r.at = 1,
         next \in {"article", "line"} => r.at \in DOMAIN r.plan.lines,
         next \in {"document", "article", "line", "audit"}
  PROVE  TInv'
<1>1. run[f] \in RunType /\ run[f].plan \in PlanType /\ req[f] \in RequestType
  BY DEF TInv, TypeOK, Open
<1>2. /\ pc' = [pc EXCEPT ![f] = next]
      /\ run' = [run EXCEPT ![f] = [r EXCEPT !.key = 0]]
      /\ tx' = [tx EXCEPT ![f] = With(f, t, row)]
      /\ UNCHANGED <<browser, req, service, storage, crashes>>
  BY DEF Insert
<1>3. [r EXCEPT !.key = 0] \in RunType
  BY DEF RunType
<1>4. /\ pc' \in [Flow -> PcType] /\ pc'[f] = next
      /\ run' \in [Flow -> RunType] /\ run'[f] = [r EXCEPT !.key = 0]
      /\ \A g \in Flow \ {f} : pc'[g] = pc[g] /\ run'[g] = run[g]
  BY <1>2, <1>3 DEF TInv, TypeOK
<1>5. /\ run'[f].plan = r.plan /\ run'[f].art = r.art /\ run'[f].at = r.at
      /\ run'[f].sup = r.sup /\ run'[f].doc = r.doc /\ run'[f].key = 0
  BY <1>4 DEF RunType
<1>6. Located(f)'
  BY <1>4, <1>5 DEF Located
<1>7. KeysBounded'
  <2>1. row.Chave \in Nat /\ db' = db
    BY <1>1, <1>2 DEF RunType, storage
  <2>. QED BY <1>2, <2>1, KeysGrow
<1>8. tx' = [g \in Flow |-> tx'[g]] /\ \A g \in Flow : Tables(tx'[g])
  BY <1>2, TxStep DEF TInv, TypeOK
<1>9. UNCHANGED <<screen, clicks, crashes, req, loop, proposals, plan, fresh, approvals, db, mirror>>
  BY <1>2 DEF browser, service, storage
<1>. QED BY <1>1, <1>4, <1>5, <1>6, <1>7, <1>8, <1>9, FlowStep DEF TInv, TypeOK

LEMMA InsertSupplierTInv ==
  ASSUME TInv, NEW f \in Flow, InsertSupplier(f)
  PROVE  TInv'
<1> DEFINE row == [Chave |-> run[f].key, nif |-> Match(f).new.nif, name |-> Match(f).new.name]
           r == [run[f] EXCEPT !.sup = run[f].key]
<1>1. /\ pc[f] = "supplier" /\ run[f].key # 0
      /\ Insert(f, "Entidades", row, r, "document")
  BY DEF InsertSupplier, Insert
<1>2. run[f] \in RunType /\ Located(f) /\ Open(f)
  BY <1>1 DEF TInv, TypeOK, Open
<1>3. run[f].key \in Nat \ {0} /\ Match(f).new \in Supplier
  <2>1. Creatable(Match(f)) /\ Match(f) \in MatchOf(Supplier)
    BY <1>1, <1>2, MatchType DEF Located
  <2>. QED BY <1>1, <1>2, <2>1 DEF RunType, MatchOf, Creatable
<1>4. row \in [Chave : Nat \ {0}, nif : Nif \cup {NoNif}, name : Text]
  BY <1>3 DEF Supplier
<1>5. row.Chave = run[f].key
  OBVIOUS
<1>6. r \in RunType /\ r.plan = run[f].plan /\ r.sup # 0 /\ r.at = 1
  BY <1>1, <1>2, <1>3 DEF RunType, Located
<1>. HIDE DEF row, r
<1>7. Tables(With(f, "Entidades", row))
  <2>1. Tables(tx[f])
    BY DEF TInv, TypeOK
  <2>. QED BY <1>4, <2>1 DEF Tables, Table, With
<1>. QED BY <1>1, <1>2, <1>5, <1>6, <1>7, InsertTInv DEF KeyedTable, PcType

LEMMA InsertDocumentTInv ==
  ASSUME TInv, NEW f \in Flow, InsertDocument(f)
  PROVE  TInv'
<1> DEFINE r == [run[f] EXCEPT !.doc = run[f].key]
           next == IF run[f].plan.lines = <<>> THEN "audit" ELSE "article"
<1>1. /\ pc[f] = "document" /\ run[f].key # 0
      /\ Insert(f, "Doc001", Header(f), r, next)
  BY DEF InsertDocument, Insert
<1>2. run[f] \in RunType /\ Located(f) /\ Open(f) /\ run[f].plan \in PlanType
  BY <1>1 DEF TInv, TypeOK, Open
<1>3. run[f].key \in Nat \ {0} /\ run[f].sup \in Nat \ {0} /\ run[f].at = 1
  BY <1>1, <1>2 DEF RunType, Located
<1>4. /\ Header(f) \in [Chave : Nat \ {0}, Entidade : Nat \ {0}, VRef : Ref]
      /\ Header(f).Chave = run[f].key
  BY <1>2, <1>3 DEF Header, PlanType
<1>5. /\ r \in RunType /\ r.plan = run[f].plan /\ r.sup # 0 /\ r.doc # 0 /\ r.at = 1
  BY <1>2, <1>3 DEF RunType
<1>6. next = "article" => r.at \in DOMAIN r.plan.lines
  <2>1. r.plan.lines \in Seq(MatchOf(Text))
    BY <1>2, <1>5 DEF PlanType
  <2>. QED BY <1>5, <2>1
<1>7. next \in {"audit", "article"}
  OBVIOUS
<1>. HIDE DEF r, next
<1>8. Tables(With(f, "Doc001", Header(f)))
  <2>1. Tables(tx[f])
    BY DEF TInv, TypeOK
  <2>. QED BY <1>4, <2>1 DEF Tables, Table, With
<1>. QED BY <1>1, <1>2, <1>4, <1>5, <1>6, <1>7, <1>8, InsertTInv DEF KeyedTable, PcType

LEMMA InsertArticleTInv ==
  ASSUME TInv, NEW f \in Flow, InsertArticle(f)
  PROVE  TInv'
<1> DEFINE row == [Chave |-> run[f].key, name |-> Match(f).new]
           r == [run[f] EXCEPT !.art = run[f].key]
<1>1. /\ pc[f] = "article" /\ run[f].key # 0
      /\ Insert(f, "Artigos", row, r, "line")
  BY DEF InsertArticle, Insert
<1>2. run[f] \in RunType /\ Located(f) /\ Open(f)
  BY <1>1 DEF TInv, TypeOK, Open
<1>3. run[f].key \in Nat \ {0} /\ Match(f).new \in Text
  <2>1. Creatable(Match(f)) /\ Match(f) \in MatchOf(Text)
    BY <1>1, <1>2, MatchType DEF Located
  <2>. QED BY <1>1, <1>2, <2>1 DEF RunType, MatchOf, Creatable
<1>4. row \in [Chave : Nat \ {0}, name : Text] /\ row.Chave = run[f].key
  BY <1>3
<1>5. /\ r \in RunType /\ r.plan = run[f].plan /\ r.sup # 0 /\ r.doc # 0 /\ r.art # 0
      /\ r.at \in DOMAIN r.plan.lines
  BY <1>1, <1>2, <1>3 DEF RunType, Located
<1>. HIDE DEF row, r
<1>6. Tables(With(f, "Artigos", row))
  <2>1. Tables(tx[f])
    BY DEF TInv, TypeOK
  <2>. QED BY <1>4, <2>1 DEF Tables, Table, With
<1>. QED BY <1>1, <1>2, <1>4, <1>5, <1>6, InsertTInv DEF KeyedTable, PcType

LEMMA InsertLineTInv ==
  ASSUME TInv, NEW f \in Flow, InsertLine(f)
  PROVE  TInv'
<1> DEFINE row == [Chave |-> run[f].key, Documento |-> run[f].doc, ChaveProd |-> run[f].art]
           r == [run[f] EXCEPT !.at = @ + 1]
           next == IF run[f].at < Len(run[f].plan.lines) THEN "article" ELSE "audit"
<1>1. /\ pc[f] = "line" /\ run[f].key # 0
      /\ Insert(f, "LinDoc001", row, r, next)
  BY DEF InsertLine, Insert
<1>2. run[f] \in RunType /\ Located(f) /\ Open(f) /\ run[f].plan \in PlanType
  BY <1>1 DEF TInv, TypeOK, Open
<1>3. /\ run[f].key \in Nat \ {0} /\ run[f].doc \in Nat \ {0} /\ run[f].art \in Nat \ {0}
      /\ run[f].at \in DOMAIN run[f].plan.lines
  BY <1>1, <1>2 DEF RunType, Located
<1>4. /\ row \in [Chave : Nat \ {0}, Documento : Nat \ {0}, ChaveProd : Nat \ {0}]
      /\ row.Chave = run[f].key
  BY <1>3
<1>5. /\ r \in RunType /\ r.plan = run[f].plan /\ r.sup # 0 /\ r.doc # 0
      /\ r.at = run[f].at + 1
  BY <1>1, <1>2 DEF RunType, Located
<1>6. next = "article" => r.at \in DOMAIN r.plan.lines
  <2>1. r.plan.lines \in Seq(MatchOf(Text))
    BY <1>2, <1>5 DEF PlanType
  <2>. QED BY <1>3, <1>5, <2>1
<1>7. next \in {"audit", "article"}
  OBVIOUS
<1>. HIDE DEF row, r, next
<1>8. Tables(With(f, "LinDoc001", row))
  <2>1. Tables(tx[f])
    BY DEF TInv, TypeOK
  <2>. QED BY <1>4, <2>1 DEF Tables, Table, With
<1>. QED BY <1>1, <1>2, <1>4, <1>5, <1>6, <1>7, <1>8, InsertTInv DEF KeyedTable, PcType

LEMMA AuditEntryType ==
  ASSUME TInv, NEW f \in Flow, req[f] \in RequestType, NEW s \in {"ok", "error"}
  PROVE  AuditEntry(f, s) \in AuditType
<1>1. run[f].doc \in Nat /\ req[f].pid \in Pid
  BY DEF TInv, TypeOK, RunType, RequestType
<1>. QED BY <1>1 DEF AuditEntry, AuditType

LEMMA AuditTInv ==
  ASSUME TInv, NEW f \in Flow, Audit(f)
  PROVE  TInv'
<1>1. /\ run[f] \in RunType /\ req[f] \in RequestType /\ Located(f)
      /\ run[f].plan \in PlanType
  BY DEF TInv, TypeOK, Audit, Open
<1>2. AuditEntry(f, "ok") \in AuditType
  BY <1>1, AuditEntryType
<1>3. /\ pc[f] = "audit"
      /\ tx' = [tx EXCEPT ![f] = With(f, "BillAudit", AuditEntry(f, "ok"))]
      /\ UNCHANGED <<browser, req, service, run, db, crashes>>
  BY DEF Audit
<1>4. /\ pc' \in [Flow -> PcType] /\ pc'[f] = "landing"
      /\ \A g \in Flow \ {f} : pc'[g] = pc[g]
  BY DEF TInv, TypeOK, Audit, PcType
<1>5. Located(f)'
  BY <1>1, <1>3, <1>4 DEF Located
<1>6. /\ tx' = [g \in Flow |-> tx'[g]] /\ tx'[f] = With(f, "BillAudit", AuditEntry(f, "ok"))
      /\ \A g \in Flow \ {f} : tx'[g] = tx[g]
  BY <1>3, TxStep
<1>7. Tables(tx[f]) /\ \A t \in KeyedTable : tx'[f][t] = tx[f][t]
  <2>1. Tables(tx[f])
    BY DEF TInv, TypeOK
  <2>. QED BY <1>6, <2>1 DEF Tables, With, KeyedTable
<1>8. Tables(With(f, "BillAudit", AuditEntry(f, "ok")))
  <2>. DEFINE a == AuditEntry(f, "ok")
  <2>1. Tables(tx[f]) /\ a \in AuditType
    BY <1>2, <1>7
  <2>. HIDE DEF a
  <2>2. Tables(With(f, "BillAudit", a))
    BY <2>1 DEF Tables, With, Table
  <2>. QED BY <2>2 DEF a
<1>9. KeysBounded'
  BY <1>3, <1>6, <1>7 DEF TInv, KeysBounded
<1>10. mirror' \subseteq AuditType
  BY <1>2 DEF TInv, TypeOK, Audit, Mirror
<1>11. UNCHANGED <<screen, clicks, crashes, req, run, loop, proposals, plan, fresh, approvals, db>>
  BY <1>3 DEF browser, service
<1>. QED BY <1>1, <1>4, <1>5, <1>6, <1>8, <1>9, <1>10, <1>11, FlowStep DEF TInv, TypeOK

LEMMA LandTInv ==
  ASSUME TInv, NEW f \in Flow, Land(f)
  PROVE  TInv'
<1>1. run[f] \in RunType /\ req[f] \in RequestType
  BY DEF TInv, TypeOK, Land
<1>2. /\ db' = [t \in Table |-> db[t] \cup tx[f][t]]
      /\ tx' = [tx EXCEPT ![f] = NoRows]
      /\ UNCHANGED <<browser, req, service, run, mirror, crashes>>
  BY DEF Land
<1>3. /\ pc' \in [Flow -> PcType] /\ pc'[f] \in {"landed", "failing"}
      /\ \A g \in Flow \ {f} : pc'[g] = pc[g]
  BY DEF TInv, TypeOK, Land, PcType
<1>4. ~ Open(f)' /\ Located(f)'
  BY <1>3 DEF Open, Located
<1>5. /\ tx' = [g \in Flow |-> tx'[g]] /\ tx'[f] = NoRows
      /\ \A g \in Flow \ {f} : tx'[g] = tx[g]
  BY <1>2, TxStep
<1>6. Tables(NoRows)
  BY DEF Tables, NoRows, Table
<1>7. Tables(db')
  BY <1>2 DEF TInv, TypeOK, Tables, Table
<1>8. KeysBounded'
  <2>1. \A t \in KeyedTable : tx'[f][t] = {} /\ db'[t] = db[t] \cup tx[f][t]
    BY <1>2, <1>5 DEF KeyedTable, NoRows, Table
  <2>. QED BY <1>5, <2>1 DEF TInv, KeysBounded
<1>9. UNCHANGED <<screen, clicks, crashes, req, run, loop, proposals, plan, fresh, approvals, mirror>>
  BY <1>2 DEF browser, service
<1>. QED BY <1>1, <1>3, <1>4, <1>5, <1>6, <1>7, <1>8, <1>9, FlowStep DEF TInv, TypeOK

LEMMA FailTInv ==
  ASSUME TInv, NEW f \in Flow, Fail(f)
  PROVE  TInv'
<1>1. run[f] \in RunType /\ req[f] \in RequestType
  BY DEF TInv, TypeOK, Fail, MustFail, Open, Written
<1>2. /\ tx' = [tx EXCEPT ![f] = NoRows]
      /\ UNCHANGED <<browser, req, service, run, storage, crashes>>
  BY DEF Fail, Rollback
<1>3. /\ pc' \in [Flow -> PcType] /\ pc'[f] = "failing"
      /\ \A g \in Flow \ {f} : pc'[g] = pc[g]
  BY DEF TInv, TypeOK, Fail, PcType
<1>4. ~ Open(f)' /\ Located(f)'
  BY <1>3 DEF Open, Located
<1>5. /\ tx' = [g \in Flow |-> tx'[g]] /\ tx'[f] = NoRows
      /\ \A g \in Flow \ {f} : tx'[g] = tx[g]
  BY <1>2, TxStep
<1>6. Tables(NoRows)
  BY DEF Tables, NoRows, Table
<1>7. KeysBounded'
  <2>1. \A t \in KeyedTable : tx'[f][t] = {} /\ db'[t] = db[t]
    BY <1>2, <1>5 DEF KeyedTable, NoRows, Table, storage
  <2>. QED BY <1>5, <2>1 DEF TInv, KeysBounded
<1>8. UNCHANGED <<screen, clicks, crashes, req, run, loop, proposals, plan, fresh, approvals, db, mirror>>
  BY <1>2 DEF browser, service, storage
<1>. QED BY <1>1, <1>3, <1>4, <1>5, <1>6, <1>7, <1>8, FlowStep DEF TInv, TypeOK

LEMMA RecordFailureTInv ==
  ASSUME TInv, NEW f \in Flow, RecordFailure(f)
  PROVE  TInv'
<1>1. req[f] \in RequestType /\ Stopped \in RunType
  BY DEF TInv, TypeOK, RecordFailure, Stopped, RunType
<1>2. AuditEntry(f, "error") \in AuditType
  BY <1>1, AuditEntryType
<1>3. UNCHANGED <<browser, service, tx, crashes>>
  BY DEF RecordFailure
<1>4. /\ pc' \in [Flow -> PcType] /\ pc'[f] = "idle"
      /\ req' \in [Flow -> RequestType \cup {Absent}] /\ run' \in [Flow -> RunType]
      /\ \A g \in Flow \ {f} : pc'[g] = pc[g] /\ req'[g] = req[g] /\ run'[g] = run[g]
  BY <1>1 DEF TInv, TypeOK, RecordFailure, Finish, PcType
<1>5. ~ Open(f)' /\ Located(f)'
  BY <1>4 DEF Open, Located
<1>6. Tables(db') /\ \A t \in KeyedTable : db'[t] = db[t]
  <2>1. Tables(db)
    BY DEF TInv, TypeOK
  <2>. QED BY <1>2, <2>1 DEF RecordFailure, Tables, Table, KeyedTable
<1>7. KeysBounded'
  BY <1>3, <1>6 DEF TInv, KeysBounded
<1>8. mirror' \subseteq AuditType
  BY <1>2 DEF TInv, TypeOK, RecordFailure, Mirror
<1>9. UNCHANGED <<screen, clicks, crashes, loop, proposals, plan, fresh, approvals, tx>>
  BY <1>3 DEF browser, service
<1>. QED BY <1>1, <1>4, <1>5, <1>6, <1>7, <1>8, <1>9, FlowStep DEF TInv, TypeOK

LEMMA AnswerTInv ==
  ASSUME TInv, NEW f \in Flow, Answer(f)
  PROVE  TInv'
<1>1. Stopped \in RunType
  BY DEF Stopped, RunType
<1>2. /\ pc' \in [Flow -> PcType] /\ pc'[f] = "idle"
      /\ req' \in [Flow -> RequestType \cup {Absent}] /\ run' \in [Flow -> RunType]
      /\ \A g \in Flow \ {f} : pc'[g] = pc[g] /\ req'[g] = req[g] /\ run'[g] = run[g]
  BY <1>1 DEF TInv, TypeOK, Answer, Finish, PcType
<1>3. ~ Open(f)' /\ Located(f)'
  BY <1>2 DEF Open, Located
<1>4. KeysBounded'
  BY KeysUnchanged DEF TInv, Answer, storage
<1>5. /\ proposals' \subseteq Pid
      /\ UNCHANGED <<screen, clicks, crashes, loop, plan, fresh, approvals, tx, db, mirror>>
  BY DEF TInv, TypeOK, Answer, browser, storage
<1>. QED BY <1>1, <1>2, <1>3, <1>4, <1>5, FlowStep DEF TInv, TypeOK

LEMMA CrashTInv ==
  ASSUME TInv, Crash
  PROVE  TInv'
<1>1. /\ pc' \in [Flow -> PcType] /\ \A f \in Flow : pc'[f] \in {"idle", "staged"}
      /\ req' \in [Flow -> RequestType \cup {Absent}]
      /\ \A f \in Flow : pc'[f] # "idle" => req'[f] \in RequestType
  BY DEF TInv, TypeOK, Crash, PcType
<1>2. \A f \in Flow : ~ Open(f)' /\ Located(f)'
  BY <1>1 DEF Open, Located
<1>3. run' \in [Flow -> RunType]
  BY DEF Crash, Stopped, RunType
<1>4. tx' = [f \in Flow |-> tx'[f]] /\ \A f \in Flow : tx'[f] = NoRows
  BY DEF Crash
<1>5. Tables(NoRows)
  BY DEF Tables, NoRows, Table
<1>6. KeysBounded'
  <2>1. \A t \in KeyedTable : db'[t] = db[t] /\ \A f \in Flow : tx'[f][t] = {}
    BY <1>4 DEF Crash, KeyedTable, NoRows, Table
  <2>. QED BY <2>1 DEF TInv, KeysBounded
<1>7. /\ plan' \in [Pid -> PlanType \cup {Absent}] /\ fresh' \in [Pid -> PlanType \cup {Absent}]
      /\ loop' = Absent /\ proposals' \subseteq Pid /\ crashes' \in Nat
      /\ mirror' \subseteq AuditType /\ UNCHANGED <<screen, clicks, approvals, db>>
  BY DEF TInv, TypeOK, Crash, browser
<1>8. TypeOK'
  BY <1>1, <1>2, <1>3, <1>4, <1>5, <1>7 DEF TInv, TypeOK
<1>. QED BY <1>2, <1>6, <1>8 DEF TInv

LEMMA TInvStep == TInv /\ [Next]_vars => TInv'
<1> SUFFICES ASSUME TInv, [Next]_vars PROVE TInv'
  OBVIOUS
<1>1. CASE \E p \in Pid : Upload(p)
  BY <1>1, UploadTInv
<1>2. CASE \E f \in Flow, p \in Pid : Accept(f, p)
  BY <1>2, AcceptTInv
<1>3. CASE \E f \in Flow : \/ StageBegin(f) \/ StageRefuse(f) \/ StagePut(f)
                           \/ StageOk(f) \/ StageLost(f)
  BY <1>3, StageBeginTInv, StageRefuseTInv, StagePutTInv, StageOkTInv, StageLostTInv
<1>4. CASE \E f \in Flow : CommitBegin(f) \/ CommitNothing(f)
  BY <1>4, CommitBeginTInv, CommitNothingTInv
<1>5. CASE \E f \in Flow : Transaction(f) \/ Fail(f)
  BY <1>5, ReuseTInv, ReadKeyTInv, InsertSupplierTInv, InsertDocumentTInv, InsertArticleTInv,
     InsertLineTInv, AuditTInv, LandTInv, RecordFailureTInv, AnswerTInv, FailTInv DEF Transaction
<1>6. CASE Crash
  BY <1>6, CrashTInv
<1>7. CASE UNCHANGED vars
  <2>1. TypeOK'
    BY <1>7 DEF TInv, TypeOK, Open, vars, browser, service, storage
  <2>2. KeysBounded'
    BY <1>7, KeysUnchanged DEF TInv, vars, storage
  <2>3. \A f \in Flow : Located(f)'
    BY <1>7 DEF TInv, Located, Match, vars
  <2>. QED BY <2>1, <2>2, <2>3 DEF TInv
<1>. QED BY <1>1, <1>2, <1>3, <1>4, <1>5, <1>6, <1>7 DEF Next

LEMMA AlwaysTInv == Spec => []TInv
  BY InitTInv, TInvStep, PTL DEF Spec

(* Every state has the types the code relies on: in particular no row is    *)
(* written with a null key or a null reference, and execute() never runs    *)
(* without a plan (write_executor.py, execute()).                           *)
THEOREM TypeCorrect == Spec => []TypeOK
<1>1. TInv => TypeOK
  BY DEF TInv
<1>. QED BY <1>1, AlwaysTInv, PTL

(* ----------------------- what the pending store holds ------------------- *)

(* While the event loop runs a stage, its proposal has no plan but the one
   that this stage has put. *)
LatestInv ==
  /\ loop # Absent => \/ pc[loop] = "checking" /\ plan[req[loop].pid] = Absent
                      \/ pc[loop] = "warning"
  /\ OnlyLatestStageCommits

LEMMA InitLatestInv == Init => LatestInv
  BY DEF Init, LatestInv, OnlyLatestStageCommits

(* Steps that leave the stages alone, and may spend a plan. *)
LEMMA LatestFrame ==
  ASSUME LatestInv, loop \in Flow \cup {Absent}, UNCHANGED <<loop, fresh>>,
         \A p \in Pid : plan'[p] \in {plan[p], Absent},
         loop # Absent => pc'[loop] = pc[loop] /\ req'[loop] = req[loop] /\ req[loop].pid \in Pid
  PROVE  LatestInv'
  BY DEF LatestInv, OnlyLatestStageCommits

LEMMA LatestStep == TInv /\ LatestInv /\ [Next]_vars => LatestInv'
<1> SUFFICES ASSUME TInv, LatestInv, [Next]_vars PROVE LatestInv'
  OBVIOUS
<1>1. /\ loop \in Flow \cup {Absent}
      /\ \A f \in Flow : pc[f] # "idle" => req[f].pid \in Pid
      /\ loop # Absent => /\ loop \in Flow /\ pc[loop] \in {"checking", "warning"}
                          /\ req[loop].pid \in Pid
      /\ Absent \notin Flow
  BY BillConstants DEF TInv, TypeOK, LatestInv, RequestType
<1>2. ASSUME NEW p \in Pid, Upload(p)  PROVE LatestInv'
  BY <1>1, <1>2, LatestFrame DEF Upload
<1>3. ASSUME NEW f \in Flow, NEW p \in Pid, Accept(f, p)  PROVE LatestInv'
  <2>1. loop # f
    BY <1>3, <1>1 DEF Accept
  <2>2. UNCHANGED <<loop, fresh, plan>>
    BY <1>3 DEF Accept, service
  <2>3. \A g \in Flow \ {f} : pc'[g] = pc[g] /\ req'[g] = req[g]
    BY <1>3 DEF Accept, TInv, TypeOK
  <2>. QED BY <1>1, <2>1, <2>2, <2>3, LatestFrame
<1>4. ASSUME NEW f \in Flow, StageBegin(f)  PROVE LatestInv'
  <2>1. /\ req[f].pid \in Pid /\ loop' = f /\ pc'[f] = "checking"
        /\ plan' = [plan EXCEPT ![req[f].pid] = Absent] /\ UNCHANGED <<req, fresh>>
    BY <1>1, <1>4 DEF StageBegin, PopPlan, TInv, TypeOK
  <2>2. plan \in [Pid -> PlanType \cup {Absent}]
    BY DEF TInv, TypeOK
  <2>. QED BY <2>1, <2>2 DEF LatestInv, OnlyLatestStageCommits
<1>5. ASSUME NEW f \in Flow, StageRefuse(f)  PROVE LatestInv'
  <2>1. /\ loop = f /\ loop' = Absent /\ plan' = plan
        /\ fresh' = [fresh EXCEPT ![req[f].pid] = Absent]
    BY <1>5 DEF StageRefuse
  <2>2. fresh \in [Pid -> PlanType \cup {Absent}] /\ plan[req[f].pid] = Absent
    BY <1>1, <2>1, <1>5 DEF TInv, TypeOK, LatestInv, StageRefuse
  <2>. QED BY <2>1, <2>2 DEF LatestInv, OnlyLatestStageCommits
<1>6. ASSUME NEW f \in Flow, StagePut(f)  PROVE LatestInv'
  <2> DEFINE w == PlanOf(Rematch(req[f].body))
  <2>1. /\ loop = f /\ loop' = f /\ pc' = [pc EXCEPT ![f] = "warning"]
        /\ plan' = [plan EXCEPT ![req[f].pid] = w]
        /\ fresh' = [fresh EXCEPT ![req[f].pid] = w]
    BY <1>6 DEF StagePut
  <2>2. /\ fresh \in [Pid -> PlanType \cup {Absent}]
        /\ plan \in [Pid -> PlanType \cup {Absent}] /\ pc \in [Flow -> PcType]
    BY DEF TInv, TypeOK
  <2>. HIDE DEF w
  <2>. QED BY <2>1, <2>2 DEF LatestInv, OnlyLatestStageCommits
<1>11. ASSUME NEW f \in Flow, StageOk(f)  PROVE LatestInv'
  BY <1>11 DEF StageOk, LatestInv, OnlyLatestStageCommits
<1>12. ASSUME NEW f \in Flow, StageLost(f)  PROVE LatestInv'
  <2>1. /\ loop = f /\ loop' = Absent /\ plan' = plan
        /\ \/ pc[f] = "checking" /\ fresh' = [fresh EXCEPT ![req[f].pid] = Absent]
           \/ fresh' = fresh
    BY <1>12 DEF StageLost
  <2>2. /\ fresh \in [Pid -> PlanType \cup {Absent}]
        /\ pc[f] = "checking" => plan[req[f].pid] = Absent
    BY <1>1, <2>1 DEF TInv, TypeOK, LatestInv
  <2>. QED BY <2>1, <2>2 DEF LatestInv, OnlyLatestStageCommits
<1>7. ASSUME NEW f \in Flow, CommitBegin(f)  PROVE LatestInv'
  <2>1. /\ pc[f] = "staged" /\ UNCHANGED <<loop, fresh, req>>
        /\ plan' = [plan EXCEPT ![req[f].pid] = Absent]
        /\ \A g \in Flow \ {f} : pc'[g] = pc[g]
    BY <1>7 DEF CommitBegin, SpendPlan, TInv, TypeOK
  <2>2. \A p \in Pid : plan'[p] \in {plan[p], Absent}
    BY <2>1 DEF TInv, TypeOK
  <2>. QED BY <1>1, <2>1, <2>2, LatestFrame
<1>8. ASSUME NEW f \in Flow, CommitNothing(f) \/ Transaction(f) \/ Fail(f)  PROVE LatestInv'
  <2>1. UNCHANGED <<loop, fresh, plan>>
    BY <1>8 DEF CommitNothing, Transaction, Fail, Reuse, ReadKey, InsertSupplier, InsertDocument,
                InsertArticle, InsertLine, Insert, Audit, Land, RecordFailure, Answer, service
  <2>2. pc[f] \notin {"checking", "warning"}
    BY <1>8 DEF CommitNothing, Transaction, Fail, Reuse, ReadKey, InsertSupplier, InsertDocument,
                InsertArticle, InsertLine, Audit, Land, RecordFailure, Answer, Written, MustFail, Open
  <2>3. \A g \in Flow \ {f} : pc'[g] = pc[g] /\ req'[g] = req[g]
    BY <1>8 DEF CommitNothing, Transaction, Fail, Reuse, ReadKey, InsertSupplier, InsertDocument,
                InsertArticle, InsertLine, Insert, Audit, Land, RecordFailure, Answer, Finish,
                TInv, TypeOK
  <2>. QED BY <1>1, <2>1, <2>2, <2>3, LatestFrame
<1>9. CASE Crash
  BY <1>9 DEF Crash, LatestInv, OnlyLatestStageCommits
<1>10. CASE UNCHANGED vars
  BY <1>1, <1>10, LatestFrame DEF vars, service
<1>. QED BY <1>2, <1>3, <1>4, <1>5, <1>6, <1>7, <1>8, <1>9, <1>10, <1>11, <1>12 DEF Next

(* What a commit may pick up is what the last stage of that proposal to     *)
(* reach a decision let through the gate, whatever stages, commits, failing *)
(* reads and restarts interleave (service.py, stage(): the earlier plan is  *)
(* popped before anything else).                                            *)
THEOREM StageCorrect == Spec => []OnlyLatestStageCommits
<1>1. LatestInv => OnlyLatestStageCommits
  BY DEF LatestInv
<1>. QED BY <1>1, InitTInv, TInvStep, InitLatestInv, LatestStep, PTL DEF Spec

(* -------------------- what a plan can be relied on for ------------------ *)

(* A match is a row that is there, is still to be picked among rows that are
   there, or is a value to create. *)
Points(m, t) ==
  /\ m.status = "matched" => m.chave \in Chaves(db[t])
  /\ m.status = "ambiguous" => m.chave = 0
  /\ m.status = "new" => m.new # Absent
  /\ m.candidates \subseteq Chaves(db[t])

(* Of a proposal or a plan. *)
Grounded(w) ==
  /\ Points(w.sup, "Entidades")
  /\ \A i \in DOMAIN w.lines : Points(w.lines[i], "Artigos")

(* What a plan creates is what an operator has ticked. *)
AgreedTo(w) ==
  /\ w.sup.status = "new" => <<"Entidades", w.sup.new>> \in ticked
  /\ \A i \in DOMAIN w.lines : w.lines[i].status = "new" => <<"Artigos", w.lines[i].new>> \in ticked

Sound(w) == PlanOK(w) /\ Grounded(w) /\ AgreedTo(w)

PlanInv ==
  /\ \A p \in Pid : screen[p] # Absent => Grounded(screen[p])
  /\ \A f \in Flow : pc[f] # "idle" => Grounded(req[f].body) /\ Agreed(req[f].body) \subseteq ticked
  /\ \A p \in Pid : plan[p] # Absent => Sound(plan[p])
  /\ \A f \in Flow : Open(f) => Sound(run[f].plan)

(* Rows are not taken back, nor is what was ticked. *)
Grows ==
  /\ \A t \in {"Entidades", "Artigos"} : Chaves(db[t]) \subseteq Chaves(db'[t])
  /\ ticked \subseteq ticked'

LEMMA SoundGrows ==
  ASSUME Grows
  PROVE  /\ \A w : Grounded(w) => Grounded(w)'
         /\ \A w : Sound(w) => Sound(w)'
<1>1. \A m : \A t \in {"Entidades", "Artigos"} : Points(m, t) => Points(m, t)'
  BY DEF Grows, Points
<1>2. \A w : Grounded(w) => Grounded(w)'
  BY <1>1 DEF Grounded
<1>3. \A w : AgreedTo(w) => AgreedTo(w)'
  BY DEF Grows, AgreedTo
<1>4. \A w : PlanOK(w)' <=> PlanOK(w)
  BY DEF PlanOK
<1>. QED BY <1>2, <1>3, <1>4 DEF Sound

LEMMA ResolvePoints ==
  ASSUME NEW t, NEW rows \in SUBSET db[t], NEW value, value # Absent
  PROVE  Points(Resolve(rows, value), t)
<1>1. CASE rows = {}
  BY <1>1 DEF Resolve, Points, New
<1>2. CASE rows # {} /\ Cardinality(rows) = 1
  <2>1. (CHOOSE r \in rows : TRUE) \in db[t]
    BY <1>2
  <2>2. (CHOOSE r \in rows : TRUE).Chave \in Chaves(db[t])
    BY <2>1 DEF Chaves
  <2>. QED BY <1>2, <2>2 DEF Resolve, Points, Matched
<1>3. CASE rows # {} /\ Cardinality(rows) # 1
  BY <1>3 DEF Resolve, Points, Ambiguous, Chaves
<1>. QED BY <1>1, <1>2, <1>3

LEMMA ResolveNew ==
  ASSUME NEW rows, NEW value, Resolve(rows, value).status = "new"
  PROVE  rows = {} /\ Resolve(rows, value) = New(value)
  BY DEF Resolve, Matched, Ambiguous

LEMMA MatchPoints ==
  ASSUME TInv
  PROVE  /\ \A s \in Supplier : /\ Points(MatchSupplier(s), "Entidades")
                                /\ MatchSupplier(s).status = "new" => MatchSupplier(s) = New(s)
         /\ \A x \in Text : /\ Points(MatchLine(x), "Artigos")
                            /\ MatchLine(x).status = "new" => MatchLine(x) = New(x)
<1>1. ASSUME NEW s \in Supplier
      PROVE  /\ Points(MatchSupplier(s), "Entidades")
             /\ MatchSupplier(s).status = "new" => MatchSupplier(s) = New(s)
  <2>. DEFINE sameNif == {r \in db["Entidades"] : s.nif # NoNif /\ r.nif = s.nif}
              named == NamedLike(db["Entidades"], s.name)
  <2>1. sameNif \in SUBSET db["Entidades"] /\ named \in SUBSET db["Entidades"]
    BY DEF NamedLike
  <2>2. s # Absent
    BY BillConstants
  <2>3. MatchSupplier(s) \in {Resolve(sameNif, s), Resolve(named, s)}
    BY DEF MatchSupplier
  <2>. HIDE DEF sameNif, named
  <2>. QED BY <2>1, <2>2, <2>3, ResolvePoints, ResolveNew
<1>2. ASSUME NEW x \in Text
      PROVE  /\ Points(MatchLine(x), "Artigos")
             /\ MatchLine(x).status = "new" => MatchLine(x) = New(x)
  <2>1. NamedLike(db["Artigos"], x) \in SUBSET db["Artigos"]
    BY DEF NamedLike
  <2>2. x # Absent
    BY BillConstants
  <2>. QED BY <2>1, <2>2, ResolvePoints, ResolveNew DEF MatchLine
<1>. QED BY <1>1, <1>2

LEMMA ProposalGrounded ==
  ASSUME TInv, NEW b \in Bill
  PROVE  Grounded(Proposal(b))
<1>1. b.sup \in Supplier /\ \A i \in DOMAIN b.lines : b.lines[i] \in Text
  BY DEF Bill
<1>2. /\ Proposal(b).sup = MatchSupplier(b.sup)
      /\ DOMAIN Proposal(b).lines = DOMAIN b.lines
      /\ \A i \in DOMAIN b.lines : Proposal(b).lines[i] = MatchLine(b.lines[i])
  BY DEF Proposal
<1>. QED BY <1>1, <1>2, MatchPoints DEF Grounded

LEMMA EditedPoints ==
  ASSUME NEW V, NEW m \in MatchOf(V), NEW t, Points(m, t), NEW e \in Edited(m)
  PROVE  Points(e, t)
<1>1. CASE m.candidates # {}
  <2>1. CASE e = m
    BY <2>1
  <2>2. ASSUME NEW c \in m.candidates, e = [m EXCEPT !.status = "matched", !.chave = c]
        PROVE  Points(e, t)
    <3>1. e.status = "matched" /\ e.chave = c /\ e.candidates = m.candidates
      BY <2>2 DEF MatchOf
    <3>. QED BY <3>1 DEF Points
  <2>. QED BY <1>1, <2>1, <2>2 DEF Edited
<1>2. CASE m.candidates = {} /\ m.status = "new"
  <2>1. PICK b \in BOOLEAN : e = [m EXCEPT !.confirmed = b]
    BY <1>2 DEF Edited
  <2>2. e.status = m.status /\ e.chave = m.chave /\ e.candidates = m.candidates /\ e.new = m.new
    BY <2>1 DEF MatchOf
  <2>. QED BY <2>2 DEF Points
<1>3. CASE m.candidates = {} /\ m.status # "new"
  BY <1>3 DEF Edited
<1>. QED BY <1>1, <1>2, <1>3

LEMMA EditsGrounded ==
  ASSUME NEW p \in ProposalType, Grounded(p), NEW e \in Edits(p)
  PROVE  Grounded(e)
<1>1. PICK b \in Typed, s \in Edited(p.sup),
           ls \in {l \in [DOMAIN p.lines -> UNION {Edited(p.lines[i]) : i \in DOMAIN p.lines}] :
                   \A i \in DOMAIN p.lines : l[i] \in Edited(p.lines[i])} :
        e = [bill |-> b, sup |-> s, lines |-> ls]
  BY DEF Edits
<1>2. /\ p.sup \in MatchOf(Supplier)
      /\ \A i \in DOMAIN p.lines : p.lines[i] \in MatchOf(Text)
  BY DEF ProposalType
<1>3. e.sup = s /\ e.lines = ls /\ DOMAIN ls = DOMAIN p.lines
  BY <1>1
<1>4. Points(s, "Entidades")
  BY <1>2, EditedPoints DEF Grounded
<1>5. \A i \in DOMAIN p.lines : Points(ls[i], "Artigos")
  BY <1>2, EditedPoints DEF Grounded
<1>. QED BY <1>3, <1>4, <1>5 DEF Grounded

(* Looking up again what is new keeps what the operator said of it. *)
LEMMA RenewedPoints ==
  ASSUME NEW V, NEW old \in MatchOf(V), NEW now \in MatchOf(V), NEW t,
         Points(old, t), Points(now, t)
  PROVE  /\ Points(Renewed(old, now), t)
         /\ Renewed(old, now).status = "new" /\ Renewed(old, now).confirmed =>
              now.status = "new" /\ old.confirmed /\ Renewed(old, now).new = now.new
  BY DEF Renewed, KeepConfirmation, Points, MatchOf

(* What a stage agrees to can be written, as it was agreed. *)
LEMMA PassedSound ==
  ASSUME TInv, NEW b \in ProposalType, Grounded(b), Agreed(b) \subseteq ticked,
         Passes(Rematch(b))
  PROVE  Sound(PlanOf(Rematch(b)))
<1> DEFINE r == Rematch(b)
           w == PlanOf(r)
<1>1. /\ b.sup \in MatchOf(Supplier) /\ b.bill.sup \in Supplier
      /\ b.lines \in Seq(MatchOf(Text)) /\ b.bill.lines \in Seq(Text)
  BY DEF ProposalType, Bill
<1>2. /\ r.bill = b.bill /\ r.sup = Renewed(b.sup, MatchSupplier(b.bill.sup))
      /\ r.lines = [i \in DOMAIN b.lines |-> Renewed(b.lines[i], MatchLine(b.bill.lines[i]))]
      /\ w.sup = r.sup /\ w.lines = r.lines
  BY DEF Rematch, PlanOf
<1>3. /\ Len(b.bill.lines) = Len(r.lines)
      /\ Confirmed(r.sup) /\ Picked(r.sup)
      /\ \A i \in DOMAIN r.lines : Confirmed(r.lines[i]) /\ Picked(r.lines[i])
  BY <1>2 DEF Passes
<1>. HIDE DEF r, w
<1>4. DOMAIN r.lines = DOMAIN b.lines /\ DOMAIN b.lines = DOMAIN b.bill.lines
  <2>1. DOMAIN r.lines = DOMAIN b.lines
    BY <1>2
  <2>2. r.lines = [i \in 1..Len(b.lines) |-> r.lines[i]]
    BY <1>1, <1>2
  <2>3. Len(r.lines) = Len(b.lines)
    BY <1>1, <2>2
  <2>. QED BY <1>1, <1>3, <2>1, <2>3
<1>5. ASSUME NEW old, NEW now, NEW V, old \in MatchOf(V), now \in MatchOf(V),
             NEW t \in {"Entidades", "Artigos"}, Points(old, t), Points(now, t),
             Confirmed(Renewed(old, now)), Picked(Renewed(old, now))
      PROVE  Resolved(Renewed(old, now)) \/ Creatable(Renewed(old, now))
  <2>. DEFINE m == Renewed(old, now)
  <2>1. Points(m, t) /\ m \in MatchOf(V)
    BY <1>5, RenewedPoints, RenewedType
  <2>2. 0 \notin Chaves(db[t])
    <3>1. \A x \in db["Entidades"] \cup db["Artigos"] : x.Chave # 0
      BY DEF TInv, TypeOK, Tables
    <3>. QED BY <3>1 DEF Chaves
  <2>3. m.status = "matched" \/ m.status = "new" \/ m.status = "ambiguous"
    BY <2>1 DEF MatchOf
  <2>. HIDE DEF m
  <2>. QED BY <1>5, <2>1, <2>2, <2>3 DEF Points, Confirmed, Picked, Resolved, Creatable, m
<1>6. /\ MatchSupplier(b.bill.sup) \in MatchOf(Supplier)
      /\ Points(MatchSupplier(b.bill.sup), "Entidades") /\ Points(b.sup, "Entidades")
  BY <1>1, MatchPoints, MatchSupplierType DEF Grounded, TInv, TypeOK
<1>7. ASSUME NEW i \in DOMAIN b.lines
      PROVE  /\ b.bill.lines[i] \in Text /\ b.lines[i] \in MatchOf(Text)
             /\ MatchLine(b.bill.lines[i]) \in MatchOf(Text)
             /\ Points(MatchLine(b.bill.lines[i]), "Artigos") /\ Points(b.lines[i], "Artigos")
             /\ r.lines[i] = Renewed(b.lines[i], MatchLine(b.bill.lines[i]))
  <2>1. b.bill.lines[i] \in Text /\ b.lines[i] \in MatchOf(Text)
    BY <1>1, <1>4
  <2>. QED BY <1>2, <2>1, MatchPoints, MatchLineType DEF Grounded, TInv, TypeOK
<1>8. PlanOK(w)
  <2>1. Resolved(r.sup) \/ Creatable(r.sup)
    BY <1>1, <1>2, <1>3, <1>5, <1>6
  <2>2. \A i \in DOMAIN r.lines : Resolved(r.lines[i]) \/ Creatable(r.lines[i])
    BY <1>3, <1>4, <1>5, <1>7
  <2>. QED BY <1>2, <2>1, <2>2 DEF PlanOK
<1>9. Grounded(w)
  <2>1. Points(r.sup, "Entidades")
    BY <1>1, <1>2, <1>6, RenewedPoints
  <2>2. \A i \in DOMAIN r.lines : Points(r.lines[i], "Artigos")
    BY <1>4, <1>7, RenewedPoints
  <2>. QED BY <1>2, <2>1, <2>2 DEF Grounded
<1>10. AgreedTo(w)
  <2>1. r.sup.status = "new" => <<"Entidades", r.sup.new>> \in ticked
    <3>1. SUFFICES ASSUME r.sup.status = "new" PROVE <<"Entidades", r.sup.new>> \in ticked
      OBVIOUS
    <3>2. /\ b.sup.confirmed
          /\ MatchSupplier(b.bill.sup).status = "new" /\ r.sup.new = MatchSupplier(b.bill.sup).new
      BY <1>1, <1>2, <1>3, <1>6, <3>1, RenewedPoints DEF Confirmed
    <3>3. r.sup.new = b.bill.sup
      BY <1>1, <3>2, MatchPoints DEF New
    <3>4. <<"Entidades", b.bill.sup>> \in Agreed(b)
      BY <3>2 DEF Agreed
    <3>. QED BY <3>3, <3>4
  <2>2. ASSUME NEW i \in DOMAIN r.lines, r.lines[i].status = "new"
        PROVE  <<"Artigos", r.lines[i].new>> \in ticked
    <3>1. i \in DOMAIN b.lines
      BY <1>4
    <3>2. /\ b.lines[i].confirmed
          /\ MatchLine(b.bill.lines[i]).status = "new"
          /\ r.lines[i].new = MatchLine(b.bill.lines[i]).new
      BY <1>3, <1>7, <2>2, <3>1, RenewedPoints DEF Confirmed
    <3>3. r.lines[i].new = b.bill.lines[i]
      BY <1>7, <3>1, <3>2, MatchPoints DEF New
    <3>4. <<"Artigos", b.bill.lines[i]>> \in Agreed(b)
      BY <3>1, <3>2 DEF Agreed
    <3>. QED BY <3>3, <3>4
  <2>. QED BY <1>2, <2>1, <2>2 DEF AgreedTo
<1>. QED BY <1>8, <1>9, <1>10 DEF Sound, w, r

LEMMA PlanFrame ==
  ASSUME PlanInv, Grows, UNCHANGED screen,
         \A f \in Flow : pc'[f] # "idle" => pc[f] # "idle" /\ req'[f].body = req[f].body,
         \A p \in Pid : plan'[p] \in {plan[p], Absent},
         \A f \in Flow : Open(f)' => Open(f) /\ run'[f].plan = run[f].plan
  PROVE  PlanInv'
<1>1. \A p \in Pid : screen'[p] # Absent => Grounded(screen[p])'
  BY SoundGrows DEF PlanInv
<1>2. \A f \in Flow : pc'[f] # "idle" =>
        Grounded(req[f].body)' /\ Agreed(req'[f].body) \subseteq ticked'
  BY SoundGrows DEF PlanInv, Grows
<1>3. \A p \in Pid : plan'[p] # Absent => Sound(plan[p])'
  BY SoundGrows DEF PlanInv
<1>4. \A f \in Flow : Open(f)' => Sound(run[f].plan)'
  BY SoundGrows DEF PlanInv
<1>. QED BY <1>1, <1>2, <1>3, <1>4 DEF PlanInv

LEMMA SameRowsGrow ==
  ASSUME UNCHANGED db, ticked \subseteq ticked'
  PROVE  Grows
  BY DEF Grows

LEMMA InitPlanInv == Init => PlanInv
  BY DEF Init, PlanInv, Open

LEMMA UploadPlanInv ==
  ASSUME TInv, PlanInv, NEW p \in Pid, Upload(p)
  PROVE  PlanInv'
<1>1. /\ UNCHANGED <<ticked, pc, req, plan, run, db>>
      /\ \E b \in Extracted : screen' = [screen EXCEPT ![p] = Proposal(Blanked(b))]
  BY DEF Upload, storage
<1>2. PICK b \in Extracted : screen' = [screen EXCEPT ![p] = Proposal(Blanked(b))]
  BY <1>1
<1>3. Grounded(Proposal(Blanked(b)))
  <2>1. b \in Bill
    BY BillConstants
  <2>. QED BY <2>1, BlankedType, ProposalGrounded
<1>4. Grows
  BY <1>1, SameRowsGrow
<1>5. \A w : (Grounded(w) => Grounded(w)') /\ (Sound(w) => Sound(w)')
  BY <1>4, SoundGrows
<1>6. ASSUME NEW q \in Pid, screen'[q] # Absent  PROVE Grounded(screen[q])'
  <2>1. Grounded(screen'[q])
    BY <1>2, <1>3, <1>6 DEF PlanInv, TInv, TypeOK
  <2>. QED BY <2>1, <1>5
<1>7. \A f \in Flow : Open(f)' <=> Open(f)
  BY <1>1 DEF Open
<1>. QED BY <1>1, <1>5, <1>6, <1>7 DEF PlanInv

LEMMA AcceptPlanInv ==
  ASSUME TInv, PlanInv, NEW f \in Flow, NEW p \in Pid, Accept(f, p)
  PROVE  PlanInv'
<1>1. PICK e \in Edits(screen[p]) :
        /\ screen' = [screen EXCEPT ![p] = e]
        /\ req' = [req EXCEPT ![f] = [pid |-> p, body |-> e, warned |-> FALSE]]
        /\ ticked' = ticked \cup Agreed(e)
  BY DEF Accept
<1>2. /\ screen[p] # Absent /\ pc' = [pc EXCEPT ![f] = "staging"]
      /\ UNCHANGED <<plan, run, db>>
  BY DEF Accept, service, storage
<1>3. Grounded(e)
  <2>1. screen[p] \in ProposalType /\ Grounded(screen[p])
    BY <1>2 DEF TInv, TypeOK, PlanInv
  <2>. QED BY <2>1, EditsGrounded
<1>4. Grows
  BY <1>1, <1>2, SameRowsGrow
<1>5. \A w : (Grounded(w) => Grounded(w)') /\ (Sound(w) => Sound(w)')
  BY <1>4, SoundGrows
<1>6. /\ screen'[p] = e /\ \A q \in Pid \ {p} : screen'[q] = screen[q]
      /\ req'[f].body = e /\ pc'[f] = "staging"
      /\ \A g \in Flow \ {f} : req'[g] = req[g] /\ pc'[g] = pc[g]
  BY <1>1, <1>2 DEF TInv, TypeOK
<1>7. \A q \in Pid : screen'[q] # Absent => Grounded(screen[q])'
  <2>1. \A q \in Pid : screen'[q] # Absent => Grounded(screen'[q])
    BY <1>3, <1>6 DEF PlanInv
  <2>. QED BY <2>1, <1>5
<1>8. \A g \in Flow : pc'[g] # "idle" => Grounded(req[g].body)' /\ Agreed(req'[g].body) \subseteq ticked'
  <2>1. \A g \in Flow : pc'[g] # "idle" => Grounded(req'[g].body)
    BY <1>3, <1>6 DEF PlanInv
  <2>2. \A g \in Flow : pc'[g] # "idle" => Agreed(req'[g].body) \subseteq ticked'
    BY <1>1, <1>6 DEF PlanInv
  <2>. QED BY <2>1, <2>2, <1>5
<1>9. \A g \in Flow : Open(g)' => Open(g)
  BY <1>6 DEF Open
<1>. QED BY <1>2, <1>5, <1>7, <1>8, <1>9 DEF PlanInv

LEMMA StagePutPlanInv ==
  ASSUME TInv, PlanInv, NEW f \in Flow, StagePut(f)
  PROVE  PlanInv'
<1> DEFINE w == PlanOf(Rematch(req[f].body))
<1>1. /\ pc[f] = "checking" /\ Passes(Rematch(req[f].body))
      /\ plan' = [plan EXCEPT ![req[f].pid] = w]
      /\ UNCHANGED <<screen, ticked, req, run, db>> /\ pc' = [pc EXCEPT ![f] = "warning"]
  BY DEF StagePut, browser, storage
<1>2. /\ req[f] \in RequestType /\ req[f].pid \in Pid /\ req[f].body \in ProposalType
      /\ Grounded(req[f].body) /\ Agreed(req[f].body) \subseteq ticked
  BY <1>1 DEF TInv, TypeOK, RequestType, PlanInv
<1>3. Sound(w)
  BY <1>1, <1>2, PassedSound
<1>. HIDE DEF w
<1>4. Grows
  BY <1>1, SameRowsGrow
<1>5. \A x : (Grounded(x) => Grounded(x)') /\ (Sound(x) => Sound(x)')
  BY <1>4, SoundGrows
<1>8. pc'[f] = "warning" /\ \A g \in Flow \ {f} : pc'[g] = pc[g]
  BY <1>1 DEF TInv, TypeOK
<1>9. \A p \in Pid : plan'[p] # Absent => Sound(plan[p])'
  <2>1. \A p \in Pid : plan'[p] # Absent => Sound(plan'[p])
    BY <1>1, <1>2, <1>3 DEF PlanInv, TInv, TypeOK
  <2>. QED BY <2>1, <1>5
<1>10. \A g \in Flow : pc'[g] # "idle" => Grounded(req[g].body)' /\ Agreed(req'[g].body) \subseteq ticked'
  <2>1. \A g \in Flow : pc'[g] # "idle" => Grounded(req'[g].body) /\ Agreed(req'[g].body) \subseteq ticked
    BY <1>1, <1>2, <1>8 DEF PlanInv
  <2>. QED BY <2>1, <1>1, <1>5
<1>11. \A g \in Flow : Open(g)' => Open(g)
  BY <1>8 DEF Open
<1>12. \A q \in Pid : screen'[q] # Absent => Grounded(screen[q])'
  BY <1>1, <1>5 DEF PlanInv
<1>13. \A g \in Flow : Open(g)' => Sound(run[g].plan)'
  BY <1>1, <1>5, <1>11 DEF PlanInv
<1>. QED BY <1>9, <1>10, <1>12, <1>13 DEF PlanInv

LEMMA CommitBeginPlanInv ==
  ASSUME TInv, PlanInv, NEW f \in Flow, CommitBegin(f)
  PROVE  PlanInv'
<1> DEFINE q == req[f].pid
<1>1. /\ pc[f] = "staged" /\ plan[q] # Absent
      /\ plan' = [plan EXCEPT ![q] = Absent]
      /\ run' = [run EXCEPT ![f] = [Stopped EXCEPT !.plan = plan[q]]]
      /\ pc' = [pc EXCEPT ![f] = "supplier"]
      /\ UNCHANGED <<screen, ticked, req, db>>
  BY DEF CommitBegin, SpendPlan, browser, storage
<1>2. q \in Pid
  BY <1>1 DEF TInv, TypeOK, RequestType
<1>. HIDE DEF q
<1>3. /\ run'[f].plan = plan[q] /\ pc'[f] = "supplier"
      /\ \A g \in Flow \ {f} : run'[g] = run[g] /\ pc'[g] = pc[g]
  BY <1>1 DEF Stopped, TInv, TypeOK
<1>4. Grows
  BY <1>1, SameRowsGrow
<1>5. \A x : (Grounded(x) => Grounded(x)') /\ (Sound(x) => Sound(x)')
  BY <1>4, SoundGrows
<1>6. \A g \in Flow : Open(g)' => Sound(run[g].plan)'
  <2>1. \A g \in Flow : Open(g)' => Sound(run'[g].plan)
    BY <1>1, <1>2, <1>3 DEF PlanInv, Open
  <2>. QED BY <2>1, <1>5
<1>7. \A p \in Pid : plan'[p] # Absent => Sound(plan[p])'
  <2>1. \A p \in Pid : plan'[p] # Absent => Sound(plan'[p])
    BY <1>1 DEF PlanInv, TInv, TypeOK
  <2>. QED BY <2>1, <1>5
<1>8. \A g \in Flow : pc'[g] # "idle" => Grounded(req[g].body)' /\ Agreed(req'[g].body) \subseteq ticked'
  BY <1>1, <1>3, <1>5 DEF PlanInv
<1>9. \A p \in Pid : screen'[p] # Absent => Grounded(screen[p])'
  BY <1>1, <1>5 DEF PlanInv
<1>. QED BY <1>6, <1>7, <1>8, <1>9 DEF PlanInv

(* What the rest of an Accept's steps have in common. *)
LEMMA OtherSteps ==
  ASSUME TInv, NEW f \in Flow,
         \/ StageBegin(f) \/ StageRefuse(f) \/ StageOk(f) \/ StageLost(f)
         \/ CommitNothing(f) \/ Transaction(f) \/ Fail(f)
  PROVE  /\ Grows /\ UNCHANGED <<screen, ticked>>
         /\ \A g \in Flow \ {f} : pc'[g] = pc[g] /\ req'[g] = req[g] /\ run'[g] = run[g]
         /\ pc'[f] # "idle" => /\ pc[f] # "idle" /\ req'[f].pid = req[f].pid
                               /\ req'[f].body = req[f].body
         /\ \A p \in Pid : plan'[p] \in {plan[p], Absent}
         /\ Open(f)' => Open(f) /\ run'[f].plan = run[f].plan
<1>1. /\ pc \in [Flow -> PcType] /\ req \in [Flow -> RequestType \cup {Absent}]
      /\ run \in [Flow -> RunType] /\ run[f] \in RunType
  BY DEF TInv, TypeOK
<1>2. CASE StageBegin(f)
  <2>1. /\ UNCHANGED <<screen, ticked, req, run, db>>
        /\ pc[f] = "staging" /\ pc' = [pc EXCEPT ![f] = "checking"]
        /\ plan' = [plan EXCEPT ![req[f].pid] = Absent]
    BY <1>2 DEF StageBegin, PopPlan, browser, storage
  <2>2. \A p \in Pid : plan'[p] \in {plan[p], Absent}
    BY <2>1 DEF TInv, TypeOK
  <2>. QED BY <1>1, <2>1, <2>2, SameRowsGrow DEF Open
<1>12. CASE StageOk(f)
  <2>1. /\ UNCHANGED <<screen, ticked, plan, run, db>> /\ pc[f] = "warning"
        /\ pc' = [pc EXCEPT ![f] = "staged"]
    BY <1>12 DEF StageOk, browser, storage
  <2>2. PICK d : req' = [req EXCEPT ![f] = [req[f] EXCEPT !.warned = d]]
    BY <1>12 DEF StageOk
  <2>3. req[f] \in RequestType
    BY <2>1 DEF TInv, TypeOK
  <2>4. /\ req'[f].pid = req[f].pid /\ req'[f].body = req[f].body
        /\ \A g \in Flow \ {f} : req'[g] = req[g]
    BY <1>1, <2>2, <2>3 DEF RequestType
  <2>. QED BY <1>1, <2>1, <2>4, SameRowsGrow DEF Open
<1>3. CASE StageRefuse(f) \/ StageLost(f) \/ CommitNothing(f)
  <2>1. /\ UNCHANGED <<screen, ticked, plan, run, db>>
        /\ pc' = [pc EXCEPT ![f] = "idle"] /\ req' = [req EXCEPT ![f] = Absent]
    BY <1>3 DEF StageRefuse, StageLost, CommitNothing, Finish, browser, service, storage
  <2>. QED BY <1>1, <2>1, SameRowsGrow DEF Open
<1>4. CASE Reuse(f)
  <2>1. /\ UNCHANGED <<screen, ticked, plan, req, db>> /\ pc[f] \in {"supplier", "article"}
        /\ pc' = [pc EXCEPT ![f] = IF @ = "supplier" THEN "document" ELSE "line"]
        /\ \E k : run' = [run EXCEPT ![f] = [run[f] EXCEPT !.sup = k]]
                  \/ run' = [run EXCEPT ![f] = [run[f] EXCEPT !.art = k]]
    BY <1>4 DEF Reuse, browser, service, storage
  <2>2. run'[f].plan = run[f].plan /\ \A g \in Flow \ {f} : run'[g] = run[g]
    BY <1>1, <2>1 DEF RunType
  <2>. QED BY <1>1, <2>1, <2>2, SameRowsGrow DEF Open
<1>5. CASE ReadKey(f)
  <2>1. /\ UNCHANGED <<screen, ticked, plan, req, db, pc>> /\ pc[f] \in DOMAIN Written
        /\ \E k : run' = [run EXCEPT ![f] = [run[f] EXCEPT !.key = k]]
    BY <1>5 DEF ReadKey, browser, service, storage
  <2>2. run'[f].plan = run[f].plan /\ \A g \in Flow \ {f} : run'[g] = run[g]
    BY <1>1, <2>1 DEF RunType
  <2>. QED BY <1>1, <2>1, <2>2, SameRowsGrow DEF Open, Written
<1>6. CASE InsertSupplier(f) \/ InsertDocument(f) \/ InsertArticle(f) \/ InsertLine(f)
  <2>1. /\ UNCHANGED <<screen, ticked, plan, req, db>>
        /\ pc[f] \in {"supplier", "document", "article", "line"}
        /\ \E next : pc' = [pc EXCEPT ![f] = next]
    BY <1>6 DEF InsertSupplier, InsertDocument, InsertArticle, InsertLine, Insert,
                browser, service, storage
  <2>2. \E r \in RunType : r.plan = run[f].plan /\ run' = [run EXCEPT ![f] = [r EXCEPT !.key = 0]]
    <3>1. /\ [run[f] EXCEPT !.sup = run[f].key] \in RunType
          /\ [run[f] EXCEPT !.doc = run[f].key] \in RunType
          /\ [run[f] EXCEPT !.art = run[f].key] \in RunType
          /\ [run[f] EXCEPT !.at = @ + 1] \in RunType
          /\ [run[f] EXCEPT !.sup = run[f].key].plan = run[f].plan
          /\ [run[f] EXCEPT !.doc = run[f].key].plan = run[f].plan
          /\ [run[f] EXCEPT !.art = run[f].key].plan = run[f].plan
          /\ [run[f] EXCEPT !.at = @ + 1].plan = run[f].plan
      BY <1>1 DEF RunType
    <3>. QED BY <1>6, <3>1 DEF InsertSupplier, InsertDocument, InsertArticle, InsertLine, Insert
  <2>3. run'[f].plan = run[f].plan /\ \A g \in Flow \ {f} : run'[g] = run[g]
    BY <1>1, <2>2 DEF RunType
  <2>. QED BY <1>1, <2>1, <2>3, SameRowsGrow DEF Open
<1>7. CASE Audit(f)
  <2>1. /\ UNCHANGED <<screen, ticked, plan, req, db, run>> /\ pc[f] = "audit"
        /\ pc' = [pc EXCEPT ![f] = "landing"]
    BY <1>7 DEF Audit, browser, service
  <2>. QED BY <1>1, <2>1, SameRowsGrow DEF Open
<1>8. CASE Land(f)
  <2>1. /\ UNCHANGED <<screen, ticked, plan, req, run>> /\ pc[f] = "landing"
        /\ db' = [t \in Table |-> db[t] \cup tx[f][t]]
        /\ \E next \in {"landed", "failing"} : pc' = [pc EXCEPT ![f] = next]
    BY <1>8 DEF Land, browser, service
  <2>2. Grows
    BY <2>1 DEF Grows, Table, Chaves
  <2>. QED BY <1>1, <2>1, <2>2 DEF Open
<1>9. CASE RecordFailure(f)
  <2>1. /\ UNCHANGED <<screen, ticked, plan>> /\ pc[f] = "failing"
        /\ pc' = [pc EXCEPT ![f] = "idle"] /\ req' = [req EXCEPT ![f] = Absent]
        /\ run' = [run EXCEPT ![f] = Stopped]
    BY <1>9 DEF RecordFailure, Finish, browser, service
  <2>2. \A t \in {"Entidades", "Artigos"} : db'[t] = db[t]
    <3>1. DOMAIN db = Table
      <4>1. db = [t \in Table |-> db[t]]
        BY DEF TInv, TypeOK, Tables
      <4>2. DOMAIN [t \in Table |-> db[t]] = Table
        OBVIOUS
      <4>. QED BY <4>1, <4>2, Zenon
    <3>. QED BY <1>9, <3>1 DEF RecordFailure, Table
  <2>3. Grows
    BY <2>1, <2>2 DEF Grows
  <2>. QED BY <1>1, <2>1, <2>3 DEF Open
<1>10. CASE Answer(f)
  <2>1. /\ UNCHANGED <<screen, ticked, plan, db>> /\ pc[f] = "landed"
        /\ pc' = [pc EXCEPT ![f] = "idle"] /\ req' = [req EXCEPT ![f] = Absent]
        /\ run' = [run EXCEPT ![f] = Stopped]
    BY <1>10 DEF Answer, Finish, browser, storage
  <2>. QED BY <1>1, <2>1, SameRowsGrow DEF Open
<1>11. CASE Fail(f)
  <2>1. /\ UNCHANGED <<screen, ticked, plan, req, run, db>>
        /\ pc' = [pc EXCEPT ![f] = "failing"] /\ pc[f] # "idle"
    BY <1>11 DEF Fail, MustFail, Written, Open, browser, service, storage
  <2>. QED BY <1>1, <2>1, SameRowsGrow DEF Open
<1>. QED BY <1>2, <1>3, <1>4, <1>5, <1>6, <1>7, <1>8, <1>9, <1>10, <1>11, <1>12 DEF Transaction

LEMMA PlanInvStep == TInv /\ PlanInv /\ [Next]_vars => PlanInv'
<1> SUFFICES ASSUME TInv, PlanInv, [Next]_vars PROVE PlanInv'
  OBVIOUS
<1>1. CASE \E p \in Pid : Upload(p)
  BY <1>1, UploadPlanInv
<1>2. CASE \E f \in Flow, p \in Pid : Accept(f, p)
  BY <1>2, AcceptPlanInv
<1>3. CASE \E f \in Flow : StagePut(f) \/ CommitBegin(f)
  BY <1>3, StagePutPlanInv, CommitBeginPlanInv
<1>4. ASSUME NEW f \in Flow,
             \/ StageBegin(f) \/ StageRefuse(f) \/ StageOk(f) \/ StageLost(f)
             \/ CommitNothing(f) \/ Transaction(f) \/ Fail(f)
      PROVE  PlanInv'
  <2>1. \A g \in Flow : pc'[g] # "idle" => pc[g] # "idle" /\ req'[g].body = req[g].body
    BY <1>4, OtherSteps
  <2>2. \A g \in Flow : Open(g)' => Open(g) /\ run'[g].plan = run[g].plan
    BY <1>4, OtherSteps DEF Open
  <2>. QED BY <1>4, <2>1, <2>2, OtherSteps, PlanFrame
<1>5. CASE Crash
  <2>1. /\ UNCHANGED <<screen, ticked, db>>
        /\ \A g \in Flow : pc'[g] # "idle" => pc[g] # "idle" /\ req'[g] = req[g]
        /\ \A p \in Pid : plan'[p] = Absent
        /\ \A g \in Flow : ~ Open(g)'
    BY <1>5 DEF Crash, browser, Open
  <2>. QED BY <2>1, PlanFrame, SameRowsGrow
<1>6. CASE UNCHANGED vars
  <2>1. UNCHANGED <<screen, ticked, db, pc, req, plan, run>>
    BY <1>6 DEF vars, browser, service, storage
  <2>. QED BY <2>1, PlanFrame, SameRowsGrow DEF Open
<1>. QED BY <1>1, <1>2, <1>3, <1>4, <1>5, <1>6 DEF Next

(* A plan that passed the gate gives the executor nothing to refuse, however *)
(* the screens were edited and whatever was committed since they were made   *)
(* (service.py, stage(): re-match, then gate).                               *)
THEOREM PlansCorrect == Spec => []PlansAreWritable
<1>1. PlanInv => PlansAreWritable
  BY DEF PlanInv, Sound, PlansAreWritable
<1>. QED BY <1>1, InitTInv, TInvStep, InitPlanInv, PlanInvStep, PTL DEF Spec
=============================================================================
