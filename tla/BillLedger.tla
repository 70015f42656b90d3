----------------------------- MODULE BillLedger -----------------------------
(***************************************************************************)
(* What the write database promises about bills, whatever happens to the    *)
(* service: a bill is posted in one step - its header, its lines, the       *)
(* supplier and the articles created for it and its audit row - or leaves   *)
(* nothing but, perhaps, a note that writing it failed.  Nothing is ever    *)
(* changed or removed.                                                      *)
(***************************************************************************)
EXTENDS Naturals

CONSTANTS Entidades0, Artigos0

VARIABLE books   \* the tables, by name, as sets of rows

Keys(rows) == {r.Chave : r \in rows}

Added(t) == books'[t] \ books[t]

Init ==
  /\ books["Entidades"] = Entidades0 /\ books["Artigos"] = Artigos0
  /\ \A t \in {"Doc001", "LinDoc001", "BillAudit"} : books[t] = {}

Append == \A t \in DOMAIN books : books[t] \subseteq books'[t]

\* New rows take keys nobody has, one each.
NewKeys(t) ==
  /\ Keys(Added(t)) \cap Keys(books[t]) = {}
  /\ \A r, s \in Added(t) : r.Chave = s.Chave => r = s

\* One bill: at most one new supplier, one header of a known one, lines of that
\* header over known articles, and one "ok" audit row that names it.
Post ==
  /\ Append
  /\ \A t \in {"Entidades", "Artigos", "Doc001", "LinDoc001"} : NewKeys(t)
  /\ \A r, s \in Added("Entidades") : r = s
  /\ \E d \in Added("Doc001") :
       /\ Added("Doc001") = {d}
       /\ d.Entidade \in Keys(books'["Entidades"])
       /\ \A l \in Added("LinDoc001") :
            l.Documento = d.Chave /\ l.ChaveProd \in Keys(books'["Artigos"])
       /\ \E a \in Added("BillAudit") :
            Added("BillAudit") = {a} /\ a.status = "ok" /\ a.document = d.Chave

NoteFailure ==
  /\ Append
  /\ \A t \in DOMAIN books \ {"BillAudit"} : books'[t] = books[t]
  /\ \E a \in Added("BillAudit") : Added("BillAudit") = {a} /\ a.status = "error"

Next == Post \/ NoteFailure

Spec == Init /\ [][Next]_books
=============================================================================
