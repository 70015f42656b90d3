--------------------------- MODULE MCBillIngestion ---------------------------
(* Instances of BillIngestion small enough to enumerate. *)
EXTENDS BillIngestion

CONSTANTS acme, acmeLda, bolts, nuts, n1, n2, bad, r1, none

MCLike == {<<t, t>> : t \in Text} \cup {<<acme, acmeLda>>}

Of(nif, name) == [nif |-> nif, name |-> name]
OneLine(s, form, text) == [sup |-> s, vref |-> r1, form |-> form, lines |-> <<text>>]

\* One operator at a time, rich data: a new supplier, a corrected tax id, a name
\* that matches two suppliers, an incomplete and an invalid form.
SoloExtracted == {OneLine(Of(bad, acmeLda), "ok", bolts),
                  OneLine(Of(none, acme), "incomplete", nuts)}
SoloTyped ==
  {OneLine(s, form, text) :
     s \in {Of(n1, acmeLda), Of(none, acme)}, form \in {"ok", "invalid"}, text \in {bolts, nuts}}
SoloEntidades == {[Chave |-> 3, nif |-> n2, name |-> acme]}
SoloArtigos == {[Chave |-> 7, name |-> nuts], [Chave |-> 9, name |-> nuts]}

\* Accepts that overlap: two screens, the same new supplier, a known article and
\* a new one.
DuoBill(s, lines) == [sup |-> s, vref |-> r1, form |-> "ok", lines |-> lines]
OneExtracted == {DuoBill(Of(n1, acme), <<nuts, bolts>>)}
DuoArtigos == {[Chave |-> 7, name |-> nuts]}
NoEntidades == {}

\* Bills of a new supplier and of a known one, their articles in opposite orders.
TwoExtracted == OneExtracted \cup {DuoBill(Of(n2, bolts), <<bolts, nuts>>)}
TwoEntidades == {[Chave |-> 5, nif |-> n2, name |-> bolts]}
=============================================================================
