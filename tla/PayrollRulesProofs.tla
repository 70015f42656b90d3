------------------------- MODULE PayrollRulesProofs -------------------------
(***************************************************************************)
(* PayrollRules for any set of components and any documents: what merging   *)
(* comes to, that the lock of a component's first layer holds, and that a   *)
(* plan which is executed is in order.                                      *)
(***************************************************************************)
EXTENDS PayrollRules, TLAPS, WellFoundedInduction

(***************************************************************************)
(* Helpers                                                                  *)
(***************************************************************************)

LEMMA UpdatedFacts ==
  ASSUME NEW f, NEW g
  PROVE  /\ DOMAIN Updated(f, g) = DOMAIN f \cup DOMAIN g
         /\ \A n \in DOMAIN g : Updated(f, g)[n] = g[n]
         /\ \A n \in DOMAIN f \ DOMAIN g : Updated(f, g)[n] = f[n]
BY DEF Updated

LEMMA UpdatedType ==
  ASSUME NEW S, NEW f, NEW g, f \in [DOMAIN f -> S], g \in [DOMAIN g -> S]
  PROVE  Updated(f, g) \in [DOMAIN Updated(f, g) -> S]
BY DEF Updated

LEMMA ElemsAppend ==
  ASSUME NEW S, NEW s \in Seq(S), NEW e \in S
  PROVE  /\ Append(s, e) \in Seq(S)
         /\ Elems(Append(s, e)) = Elems(s) \cup {e}
<1>1. /\ Append(s, e) \in Seq(S) /\ DOMAIN s = 1..Len(s) /\ Len(s) \in Nat
      /\ DOMAIN Append(s, e) = 1..(Len(s) + 1)
      /\ \A i \in 1..Len(s) : Append(s, e)[i] = s[i]
      /\ Append(s, e)[Len(s) + 1] = e
  OBVIOUS
<1>2. ASSUME NEW x \in Elems(Append(s, e))  PROVE x \in Elems(s) \cup {e}
  BY <1>1, <1>2 DEF Elems
<1>3. ASSUME NEW x \in Elems(s) \cup {e}  PROVE x \in Elems(Append(s, e))
  <2>1. CASE x = e
    BY <1>1, <2>1 DEF Elems
  <2>2. CASE x \in Elems(s)
    BY <1>1, <2>2 DEF Elems
  <2>. QED BY <1>3, <2>1, <2>2
<1>. QED BY <1>1, <1>2, <1>3

LEMMA ElemsFront ==
  ASSUME NEW S, NEW s \in Seq(S), s # <<>>
  PROVE  /\ SubSeq(s, 1, Len(s) - 1) \in Seq(S)
         /\ DOMAIN SubSeq(s, 1, Len(s) - 1) = 1..(Len(s) - 1)
         /\ \A i \in 1..(Len(s) - 1) : SubSeq(s, 1, Len(s) - 1)[i] = s[i]
         /\ s[Len(s)] \in S
OBVIOUS

LEMMA LowestIs ==
  ASSUME NEW ls \in SUBSET Layer, ls # {}
  PROVE  Lowest(ls) \in ls /\ \A m \in ls : Lowest(ls) <= m
<1>1. \E l \in ls : \A m \in ls : l <= m
  <2>1. CASE 1 \in ls
    BY <2>1 DEF Layer
  <2>2. CASE 1 \notin ls /\ 2 \in ls
    BY <2>2 DEF Layer
  <2>3. CASE 1 \notin ls /\ 2 \notin ls
    <3>1. \A m \in ls : m \in 1..3
      BY DEF Layer
    <3>2. \A m \in ls : m = 3
      BY <2>3, <3>1
    <3>. QED BY <3>2
  <2>. QED BY <2>1, <2>2, <2>3
<1>. QED BY <1>1 DEF Lowest

LEMMA HighestIs ==
  ASSUME NEW ls \in SUBSET Layer, ls # {}
  PROVE  Highest(ls) \in ls /\ \A m \in ls : m <= Highest(ls)
<1>1. \E l \in ls : \A m \in ls : m <= l
  <2>1. CASE 3 \in ls
    BY <2>1 DEF Layer
  <2>2. CASE 3 \notin ls /\ 2 \in ls
    BY <2>2 DEF Layer
  <2>3. CASE 3 \notin ls /\ 2 \notin ls
    <3>1. \A m \in ls : m \in 1..3
      BY DEF Layer
    <3>2. \A m \in ls : m = 1
      BY <2>3, <3>1
    <3>. QED BY <3>2
  <2>. QED BY <2>1, <2>2, <2>3
<1>. QED BY <1>1 DEF Highest

(* A layer above all others becomes the highest and does not change the lowest. *)
LEMMA AddLayer ==
  ASSUME NEW ls \in SUBSET Layer, NEW l \in Layer, \A m \in ls : m < l
  PROVE  /\ Highest(ls \cup {l}) = l
         /\ Lowest(ls \cup {l}) = IF ls = {} THEN l ELSE Lowest(ls)
<1>1. /\ Highest(ls \cup {l}) \in ls \cup {l} /\ \A m \in ls \cup {l} : m <= Highest(ls \cup {l})
      /\ Lowest(ls \cup {l}) \in ls \cup {l} /\ \A m \in ls \cup {l} : Lowest(ls \cup {l}) <= m
  BY LowestIs, HighestIs
<1>2. ls # {} => Lowest(ls) \in ls /\ \A m \in ls : Lowest(ls) <= m
  BY LowestIs
<1>3. ls \cup {l} \subseteq 1..3
  BY DEF Layer
<1>. QED BY <1>1, <1>2, <1>3

(***************************************************************************)
(* Type correctness                                                         *)
(***************************************************************************)

(* Documents of layers not reached yet are empty. *)
TInv ==
  /\ TypeOK
  /\ \A l \in Layer : l > layer => DOMAIN docs[l] = {}
  /\ at # "failed" => error = "none"
  /\ Len(audit) <= Len(plan)

LEMMA InitTypes == Init => TInv
BY DEF Init, TInv, TypeOK, Nothing, Layer, PhaseOrder

LEMMA DeclareTypes ==
  ASSUME TInv, NEW c \in Code, NEW d \in Menu[layer][c], Declare(c, d)
  PROVE  TInv'
<1>1. d \in Decl
  BY MenuAssumption DEF TInv, TypeOK
<1> DEFINE one == [x \in {c} |-> d]
<1>2. /\ Updated(docs[layer], one) \in [DOMAIN Updated(docs[layer], one) -> Decl]
      /\ DOMAIN Updated(docs[layer], one) \subseteq Code
  <2>1. docs[layer] \in [DOMAIN docs[layer] -> Decl] /\ DOMAIN docs[layer] \subseteq Code
    BY DEF TInv, TypeOK
  <2>2. one \in [DOMAIN one -> Decl] /\ DOMAIN one = {c}
    BY <1>1
  <2>. HIDE DEF one
  <2>3. Updated(docs[layer], one) \in [DOMAIN Updated(docs[layer], one) -> Decl]
    BY <2>1, <2>2, UpdatedType
  <2>4. DOMAIN Updated(docs[layer], one) = DOMAIN docs[layer] \cup DOMAIN one
    BY UpdatedFacts
  <2>. QED BY <2>1, <2>2, <2>3, <2>4
<1>3. /\ DOMAIN docs' = Layer
      /\ \A l \in Layer : DOMAIN docs'[l] \subseteq Code /\ docs'[l] \in [DOMAIN docs'[l] -> Decl]
      /\ \A l \in Layer : l > layer' => DOMAIN docs'[l] = {}
  BY <1>2 DEF Declare, TInv, TypeOK, Layer
<1>4. DOMAIN resolved' \subseteq Code /\ resolved' \in [DOMAIN resolved' -> Component]
  <2>1. CASE d.disabled
    BY <2>1 DEF Declare, Without, TInv, TypeOK
  <2>2. CASE ~d.disabled /\ c \notin DOMAIN resolved
    <3> DEFINE fresh == [x \in {c} |-> Fresh(d, layer)]
    <3>1. Fresh(d, layer) \in Component
      BY <1>1 DEF Fresh, Component, Decl, TInv, TypeOK
    <3>2. fresh \in [DOMAIN fresh -> Component] /\ DOMAIN fresh = {c}
      BY <3>1
    <3>3. resolved' = Updated(resolved, fresh)
      BY <2>2 DEF Declare
    <3>. HIDE DEF fresh
    <3>4. DOMAIN resolved \subseteq Code /\ resolved \in [DOMAIN resolved -> Component]
      BY DEF TInv, TypeOK
    <3>5. Updated(resolved, fresh) \in [DOMAIN Updated(resolved, fresh) -> Component]
      BY <3>2, <3>4, UpdatedType
    <3>6. DOMAIN Updated(resolved, fresh) = DOMAIN resolved \cup DOMAIN fresh
      BY UpdatedFacts
    <3>. QED BY <3>2, <3>3, <3>4, <3>5, <3>6
  <2>3. CASE ~d.disabled /\ c \in DOMAIN resolved /\ ~Refused(resolved[c], d)
    <3>1. Merged(resolved[c], d, layer) \in Component
      <4>1. resolved[c] \in Component
        BY <2>3 DEF TInv, TypeOK
      <4>2. Updated(resolved[c].params, d.params) \in Params
        <5> DEFINE V == Rate \cup SUBSET Code
        <5>1. PICK ns \in SUBSET ParamName : resolved[c].params \in [ns -> V]
          BY <4>1 DEF Component, Params
        <5>2. PICK ms \in SUBSET ParamName : d.params \in [ms -> V]
          BY <1>1 DEF Decl, Params
        <5>. HIDE DEF V
        <5>3. Updated(resolved[c].params, d.params) \in [ns \cup ms -> V]
          BY <5>1, <5>2 DEF Updated
        <5>. QED BY <5>3 DEF Params, V
      <4>. QED BY <1>1, <4>1, <4>2 DEF Merged, Component, Decl, TInv, TypeOK
    <3>. QED BY <2>3, <3>1 DEF Declare, TInv, TypeOK
  <2>4. CASE ~d.disabled /\ c \in DOMAIN resolved /\ Refused(resolved[c], d)
    BY <2>4 DEF Declare, TInv, TypeOK
  <2>. QED BY <2>1, <2>2, <2>3, <2>4
<1>5. /\ at' \in {"resolve", "failed"} /\ error' \in {"none", "LOCKED_COMPONENT_OVERRIDE"}
      /\ at' # "failed" => error' = "none"
  BY DEF Declare, Raise, TInv
<1>6. UNCHANGED <<layer, phase, path, plan, audit>>
  BY DEF Declare
<1>. QED BY <1>3, <1>4, <1>5, <1>6 DEF TInv, TypeOK

LEMMA PlanTypes ==
  ASSUME TInv, NextLayer \/ Check \/ NextPhase
  PROVE  TInv'
<1>1. CASE NextLayer
  BY <1>1 DEF NextLayer, TInv, TypeOK, Layer
<1>2. CASE Check
  BY <1>2 DEF Check, Complaint, Raise, TInv, TypeOK
<1>3. CASE NextPhase
  BY <1>3 DEF NextPhase, TInv, TypeOK, PhaseOrder
<1>. QED BY <1>1, <1>2, <1>3

LEMMA SortTypes ==
  ASSUME TInv, (\E c \in Code : Visit(c) \/ Descend(c)) \/ Leave
  PROVE  TInv'
<1>1. CASE \E c \in Code : Visit(c)
  BY <1>1 DEF Visit, TInv, TypeOK
<1>2. CASE \E c \in Code : Descend(c)
  <2>1. path' \in Seq(Code)
    <3>1. PICK c \in Code : Descend(c)
      BY <1>2
    <3>2. path' = path \/ path' = Append(path, c)
      BY <3>1 DEF Descend
    <3>3. path \in Seq(Code)
      BY DEF TInv, TypeOK
    <3>. QED BY <3>2, <3>3, ElemsAppend
  <2>2. \/ UNCHANGED <<at, error>>
        \/ at' = "failed" /\ error' = "CYCLIC_DEPENDENCY"
    BY <1>2 DEF Descend, Raise
  <2>3. UNCHANGED <<docs, layer, resolved, phase, plan, audit>>
    BY <1>2 DEF Descend
  <2>. QED BY <2>1, <2>2, <2>3 DEF TInv, TypeOK
<1>3. CASE Leave
  <2>1. path \in Seq(Code) /\ path # <<>> /\ plan \in Seq(Code)
    BY <1>3 DEF Leave, TInv, TypeOK
  <2>2. path' \in Seq(Code) /\ Top \in Code
    BY <1>3, <2>1, ElemsFront DEF Leave, Top
  <2>3. plan' \in Seq(Code) /\ Len(plan') = Len(plan) + 1
    BY <1>3, <2>1, <2>2 DEF Leave
  <2>. QED BY <1>3, <2>1, <2>2, <2>3 DEF Leave, TInv, TypeOK
<1>. QED BY <1>1, <1>2, <1>3

LEMMA ExecuteTypes ==
  ASSUME TInv, Execute \/ Finish,
         \A i \in DOMAIN plan : plan[i] \in DOMAIN resolved /\ resolved[plan[i]].cites # {}
  PROVE  TInv'
<1>1. CASE Execute
  <2> DEFINE r == resolved[plan[Len(audit) + 1]]
  <2>1. r.cites \in SUBSET Layer /\ r.cites # {}
    BY <1>1 DEF Execute, TInv, TypeOK, Component
  <2>2. PrimaryCitation(r.cites) \in Layer
    BY <2>1, HighestIs DEF PrimaryCitation, Highest
  <2>3. audit' \in Seq(Layer) /\ Len(audit') <= Len(plan)
    <3>1. /\ audit' = audit \/ audit' = Append(audit, PrimaryCitation(r.cites))
          /\ Len(audit) < Len(plan)
      BY <1>1 DEF Execute
    <3>2. audit \in Seq(Layer) /\ plan \in Seq(Code)
      BY DEF TInv, TypeOK
    <3>. HIDE DEF r
    <3>. QED BY <2>2, <3>1, <3>2
  <2>4. /\ UNCHANGED <<docs, layer, resolved, phase, path, plan>>
        /\ \/ UNCHANGED <<at, error>>
           \/ at' = "failed" /\ error' = "TSU_MISSING_BASE_COMPONENT"
    BY <1>1 DEF Execute, Raise
  <2>. QED BY <2>3, <2>4 DEF TInv, TypeOK
<1>2. CASE Finish
  BY <1>2 DEF Finish, TInv, TypeOK
<1>. QED BY <1>1, <1>2

(***************************************************************************)
(* Resolution                                                               *)
(***************************************************************************)

(* Reading one more component of the current layer: what is in force for it  *)
(* then, and that nothing changes for the others.                            *)
LEMMA DeclareInForce ==
  ASSUME TInv, NEW c \in Code, NEW d \in Menu[layer][c], Declare(c, d)
  PROVE  /\ docs'[layer][c] = d
         /\ \A x \in Code : \A l \in InForce(x) : docs'[l][x] = docs[l][x] /\ l <= layer
         /\ \A l \in InForce(c) : l < layer
         /\ \A x \in Code \ {c} : InForce(x)' = InForce(x)
         /\ InForce(c)' = IF d.disabled THEN {} ELSE InForce(c) \cup {layer}
         /\ \A x \in Code : InForce(x) \in SUBSET Layer
<1> DEFINE one == [x \in {c} |-> d]
<1>1. /\ docs' = [docs EXCEPT ![layer] = Updated(@, one)]
      /\ c \notin DOMAIN docs[layer]
      /\ layer \in Layer /\ DOMAIN docs = Layer
      /\ \A l \in Layer : l > layer => DOMAIN docs[l] = {}
  BY DEF Declare, TInv, TypeOK
<1>2. /\ DOMAIN Updated(docs[layer], one) = DOMAIN docs[layer] \cup {c}
      /\ Updated(docs[layer], one)[c] = d
      /\ \A x \in DOMAIN docs[layer] : Updated(docs[layer], one)[x] = docs[layer][x]
  BY <1>1 DEF Updated
<1>3. /\ \A l \in Layer \ {layer} : docs'[l] = docs[l]
      /\ DOMAIN docs'[layer] = DOMAIN docs[layer] \cup {c}
      /\ docs'[layer][c] = d
      /\ \A x \in DOMAIN docs[layer] : docs'[layer][x] = docs[layer][x]
  BY <1>1, <1>2
<1>. HIDE DEF one
<1>4. ASSUME NEW x \in Code, NEW l \in InForce(x)
      PROVE  l \in Layer /\ x \in DOMAIN docs[l] /\ l <= layer /\ docs'[l][x] = docs[l][x]
  BY <1>1, <1>3 DEF InForce, Layer
<1>5. \A l \in InForce(c) : l < layer
  BY <1>1, <1>4 DEF Layer
<1>6. \A x \in Code \ {c} : InForce(x)' = InForce(x)
  <2>1. \A x \in Code \ {c} : \A l \in Layer :
          /\ x \in DOMAIN docs'[l] <=> x \in DOMAIN docs[l]
          /\ x \in DOMAIN docs[l] => docs'[l][x] = docs[l][x]
    BY <1>1, <1>3
  <2>2. \A l \in Layer : l..3 \subseteq Layer
    BY DEF Layer
  <2>. QED BY <2>1, <2>2 DEF InForce, Disables
<1>7. InForce(c)' = IF d.disabled THEN {} ELSE InForce(c) \cup {layer}
  <2>1. \A l \in Layer : l > layer => c \notin DOMAIN docs'[l] /\ c \notin DOMAIN docs[l]
    BY <1>1, <1>3 DEF Layer
  <2>2. \A l \in Layer : l < layer =>
          /\ c \in DOMAIN docs'[l] <=> c \in DOMAIN docs[l]
          /\ docs'[l][c] = docs[l][c]
    BY <1>1, <1>3 DEF Layer
  <2>3. c \in DOMAIN docs'[layer] /\ docs'[layer][c] = d
    BY <1>3
  <2>4. CASE d.disabled
    <3>1. ASSUME NEW l \in InForce(c)'  PROVE FALSE
      <4>1. l \in Layer /\ c \in DOMAIN docs'[l] /\ \A h \in l..3 : ~Disables(h, c)'
        BY <3>1 DEF InForce
      <4>2. l <= layer
        BY <1>1, <2>1, <4>1 DEF Layer
      <4>3. layer \in l..3
        BY <1>1, <4>1, <4>2 DEF Layer
      <4>. QED BY <2>3, <2>4, <4>1, <4>3 DEF Disables
    <3>. QED BY <2>4, <3>1
  <2>5. CASE ~d.disabled
    <3>1. \A l \in Layer : l <= layer =>
            ((\A h \in l..3 : ~Disables(h, c)') <=> (\A h \in l..3 : ~Disables(h, c)))
      <4>1. \A h \in Layer : Disables(h, c)' <=> Disables(h, c)
        BY <1>1, <2>1, <2>2, <2>3, <2>5 DEF Disables, Layer
      <4>2. \A l \in Layer : l..3 \subseteq Layer
        BY DEF Layer
      <4>. QED BY <4>1, <4>2
    <3>2. \A h \in layer..3 : ~Disables(h, c)
      BY <1>1, <2>1 DEF Disables, Layer
    <3>3. \A l \in Layer : l \in InForce(c)' <=> l \in InForce(c) \/ l = layer
      BY <1>1, <2>1, <2>2, <2>3, <3>1, <3>2 DEF InForce, Layer
    <3>. QED BY <1>1, <2>5, <3>3 DEF InForce
  <2>. QED BY <2>4, <2>5
<1>. QED BY <1>3, <1>4, <1>5, <1>6, <1>7 DEF InForce

(* What the documents say together of one component. *)
AsDeclared(c) ==
  LET r == resolved[c]  low == docs[Lowest(InForce(c))][c]
  IN /\ r.cites = InForce(c)
     /\ DOMAIN r.params = {n \in ParamName : Giving(c, n) # {}}
     /\ \A n \in DOMAIN r.params : r.params[n] = docs[Highest(Giving(c, n))][c].params[n]
     /\ r.needs = IF GivingInputs(c) = {} THEN {} ELSE docs[Highest(GivingInputs(c))][c].needs
     /\ <<r.phase, r.primitive, r.locked>> = <<low.phase, low.primitive, low.locked>>

(* Above the layer that locks a component, no layer in force gives parameters. *)
Sealed(c) ==
  resolved[c].locked =>
    \A l \in InForce(c) : l # Lowest(InForce(c)) => DOMAIN docs[l][c].params = {}

MInv ==
  error # "LOCKED_COMPONENT_OVERRIDE" =>
    /\ DOMAIN resolved = {c \in Code : InForce(c) # {}}
    /\ \A c \in DOMAIN resolved : AsDeclared(c) /\ Sealed(c)

LEMMA InitMerges == Init => MInv
BY DEF Init, MInv, InForce, Nothing, Layer

(* A component that the document read does not touch.                        *)
LEMMA Untouched ==
  ASSUME NEW x, InForce(x) \in SUBSET Layer, InForce(x) # {},
         InForce(x)' = InForce(x), resolved'[x] = resolved[x],
         \A l \in InForce(x) : docs'[l][x] = docs[l][x],
         AsDeclared(x), Sealed(x)
  PROVE  AsDeclared(x)' /\ Sealed(x)'
<1>1. Lowest(InForce(x)) \in InForce(x)
  BY LowestIs
<1>2. /\ \A n : Giving(x, n)' = Giving(x, n) /\ Giving(x, n) \in SUBSET InForce(x)
      /\ GivingInputs(x)' = GivingInputs(x) /\ GivingInputs(x) \in SUBSET InForce(x)
  BY DEF Giving, GivingInputs
<1>3. /\ \A n : Giving(x, n) # {} => Highest(Giving(x, n)) \in InForce(x)
      /\ GivingInputs(x) # {} => Highest(GivingInputs(x)) \in InForce(x)
  <2>1. /\ \A n : Giving(x, n) \in SUBSET Layer
        /\ GivingInputs(x) \in SUBSET Layer
    BY <1>2
  <2>. QED BY <1>2, <2>1, HighestIs
<1>4. /\ Lowest(InForce(x))' = Lowest(InForce(x))
      /\ \A n : Highest(Giving(x, n))' = Highest(Giving(x, n))
      /\ Highest(GivingInputs(x))' = Highest(GivingInputs(x))
  BY <1>2 DEF Lowest, Highest
<1>5. resolved'[x].cites = InForce(x)'
  BY DEF AsDeclared
<1>6. DOMAIN resolved'[x].params = {n \in ParamName : Giving(x, n)' # {}}
  BY <1>2 DEF AsDeclared
<1>7. \A n \in DOMAIN resolved'[x].params :
        resolved'[x].params[n] = docs'[Highest(Giving(x, n))'][x].params[n]
  BY <1>3, <1>4 DEF AsDeclared
<1>8. resolved'[x].needs = IF GivingInputs(x)' = {} THEN {}
                           ELSE docs'[Highest(GivingInputs(x))'][x].needs
  BY <1>2, <1>3, <1>4 DEF AsDeclared
<1>9. LET low == docs'[Lowest(InForce(x))'][x]
      IN <<resolved'[x].phase, resolved'[x].primitive, resolved'[x].locked>>
           = <<low.phase, low.primitive, low.locked>>
  BY <1>1, <1>4 DEF AsDeclared
<1>10. AsDeclared(x)'
  BY <1>5, <1>6, <1>7, <1>8, <1>9 DEF AsDeclared
<1>11. Sealed(x)'
  BY <1>4 DEF Sealed
<1>. QED BY <1>10, <1>11

LEMMA FreshMerges ==
  ASSUME TInv, MInv, NEW c \in Code, NEW d \in Menu[layer][c], Declare(c, d),
         InForce(c) = {}, ~d.disabled,
         resolved'[c] = Fresh(d, layer)
  PROVE  AsDeclared(c)' /\ Sealed(c)'
<1>1. InForce(c)' = {layer} /\ docs'[layer][c] = d /\ layer \in Layer /\ d \in Decl
  BY DeclareInForce, MenuAssumption DEF TInv, TypeOK
<1>2. /\ \A n : Giving(c, n)' = IF n \in DOMAIN d.params THEN {layer} ELSE {}
      /\ GivingInputs(c)' = IF d.needs = {} THEN {} ELSE {layer}
  BY <1>1 DEF Giving, GivingInputs
<1>3. Highest({layer}) = layer /\ Lowest({layer}) = layer
  BY <1>1, HighestIs, LowestIs
<1>4. /\ Lowest(InForce(c))' = layer
      /\ \A n \in DOMAIN d.params : Highest(Giving(c, n))' = layer
      /\ d.needs # {} => Highest(GivingInputs(c))' = layer
  BY <1>1, <1>2, <1>3 DEF Lowest, Highest
<1>5. DOMAIN d.params \subseteq ParamName
  BY <1>1 DEF Decl, Params
<1>6. DOMAIN resolved'[c].params = {n \in ParamName : Giving(c, n)' # {}}
  BY <1>2, <1>5 DEF Fresh
<1>7. AsDeclared(c)'
  BY <1>1, <1>2, <1>4, <1>6 DEF AsDeclared, Fresh
<1>. QED BY <1>1, <1>4, <1>7 DEF Sealed

LEMMA OverrideMerges ==
  ASSUME TInv, MInv, NEW c \in Code, NEW d \in Menu[layer][c], Declare(c, d),
         c \in DOMAIN resolved, ~d.disabled, ~Refused(resolved[c], d),
         resolved'[c] = Merged(resolved[c], d, layer)
  PROVE  AsDeclared(c)' /\ Sealed(c)'
<1> DEFINE ls == InForce(c)  r == resolved[c]
<1>1. /\ ls \in SUBSET Layer /\ \A l \in ls : l < layer
      /\ ls' = ls \cup {layer} /\ docs'[layer][c] = d
      /\ \A l \in ls : docs'[l][c] = docs[l][c]
  BY DeclareInForce
<1>2. layer \in Layer /\ d \in Decl /\ r \in Component
  BY MenuAssumption DEF TInv, TypeOK
<1>3. error # "LOCKED_COMPONENT_OVERRIDE"
  BY DEF Declare, TInv
<1>4. ls # {} /\ AsDeclared(c) /\ Sealed(c)
  BY <1>3 DEF MInv
<1>5. /\ \A n : Giving(c, n)' = IF n \in DOMAIN d.params THEN Giving(c, n) \cup {layer}
                                ELSE Giving(c, n)
      /\ GivingInputs(c)' = IF d.needs = {} THEN GivingInputs(c)
                            ELSE GivingInputs(c) \cup {layer}
  BY <1>1 DEF Giving, GivingInputs
<1>6. /\ \A n : Giving(c, n) \in SUBSET ls
      /\ GivingInputs(c) \in SUBSET ls
  BY DEF Giving, GivingInputs
<1>7. /\ \A n : Giving(c, n) \in SUBSET Layer
      /\ GivingInputs(c) \in SUBSET Layer
  BY <1>1, <1>6
<1>8. /\ \A n \in DOMAIN d.params : Highest(Giving(c, n))' = layer
      /\ \A n : n \notin DOMAIN d.params => Highest(Giving(c, n))' = Highest(Giving(c, n))
      /\ \A n : Giving(c, n) # {} => Highest(Giving(c, n)) \in ls
  <2>1. \A n : \A m \in Giving(c, n) : m < layer
    BY <1>1, <1>6
  <2>2. \A n : Highest(Giving(c, n) \cup {layer}) = layer
    BY <1>2, <1>7, <2>1, AddLayer
  <2>3. \A n \in DOMAIN d.params : Highest(Giving(c, n))' = Highest(Giving(c, n) \cup {layer})
    BY <1>5 DEF Highest
  <2>4. \A n : n \notin DOMAIN d.params => Highest(Giving(c, n))' = Highest(Giving(c, n))
    BY <1>5 DEF Highest
  <2>5. \A n : Giving(c, n) # {} => Highest(Giving(c, n)) \in ls
    BY <1>6, <1>7, HighestIs
  <2>. QED BY <2>2, <2>3, <2>4, <2>5
<1>9. /\ d.needs # {} => Highest(GivingInputs(c))' = layer
      /\ d.needs = {} => Highest(GivingInputs(c))' = Highest(GivingInputs(c))
      /\ GivingInputs(c) # {} => Highest(GivingInputs(c)) \in ls
  <2>1. \A m \in GivingInputs(c) : m < layer
    BY <1>1, <1>6
  <2>2. Highest(GivingInputs(c) \cup {layer}) = layer
    BY <1>2, <1>7, <2>1, AddLayer
  <2>. QED BY <1>5, <1>6, <1>7, <2>2, HighestIs DEF Highest
<1>10. Lowest(InForce(c))' = Lowest(ls) /\ Lowest(ls) \in ls
  <2>1. Lowest(ls \cup {layer}) = Lowest(ls)
    BY <1>1, <1>2, <1>4, AddLayer
  <2>2. Lowest(InForce(c))' = Lowest(ls \cup {layer})
    BY <1>1 DEF Lowest
  <2>. QED BY <1>1, <1>4, <2>1, <2>2, LowestIs
<1>11. /\ r'.params = Updated(r.params, d.params)
       /\ r'.needs = IF d.needs = {} THEN r.needs ELSE d.needs
       /\ r'.cites = r.cites \cup {layer}
       /\ <<r'.phase, r'.primitive, r'.locked>> = <<r.phase, r.primitive, r.locked>>
  BY <1>2 DEF Merged, Component
<1>12. DOMAIN d.params \subseteq ParamName
  BY <1>2 DEF Decl, Params
<1>13. /\ DOMAIN r'.params = DOMAIN r.params \cup DOMAIN d.params
       /\ \A n \in DOMAIN d.params : r'.params[n] = d.params[n]
       /\ \A n \in DOMAIN r.params \ DOMAIN d.params : r'.params[n] = r.params[n]
  BY <1>11 DEF Updated
<1>14. r'.cites = InForce(c)'
  BY <1>1, <1>4, <1>11 DEF AsDeclared
<1>15. DOMAIN r'.params = {n \in ParamName : Giving(c, n)' # {}}
  BY <1>4, <1>5, <1>12, <1>13 DEF AsDeclared
<1>16. \A n \in DOMAIN r'.params : r'.params[n] = docs'[Highest(Giving(c, n))'][c].params[n]
  <2>. SUFFICES ASSUME NEW n \in DOMAIN r'.params
                PROVE  r'.params[n] = docs'[Highest(Giving(c, n))'][c].params[n]
    OBVIOUS
  <2>1. CASE n \in DOMAIN d.params
    BY <1>1, <1>8, <1>13, <2>1
  <2>2. CASE n \notin DOMAIN d.params
    <3>1. n \in DOMAIN r.params /\ r'.params[n] = r.params[n]
      BY <1>13, <2>2
    <3>2. Giving(c, n) # {} /\ r.params[n] = docs[Highest(Giving(c, n))][c].params[n]
      BY <1>4, <3>1 DEF AsDeclared
    <3>. QED BY <1>1, <1>8, <2>2, <3>1, <3>2
  <2>. QED BY <2>1, <2>2
<1>17. r'.needs = IF GivingInputs(c)' = {} THEN {} ELSE docs'[Highest(GivingInputs(c))'][c].needs
  BY <1>1, <1>4, <1>5, <1>9, <1>11 DEF AsDeclared
<1>18. LET low == docs'[Lowest(InForce(c))'][c]
       IN <<r'.phase, r'.primitive, r'.locked>> = <<low.phase, low.primitive, low.locked>>
  BY <1>1, <1>4, <1>10, <1>11 DEF AsDeclared
<1>19. AsDeclared(c)'
  BY <1>14, <1>15, <1>16, <1>17, <1>18 DEF AsDeclared
<1>20. Sealed(c)'
  <2>1. r.locked => DOMAIN d.params = {}
    BY DEF Refused
  <2>. QED BY <1>1, <1>4, <1>10, <1>11, <2>1 DEF Sealed
<1>. QED BY <1>19, <1>20

LEMMA DeclareMerges ==
  ASSUME TInv, MInv, NEW c \in Code, NEW d \in Menu[layer][c], Declare(c, d),
         error' # "LOCKED_COMPONENT_OVERRIDE"
  PROVE  MInv'
<1>1. /\ \A x \in Code : InForce(x) \in SUBSET Layer
      /\ \A x \in Code : \A l \in InForce(x) : docs'[l][x] = docs[l][x]
      /\ \A x \in Code \ {c} : InForce(x)' = InForce(x)
      /\ InForce(c)' = IF d.disabled THEN {} ELSE InForce(c) \cup {layer}
  BY DeclareInForce
<1>2. /\ DOMAIN resolved = {x \in Code : InForce(x) # {}}
      /\ \A x \in DOMAIN resolved : AsDeclared(x) /\ Sealed(x)
  BY DEF Declare, TInv, MInv
<1>3. CASE d.disabled
  <2>1. /\ DOMAIN resolved' = DOMAIN resolved \ {c}
        /\ \A x \in DOMAIN resolved' : resolved'[x] = resolved[x]
    BY <1>3 DEF Declare, Without
  <2>2. \A x \in DOMAIN resolved' : AsDeclared(x)' /\ Sealed(x)'
    BY <1>1, <1>2, <2>1, Untouched
  <2>. QED BY <1>1, <1>2, <1>3, <2>1, <2>2 DEF MInv
<1>4. CASE ~d.disabled /\ c \notin DOMAIN resolved
  <2>1. /\ DOMAIN resolved' = DOMAIN resolved \cup {c}
        /\ \A x \in DOMAIN resolved : resolved'[x] = resolved[x]
        /\ resolved'[c] = Fresh(d, layer)
    BY <1>4 DEF Declare, Updated
  <2>2. \A x \in DOMAIN resolved : AsDeclared(x)' /\ Sealed(x)'
    BY <1>1, <1>2, <1>4, <2>1, Untouched
  <2>3. AsDeclared(c)' /\ Sealed(c)'
    BY <1>2, <1>4, <2>1, FreshMerges
  <2>. QED BY <1>1, <1>2, <1>4, <2>1, <2>2, <2>3 DEF MInv
<1>5. CASE ~d.disabled /\ c \in DOMAIN resolved /\ ~Refused(resolved[c], d)
  <2>1. /\ DOMAIN resolved' = DOMAIN resolved
        /\ \A x \in DOMAIN resolved \ {c} : resolved'[x] = resolved[x]
        /\ resolved'[c] = Merged(resolved[c], d, layer)
    BY <1>5 DEF Declare
  <2>2. \A x \in DOMAIN resolved \ {c} : AsDeclared(x)' /\ Sealed(x)'
    BY <1>1, <1>2, <2>1, Untouched
  <2>3. AsDeclared(c)' /\ Sealed(c)'
    BY <1>5, <2>1, OverrideMerges
  <2>. QED BY <1>1, <1>2, <1>5, <2>1, <2>2, <2>3 DEF MInv
<1>6. CASE ~d.disabled /\ c \in DOMAIN resolved /\ Refused(resolved[c], d)
  BY <1>6 DEF Declare, Raise
<1>. QED BY <1>3, <1>4, <1>5, <1>6

(* After resolution neither the documents nor the components change.         *)
LEMMA LaterSteps ==
  ASSUME TInv, MInv, UNCHANGED <<docs, resolved>>,
         error # error' => error = "none"
  PROVE  MInv'
<1>1. \A x : InForce(x)' = InForce(x)
  BY DEF InForce, Disables
<1>2. CASE error' = "LOCKED_COMPONENT_OVERRIDE"
  BY <1>2 DEF MInv
<1>3. CASE error' # "LOCKED_COMPONENT_OVERRIDE"
  <2>1. error # "LOCKED_COMPONENT_OVERRIDE"
    BY <1>3
  <2>2. /\ DOMAIN resolved = {c \in Code : InForce(c) # {}}
        /\ \A c \in DOMAIN resolved : AsDeclared(c) /\ Sealed(c)
    BY <2>1 DEF MInv
  <2>3. \A c : InForce(c) \in SUBSET Layer
    BY DEF InForce
  <2>4. \A c \in DOMAIN resolved : AsDeclared(c)' /\ Sealed(c)'
    BY <1>1, <2>2, <2>3, Untouched
  <2>. QED BY <1>1, <2>2, <2>4 DEF MInv
<1>. QED BY <1>2, <1>3

(***************************************************************************)
(* The plan                                                                 *)
(***************************************************************************)

PhaseOf(p) == CHOOSE k \in DOMAIN PhaseOrder : PhaseOrder[k] = p

LEMMA PhaseOfIs ==
  ASSUME NEW p \in Phase
  PROVE  /\ PhaseOf(p) \in 1..6
         /\ \A k \in 1..6 : PhaseOrder[k] = p <=> k = PhaseOf(p)
<1>1. DOMAIN PhaseOrder = 1..6
  BY DEF PhaseOrder
<1>2. PhaseOf(p) \in 1..6 /\ PhaseOrder[PhaseOf(p)] = p
  BY <1>1 DEF PhaseOf, Phase
<1>3. ASSUME NEW j \in 1..6, NEW k \in 1..6, PhaseOrder[j] = PhaseOrder[k]
      PROVE  j = k
  BY <1>3 DEF PhaseOrder
<1>. QED BY <1>2, <1>3

LEMMA PhaseIndexIs ==
  ASSUME TypeOK, NEW c \in DOMAIN resolved
  PROVE  /\ PhaseIndex(c) \in 1..6 /\ phase \in 1..6
         /\ PhaseIndex(c) = phase <=> c \in InPhase
<1>1. resolved[c].phase \in Phase /\ phase \in 1..6
  BY DEF TypeOK, Component, PhaseOrder
<1>2. PhaseIndex(c) = PhaseOf(resolved[c].phase)
  BY DEF PhaseIndex, PhaseOf
<1>. QED BY <1>1, <1>2, PhaseOfIs DEF InPhase

(* The visits under way: a chain of inputs within the phase being sorted,    *)
(* none of them in the plan yet.                                             *)
PathInv ==
  /\ Elems(path) \subseteq InPhase
  /\ Elems(path) \cap Elems(plan) = {}
  /\ \A i, j \in DOMAIN path : i # j => path[i] # path[j]
  /\ \A k \in DOMAIN path : k > 1 => path[k] \in Deps(path[k - 1])

(* The inputs that step i takes from its own phase come before it.           *)
InputsFirst(i) ==
  \A e \in resolved[plan[i]].needs \cap DOMAIN resolved :
    PhaseIndex(e) = PhaseIndex(plan[i]) => \E j \in DOMAIN plan : j < i /\ plan[j] = e

PlanInv ==
  /\ Elems(plan) \subseteq DOMAIN resolved
  /\ \A i, j \in DOMAIN plan : i # j => plan[i] # plan[j]
  /\ \A i, j \in DOMAIN plan : i < j => PhaseIndex(plan[i]) <= PhaseIndex(plan[j])
  /\ \A i \in DOMAIN plan : PhaseIndex(plan[i]) <= phase /\ InputsFirst(i)
  /\ \A c \in DOMAIN resolved : PhaseIndex(c) < phase => c \in Elems(plan)
  /\ at \in {"execute", "done"} => DOMAIN resolved \subseteq Elems(plan)

(* Before it is sorted nothing is planned; after it is checked no input is   *)
(* missing.                                                                  *)
StageInv ==
  /\ at \in {"resolve", "check"} => phase = 1 /\ path = <<>> /\ plan = <<>>
  /\ at \in {"resolve", "check", "sort"} \/ error = "LOCKED_COMPONENT_OVERRIDE" => audit = <<>>
  /\ at \in {"sort", "execute", "done"} =>
       \A c \in DOMAIN resolved : resolved[c].needs \subseteq DOMAIN resolved

SInv == PathInv /\ PlanInv /\ StageInv

LEMMA EarlyPlan ==
  ASSUME TInv, TInv', StageInv, at \in {"resolve", "check"},
         UNCHANGED <<phase, path, plan>>, at' \notin {"execute", "done"}
  PROVE  PathInv' /\ PlanInv'
<1>1. /\ path' = <<>> /\ plan' = <<>> /\ phase' = 1
      /\ Elems(path') = {} /\ Elems(plan') = {}
  BY DEF StageInv, Elems
<1>2. \A c \in DOMAIN resolved' : PhaseIndex(c)' \in 1..6
  <2>1. \A c \in DOMAIN resolved' : resolved'[c].phase \in Phase
    BY DEF TInv, TypeOK, Component
  <2>2. \A c : PhaseIndex(c)' = PhaseOf(resolved'[c].phase)
    BY DEF PhaseIndex, PhaseOf
  <2>. QED BY <2>1, <2>2, PhaseOfIs
<1>3. PathInv'
  BY <1>1 DEF PathInv
<1>4. PlanInv'
  BY <1>1, <1>2 DEF PlanInv
<1>. QED BY <1>3, <1>4

LEMMA InitPlan == Init => SInv
<1>. SUFFICES ASSUME Init PROVE SInv
  OBVIOUS
<1>1. /\ path = <<>> /\ plan = <<>> /\ phase = 1 /\ audit = <<>> /\ at = "resolve"
      /\ Elems(path) = {} /\ Elems(plan) = {} /\ DOMAIN resolved = {}
  BY DEF Init, Nothing, Elems
<1>2. PathInv
  BY <1>1 DEF PathInv
<1>3. PlanInv
  BY <1>1 DEF PlanInv
<1>4. StageInv
  BY <1>1 DEF StageInv
<1>. QED BY <1>2, <1>3, <1>4 DEF SInv

LEMMA DeclarePlan ==
  ASSUME TInv, TInv', SInv, NEW c \in Code, NEW d \in Menu[layer][c], Declare(c, d)
  PROVE  SInv'
<1>1. PathInv' /\ PlanInv'
  BY EarlyPlan DEF Declare, Raise, SInv
<1>2. StageInv'
  BY DEF Declare, Raise, SInv, StageInv
<1>. QED BY <1>1, <1>2 DEF SInv

LEMMA CheckPlan ==
  ASSUME TInv, TInv', SInv, NextLayer \/ Check
  PROVE  SInv'
<1>1. PathInv' /\ PlanInv'
  BY EarlyPlan DEF NextLayer, Check, Raise, SInv
<1>2. StageInv'
  <2>1. CASE NextLayer
    BY <2>1 DEF NextLayer, SInv, StageInv
  <2>2. CASE Check
    <3>1. at' = "sort" => \A c \in DOMAIN resolved : Complaint(resolved[c]) = "none"
      BY <2>2 DEF Check, Raise
    <3>2. at' = "sort" => \A c \in DOMAIN resolved : resolved[c].needs \subseteq DOMAIN resolved
      BY <3>1 DEF Complaint
    <3>3. at' \in {"sort", "failed"} /\ error' # "LOCKED_COMPONENT_OVERRIDE"
      BY <2>2 DEF Check, Raise, Complaint, TInv
    <3>. QED BY <2>2, <3>2, <3>3 DEF Check, SInv, StageInv
  <2>. QED BY <2>1, <2>2
<1>. QED BY <1>1, <1>2 DEF SInv

LEMMA VisitPlan ==
  ASSUME TInv, SInv, NEW c \in Code, Visit(c)
  PROVE  SInv'
<1>1. /\ path' = <<c>> /\ c \in InPhase /\ c \notin Elems(plan)
      /\ UNCHANGED <<resolved, at, error, phase, plan, audit>>
  BY DEF Visit, Visited
<1>2. DOMAIN path' = {1} /\ path'[1] = c /\ Elems(path') = {c}
  BY <1>1 DEF Elems
<1>3. PathInv'
  BY <1>1, <1>2 DEF PathInv, InPhase, Elems
<1>4. PlanInv'
  BY <1>1 DEF SInv, PlanInv, InputsFirst, PhaseIndex, Elems
<1>5. StageInv'
  BY <1>1 DEF Visit, SInv, StageInv
<1>. QED BY <1>3, <1>4, <1>5 DEF SInv

LEMMA DescendPlan ==
  ASSUME TInv, SInv, NEW c \in Code, Descend(c)
  PROVE  SInv'
<1>1. /\ c \in Deps(Top) /\ c \in InPhase /\ c \notin Elems(plan)
      /\ UNCHANGED <<resolved, phase, plan, audit>>
      /\ at = "sort" /\ at' \in {"sort", "failed"}
      /\ error = "none" /\ error' # "LOCKED_COMPONENT_OVERRIDE"
  BY DEF Descend, Visited, Raise, Deps, TInv
<1>2. InPhase' = InPhase /\ \A x : Deps(x)' = Deps(x)
  BY <1>1 DEF InPhase, Deps
<1>3. PlanInv'
  BY <1>1 DEF SInv, PlanInv, InputsFirst, PhaseIndex, Elems
<1>4. StageInv'
  BY <1>1 DEF SInv, StageInv
<1>5. PathInv'
  <2>1. CASE c \in Elems(path)
    BY <1>1, <1>2, <2>1 DEF Descend, SInv, PathInv, Elems
  <2>2. CASE c \notin Elems(path)
    <3>1. path' = Append(path, c) /\ path \in Seq(Code) /\ path # <<>>
      BY <2>2 DEF Descend, TInv, TypeOK
    <3>2. /\ DOMAIN path = 1..Len(path) /\ Len(path) \in Nat
          /\ DOMAIN path' = 1..(Len(path) + 1)
          /\ \A k \in 1..Len(path) : path'[k] = path[k]
          /\ path'[Len(path) + 1] = c
      BY <3>1
    <3>3. Elems(path') = Elems(path) \cup {c}
      BY <3>1, ElemsAppend
    <3>4. \A k \in DOMAIN path : path[k] # c
      BY <2>2 DEF Elems
    <3>5. \A i, j \in DOMAIN path' : i # j => path'[i] # path'[j]
      BY <3>2, <3>4 DEF SInv, PathInv
    <3>6. \A k \in DOMAIN path' : k > 1 => path'[k] \in Deps(path'[k - 1])
      <4>. SUFFICES ASSUME NEW k \in 1..(Len(path) + 1), k > 1
                    PROVE  path'[k] \in Deps(path'[k - 1])
        BY <3>2
      <4>1. CASE k = Len(path) + 1
        BY <1>1, <3>2, <4>1 DEF Top
      <4>2. CASE k # Len(path) + 1
        <5>1. k \in 1..Len(path) /\ k - 1 \in 1..Len(path)
          BY <3>2, <4>2
        <5>. QED BY <3>2, <5>1 DEF SInv, PathInv
      <4>. QED BY <4>1, <4>2
    <3>7. \A k \in DOMAIN path' : k > 1 => path'[k] \in Deps(path[k - 1])'
      BY <1>1, <3>6 DEF Deps, InPhase
    <3>8. Elems(path') \subseteq InPhase' /\ Elems(path') \cap Elems(plan') = {}
      BY <1>1, <1>2, <3>3 DEF SInv, PathInv
    <3>. QED BY <3>5, <3>7, <3>8 DEF PathInv
  <2>. QED BY <2>1, <2>2
<1>. QED BY <1>3, <1>4, <1>5 DEF SInv

LEMMA LeavePlan ==
  ASSUME TInv, SInv, Leave
  PROVE  SInv'
<1>1. /\ path \in Seq(Code) /\ path # <<>> /\ plan \in Seq(Code)
      /\ Deps(Top) \subseteq Elems(plan) /\ plan' = Append(plan, Top)
      /\ UNCHANGED <<resolved, at, error, phase, audit>> /\ at = "sort"
  BY DEF Leave, Visited, TInv, TypeOK
<1> DEFINE n == Len(path)  m == Len(plan)
<1>2. /\ n \in Nat /\ n > 0 /\ DOMAIN path = 1..n
      /\ DOMAIN path' = 1..(n - 1)
      /\ \A k \in 1..(n - 1) : path'[k] = path[k]
      /\ Top = path[n] /\ Top \in Code
  BY <1>1, ElemsFront DEF Leave, Top
<1>3. /\ m \in Nat /\ DOMAIN plan = 1..m /\ DOMAIN plan' = 1..(m + 1)
      /\ \A i \in 1..m : plan'[i] = plan[i]
      /\ plan'[m + 1] = Top
  BY <1>1, <1>2
<1>4. Elems(plan') = Elems(plan) \cup {Top}
  BY <1>1, <1>2, ElemsAppend
<1>5. /\ Top \in Elems(path) /\ Top \in InPhase /\ Top \notin Elems(plan)
      /\ Top \in DOMAIN resolved
  <2>1. n \in DOMAIN path
    BY <1>2
  <2>2. Top \in Elems(path)
    BY <1>2, <2>1 DEF Elems
  <2>. QED BY <2>2 DEF SInv, PathInv, InPhase
<1>6. /\ InPhase' = InPhase /\ \A x : Deps(x)' = Deps(x)
      /\ \A x : PhaseIndex(x)' = PhaseIndex(x)
  BY <1>1 DEF InPhase, Deps, PhaseIndex
<1>7. PhaseIndex(Top) = phase
  BY <1>5, PhaseIndexIs DEF TInv
<1>. HIDE DEF n, m
<1>8. PathInv'
  <2>1. \A k \in 1..(n - 1) : k \in DOMAIN path /\ path[k] # Top
    <3>. SUFFICES ASSUME NEW k \in 1..(n - 1) PROVE k \in DOMAIN path /\ path[k] # Top
      OBVIOUS
    <3>1. k \in 1..n /\ n \in 1..n /\ k # n
      BY <1>2
    <3>. QED BY <1>2, <3>1 DEF SInv, PathInv
  <2>2. Elems(path') \subseteq Elems(path) \ {Top}
    BY <1>2, <2>1 DEF Elems
  <2>3. Elems(path') \subseteq InPhase' /\ Elems(path') \cap Elems(plan') = {}
    BY <1>4, <1>6, <2>2 DEF SInv, PathInv
  <2>4. \A i, j \in DOMAIN path' : i # j => path'[i] # path'[j]
    BY <1>2, <2>1 DEF SInv, PathInv
  <2>5. \A k \in DOMAIN path' : k > 1 => path'[k] \in Deps(path[k - 1])'
    <3>. SUFFICES ASSUME NEW k \in 1..(n - 1), k > 1
                  PROVE  path'[k] \in Deps(path'[k - 1])
      BY <1>1, <1>2 DEF Deps, InPhase
    <3>1. k \in DOMAIN path /\ k - 1 \in 1..(n - 1)
      BY <1>2, <2>1
    <3>. QED BY <1>2, <3>1 DEF SInv, PathInv
  <2>. QED BY <2>3, <2>4, <2>5 DEF PathInv
<1>9. PlanInv'
  <2>1. \A i \in 1..m : plan[i] \in Elems(plan) /\ plan[i] # Top
    BY <1>3, <1>5 DEF Elems
  <2>2. \A i, j \in DOMAIN plan' : i # j => plan'[i] # plan'[j]
    BY <1>3, <2>1 DEF SInv, PlanInv
  <2>3. \A i \in 1..m : PhaseIndex(plan[i]) <= phase
    BY <1>3 DEF SInv, PlanInv
  <2>4. \A i, j \in DOMAIN plan' : i < j => PhaseIndex(plan'[i]) <= PhaseIndex(plan'[j])
    <3>. SUFFICES ASSUME NEW i \in 1..(m + 1), NEW j \in 1..(m + 1), i < j
                  PROVE  PhaseIndex(plan'[i]) <= PhaseIndex(plan'[j])
      BY <1>3
    <3>1. i \in 1..m
      BY <1>3
    <3>2. CASE j = m + 1
      BY <1>3, <1>7, <2>3, <3>1, <3>2
    <3>3. CASE j \in 1..m
      BY <1>3, <3>1, <3>3 DEF SInv, PlanInv
    <3>. QED BY <1>3, <3>2, <3>3
  <2>5. \A i \in DOMAIN plan' : PhaseIndex(plan'[i]) <= phase
    <3>1. PhaseIndex(Top) <= phase
      BY <1>5, <1>7, PhaseIndexIs DEF TInv
    <3>. QED BY <1>3, <2>3, <3>1
  <2>6. ASSUME NEW i \in DOMAIN plan',
               NEW e \in resolved[plan'[i]].needs \cap DOMAIN resolved,
               PhaseIndex(e) = PhaseIndex(plan'[i])
        PROVE  \E j \in DOMAIN plan' : j < i /\ plan'[j] = e
    <3>1. CASE i = m + 1
      <4>1. e \in InPhase
        BY <1>3, <1>7, <2>6, <3>1, PhaseIndexIs DEF TInv
      <4>2. e \in Elems(plan)
        BY <1>1, <1>3, <2>6, <3>1, <4>1 DEF Deps
      <4>3. PICK j \in 1..m : plan[j] = e
        BY <1>3, <4>2 DEF Elems
      <4>. QED BY <1>3, <3>1, <4>3
    <3>2. CASE i \in 1..m
      <4>1. InputsFirst(i)
        BY <1>3, <3>2 DEF SInv, PlanInv
      <4>2. PICK j \in 1..m : j < i /\ plan[j] = e
        BY <1>3, <2>6, <3>2, <4>1 DEF InputsFirst
      <4>. QED BY <1>3, <4>2
    <3>. QED BY <1>3, <3>1, <3>2
  <2>7. \A i \in DOMAIN plan' : InputsFirst(i)'
    BY <1>1, <1>6, <2>6 DEF InputsFirst
  <2>8. /\ Elems(plan') \subseteq DOMAIN resolved'
        /\ \A c \in DOMAIN resolved' : PhaseIndex(c) < phase => c \in Elems(plan')
    BY <1>1, <1>4, <1>5 DEF SInv, PlanInv
  <2>. QED BY <1>1, <1>6, <2>2, <2>4, <2>5, <2>7, <2>8 DEF PlanInv
<1>10. StageInv'
  BY <1>1 DEF SInv, StageInv
<1>. QED BY <1>8, <1>9, <1>10 DEF SInv

LEMMA NextPhasePlan ==
  ASSUME TInv, SInv, NextPhase
  PROVE  SInv'
<1>1. /\ at = "sort" /\ path = <<>> /\ InPhase \subseteq Elems(plan)
      /\ UNCHANGED <<resolved, error, path, plan, audit>>
      /\ \/ phase = 6 /\ at' = "execute" /\ phase' = phase
         \/ phase # 6 /\ at' = at /\ phase' = phase + 1
  BY DEF NextPhase, Visited, PhaseOrder
<1>2. \A c : PhaseIndex(c)' = PhaseIndex(c)
  BY <1>1 DEF PhaseIndex
<1>3. \A c \in DOMAIN resolved : PhaseIndex(c) \in 1..6 /\ phase \in 1..6
                                 /\ (PhaseIndex(c) = phase => c \in InPhase)
  BY PhaseIndexIs DEF TInv
<1>4. \A c \in DOMAIN resolved : PhaseIndex(c) <= phase => c \in Elems(plan)
  BY <1>1, <1>3 DEF SInv, PlanInv
<1>5. PathInv'
  BY <1>1 DEF PathInv, Elems
<1>6. PlanInv'
  <2>1. \A c \in DOMAIN resolved : PhaseIndex(c) < phase' => c \in Elems(plan)
    BY <1>1, <1>3, <1>4
  <2>2. at' = "execute" => DOMAIN resolved \subseteq Elems(plan)
    BY <1>1, <1>3, <1>4
  <2>3. \A i \in DOMAIN plan : plan[i] \in DOMAIN resolved
    BY DEF SInv, PlanInv, Elems
  <2>4. \A i \in DOMAIN plan : PhaseIndex(plan[i]) <= phase'
    BY <1>1, <1>3, <2>3 DEF SInv, PlanInv
  <2>5. \A i \in DOMAIN plan : InputsFirst(i)'
    BY <1>1, <1>2 DEF SInv, PlanInv, InputsFirst
  <2>6. Elems(plan)' = Elems(plan) /\ at' \in {"sort", "execute"}
    BY <1>1
  <2>. QED BY <1>1, <1>2, <2>1, <2>2, <2>4, <2>5, <2>6 DEF SInv, PlanInv
<1>7. StageInv'
  BY <1>1 DEF SInv, StageInv, TInv
<1>. QED BY <1>5, <1>6, <1>7 DEF SInv

LEMMA ExecutePlan ==
  ASSUME TInv, SInv, Execute \/ Finish
  PROVE  SInv'
<1>1. /\ UNCHANGED <<resolved, phase, path, plan>>
      /\ at = "execute" /\ at' \in {"execute", "done", "failed"}
      /\ error = "none" /\ error' # "LOCKED_COMPONENT_OVERRIDE"
  BY DEF Execute, Finish, Raise, TInv
<1>2. PathInv'
  BY <1>1 DEF SInv, PathInv, Elems, InPhase, Deps
<1>3. PlanInv'
  BY <1>1 DEF SInv, PlanInv, InputsFirst, PhaseIndex, Elems
<1>4. StageInv'
  BY <1>1 DEF SInv, StageInv
<1>. QED BY <1>2, <1>3, <1>4 DEF SInv

(***************************************************************************)
(* What the invariants come to                                              *)
(***************************************************************************)

LEMMA OrderedPlan == TInv /\ SInv => PlanOrdered
<1>. SUFFICES ASSUME TInv, SInv, at \in {"execute", "done"}
              PROVE  /\ Elems(plan) = DOMAIN resolved
                     /\ \A i, j \in DOMAIN plan :
                          /\ i # j => plan[i] # plan[j]
                          /\ i < j => PhaseIndex(plan[i]) <= PhaseIndex(plan[j])
                          /\ /\ plan[j] \in resolved[plan[i]].needs
                             /\ PhaseIndex(plan[j]) <= PhaseIndex(plan[i])
                             => j < i
  BY DEF PlanOrdered
<1>1. Elems(plan) = DOMAIN resolved
  BY DEF SInv, PlanInv
<1>2. ASSUME NEW i \in DOMAIN plan, NEW j \in DOMAIN plan,
             plan[j] \in resolved[plan[i]].needs,
             PhaseIndex(plan[j]) <= PhaseIndex(plan[i])
      PROVE  j < i
  <2>1. i \in Nat /\ j \in Nat /\ plan[i] \in DOMAIN resolved /\ plan[j] \in DOMAIN resolved
    BY <1>1 DEF TInv, TypeOK, Elems
  <2>2. PhaseIndex(plan[i]) \in 1..6 /\ PhaseIndex(plan[j]) \in 1..6
    BY <2>1, PhaseIndexIs DEF TInv
  <2>3. CASE PhaseIndex(plan[j]) = PhaseIndex(plan[i])
    <3>1. PICK k \in DOMAIN plan : k < i /\ plan[k] = plan[j]
      BY <1>2, <2>1, <2>3 DEF SInv, PlanInv, InputsFirst
    <3>2. k = j
      BY <3>1 DEF SInv, PlanInv
    <3>. QED BY <3>1, <3>2
  <2>4. CASE PhaseIndex(plan[j]) < PhaseIndex(plan[i])
    <3>1. ~ (i < j)
      BY <2>2, <2>4 DEF SInv, PlanInv
    <3>2. i # j
      BY <2>2, <2>4
    <3>. QED BY <2>1, <3>1, <3>2
  <2>. QED BY <1>2, <2>2, <2>3, <2>4
<1>. QED BY <1>1, <1>2 DEF SInv, PlanInv

(* The first step of a cycle would come after another of its steps.          *)
LEMMA OrderedAcyclic ==
  ASSUME TInv, PlanOrdered, at \in {"execute", "done"},
         NEW cs \in SUBSET DOMAIN resolved
  PROVE  ~Cyclic(cs)
<1>. SUFFICES ASSUME Cyclic(cs) PROVE FALSE
  OBVIOUS
<1> DEFINE T == {i \in DOMAIN plan : plan[i] \in cs}
<1>1. T \subseteq Nat /\ T # {}
  BY DEF Cyclic, PlanOrdered, Elems, TInv, TypeOK
<1>2. PICK i \in T : \A j \in T : ~ (<<j, i>> \in OpToRel(<, Nat))
  BY <1>1, NatLessThanWellFounded, WFMin
<1>3. \A j \in T : ~ (j < i)
  BY <1>1, <1>2 DEF OpToRel
<1>4. PICK d \in cs : d \in resolved[plan[i]].needs /\ PhaseIndex(plan[i]) = PhaseIndex(d)
  BY DEF Cyclic
<1>5. PICK j \in DOMAIN plan : plan[j] = d
  BY <1>4 DEF PlanOrdered, Elems
<1>6. PhaseIndex(d) \in 1..6
  BY <1>4, PhaseIndexIs DEF TInv
<1>7. j < i
  BY <1>4, <1>5, <1>6 DEF PlanOrdered
<1>. QED BY <1>3, <1>4, <1>5, <1>7

(* A visit that meets itself closes a cycle.                                 *)
LEMMA MeetsItself ==
  ASSUME TInv, SInv, NEW c \in Code, Descend(c), c \in Elems(path)
  PROVE  \E cs \in SUBSET DOMAIN resolved : Cyclic(cs)
<1> DEFINE n == Len(path)
<1>1. path \in Seq(Code) /\ n \in Nat /\ DOMAIN path = 1..n /\ Top = path[n] /\ c \in Deps(Top)
  BY DEF TInv, TypeOK, Descend, Top
<1>2. PICK k \in 1..n : path[k] = c
  BY <1>1 DEF Elems
<1> DEFINE cs == {path[i] : i \in k..n}
<1>. HIDE DEF n
<1>3. \A x \in cs : x \in InPhase
  BY <1>1, <1>2 DEF SInv, PathInv, Elems
<1>4. \A x \in InPhase : x \in DOMAIN resolved /\ PhaseIndex(x) = phase
  BY PhaseIndexIs DEF InPhase, TInv
<1>5. \A x \in cs : \E d \in cs : d \in resolved[x].needs
  <2>. SUFFICES ASSUME NEW i \in k..n PROVE \E d \in cs : d \in resolved[path[i]].needs
    OBVIOUS
  <2>1. CASE i = n
    BY <1>1, <1>2, <2>1 DEF Deps
  <2>2. CASE i < n
    <3>1. i + 1 \in DOMAIN path /\ i + 1 > 1 /\ i + 1 \in k..n /\ (i + 1) - 1 = i
      BY <1>1, <1>2, <2>2
    <3>2. path[i + 1] \in Deps(path[(i + 1) - 1])
      BY <3>1 DEF SInv, PathInv
    <3>. QED BY <3>1, <3>2 DEF Deps
  <2>. QED BY <1>1, <1>2, <2>1, <2>2
<1>6. cs # {} /\ cs \in SUBSET DOMAIN resolved
  BY <1>1, <1>2, <1>3, <1>4
<1>7. Cyclic(cs)
  BY <1>3, <1>4, <1>5, <1>6 DEF Cyclic
<1>. QED BY <1>6, <1>7

(* A base that is listed as an input and not of a later phase is computed.   *)
LEMMA BaseMissing ==
  ASSUME TInv, SInv, Execute, Missing(resolved[plan[Len(audit) + 1]]) # {}
  PROVE  LET c == plan[Len(audit) + 1]
         IN \E b \in resolved[c].params["base_components"] :
              b \notin resolved[c].needs \/ PhaseIndex(b) > PhaseIndex(c)
<1> DEFINE i == Len(audit) + 1  c == plan[i]
<1>1. /\ audit \in Seq(Layer) /\ plan \in Seq(Code) /\ Len(audit) \in Nat
      /\ DOMAIN audit = 1..Len(audit) /\ DOMAIN plan = 1..Len(plan) /\ Len(plan) \in Nat
      /\ i \in DOMAIN plan
  BY DEF TInv, TypeOK, Execute
<1>2. c \in DOMAIN resolved /\ at = "execute" /\ PlanOrdered
  BY <1>1, OrderedPlan DEF Execute, PlanOrdered, Elems
<1>3. PICK b \in resolved[c].params["base_components"] : b \notin resolved[c].needs \cap Produced
  BY DEF Missing, Inputs
<1>4. ASSUME b \in resolved[c].needs, ~ (PhaseIndex(b) > PhaseIndex(c))
      PROVE  FALSE
  <2>1. b \in DOMAIN resolved
    BY <1>2, <1>4 DEF SInv, StageInv
  <2>2. PICK j \in DOMAIN plan : plan[j] = b
    BY <1>2, <2>1 DEF PlanOrdered, Elems
  <2>3. PhaseIndex(b) <= PhaseIndex(c)
    BY <1>2, <1>4, <2>1, PhaseIndexIs DEF TInv
  <2>4. j < i
    BY <1>1, <1>2, <1>4, <2>2, <2>3 DEF PlanOrdered
  <2>5. j \in DOMAIN audit
    BY <1>1, <2>2, <2>4
  <2>. QED BY <1>3, <1>4, <2>2, <2>5 DEF Produced
<1>. QED BY <1>3, <1>4

(***************************************************************************)
(* The theorems                                                             *)
(***************************************************************************)

CycleFound ==
  error = "CYCLIC_DEPENDENCY" => \E cs \in SUBSET DOMAIN resolved : Cyclic(cs)

AuditInv == \A i \in DOMAIN audit : audit[i] = PrimaryCitation(resolved[plan[i]].cites)

Inv == TInv /\ MInv /\ SInv /\ CycleFound /\ OnlyUnlistedBasesMissing /\ AuditInv

LEMMA InitInv == Init => Inv
<1>. SUFFICES ASSUME Init PROVE Inv
  OBVIOUS
<1>1. CycleFound /\ OnlyUnlistedBasesMissing /\ AuditInv
  BY DEF Init, CycleFound, OnlyUnlistedBasesMissing, AuditInv
<1>. QED BY <1>1, InitTypes, InitMerges, InitPlan DEF Inv

LEMMA StepTypes ==
  ASSUME TInv, MInv, SInv, Next
  PROVE  TInv'
<1>1. CASE \E c \in Code : \E d \in Menu[layer][c] : Declare(c, d)
  BY <1>1, DeclareTypes
<1>2. CASE NextLayer \/ Check \/ NextPhase
  BY <1>2, PlanTypes
<1>3. CASE (\E c \in Code : Visit(c) \/ Descend(c)) \/ Leave
  BY <1>3, SortTypes
<1>4. CASE Execute \/ Finish
  <2>1. error = "none"
    BY <1>4 DEF Execute, Finish, TInv
  <2>2. \A i \in DOMAIN plan : plan[i] \in DOMAIN resolved /\ resolved[plan[i]].cites # {}
    BY <2>1 DEF MInv, AsDeclared, SInv, PlanInv, Elems
  <2>. QED BY <1>4, <2>2, ExecuteTypes
<1>. QED BY <1>1, <1>2, <1>3, <1>4 DEF Next

LEMMA StepMerges ==
  ASSUME TInv, MInv, Next
  PROVE  MInv'
<1>1. CASE \E c \in Code : \E d \in Menu[layer][c] : Declare(c, d)
  <2>1. CASE error' = "LOCKED_COMPONENT_OVERRIDE"
    BY <2>1 DEF MInv
  <2>2. CASE error' # "LOCKED_COMPONENT_OVERRIDE"
    BY <1>1, <2>2, DeclareMerges
  <2>. QED BY <2>1, <2>2
<1>2. CASE \/ NextLayer \/ Check \/ Leave \/ NextPhase \/ Execute \/ Finish
           \/ \E c \in Code : Visit(c) \/ Descend(c)
  <2>1. UNCHANGED <<docs, resolved>> /\ error = "none"
    BY <1>2 DEF NextLayer, Check, Leave, NextPhase, Execute, Finish, Visit, Descend, TInv
  <2>. QED BY <2>1, LaterSteps
<1>. QED BY <1>1, <1>2 DEF Next

LEMMA StepPlan ==
  ASSUME TInv, TInv', SInv, Next
  PROVE  SInv'
BY DeclarePlan, CheckPlan, VisitPlan, DescendPlan, LeavePlan, NextPhasePlan, ExecutePlan
   DEF Next

(* Whoever raises an error has just seen the reason for it.                  *)
LEMMA StepErrors ==
  ASSUME TInv, SInv, Next
  PROVE  CycleFound' /\ OnlyUnlistedBasesMissing'
<1>1. error = "none"
  BY DEF Next, Declare, NextLayer, Check, Visit, Descend, Leave, NextPhase, Execute, Finish, TInv
<1>2. CASE \E c \in Code : Descend(c)
  <2>1. PICK c \in Code : Descend(c)
    BY <1>2
  <2>2. UNCHANGED <<resolved, plan, audit>> /\ error' \in {"none", "CYCLIC_DEPENDENCY"}
    BY <1>1, <2>1 DEF Descend, Raise
  <2>3. error' = "CYCLIC_DEPENDENCY" => c \in Elems(path)
    BY <1>1, <2>1 DEF Descend
  <2>4. error' = "CYCLIC_DEPENDENCY" => \E cs \in SUBSET DOMAIN resolved : Cyclic(cs)
    BY <2>1, <2>3, MeetsItself
  <2>5. \A cs : Cyclic(cs)' <=> Cyclic(cs)
    BY <2>2 DEF Cyclic, PhaseIndex
  <2>6. CycleFound'
    BY <2>2, <2>4, <2>5 DEF CycleFound
  <2>. QED BY <2>2, <2>6 DEF OnlyUnlistedBasesMissing
<1>3. CASE Execute
  <2>1. /\ UNCHANGED <<resolved, plan>> /\ error' \in {"none", "TSU_MISSING_BASE_COMPONENT"}
        /\ error' # "none" =>
             audit' = audit /\ Missing(resolved[plan[Len(audit) + 1]]) # {}
    BY <1>1, <1>3 DEF Execute, Raise
  <2>2. \A c : PhaseIndex(c)' = PhaseIndex(c)
    BY <2>1 DEF PhaseIndex
  <2>3. OnlyUnlistedBasesMissing'
    BY <1>3, <2>1, <2>2, BaseMissing DEF OnlyUnlistedBasesMissing
  <2>. QED BY <2>1, <2>3 DEF CycleFound
<1>4. CASE \/ \E c \in Code : \E d \in Menu[layer][c] : Declare(c, d)
           \/ NextLayer \/ Check \/ Leave \/ NextPhase \/ Finish
           \/ \E c \in Code : Visit(c)
  <2>1. error' \notin {"CYCLIC_DEPENDENCY", "TSU_MISSING_BASE_COMPONENT"}
    BY <1>1, <1>4 DEF Declare, NextLayer, Check, Leave, NextPhase, Finish, Visit, Raise, Complaint
  <2>. QED BY <2>1 DEF CycleFound, OnlyUnlistedBasesMissing
<1>. QED BY <1>2, <1>3, <1>4 DEF Next

LEMMA StepAudit ==
  ASSUME TInv, SInv, AuditInv, Next
  PROVE  AuditInv'
<1>1. /\ audit \in Seq(Layer) /\ plan \in Seq(Code) /\ Len(audit) <= Len(plan)
      /\ Len(audit) \in Nat /\ DOMAIN audit = 1..Len(audit)
      /\ Len(plan) \in Nat /\ DOMAIN plan = 1..Len(plan)
  BY DEF TInv, TypeOK
<1>2. CASE Execute
  <2>1. UNCHANGED <<resolved, plan>>
    BY <1>2 DEF Execute
  <2>2. CASE audit' = audit
    BY <2>1, <2>2 DEF AuditInv
  <2>3. CASE audit' = Append(audit, PrimaryCitation(resolved[plan[Len(audit) + 1]].cites))
    BY <1>1, <2>1, <2>3 DEF AuditInv
  <2>. QED BY <1>2, <2>2, <2>3 DEF Execute
<1>3. CASE Leave
  <2>1. /\ UNCHANGED <<resolved, audit>> /\ audit = <<>>
    BY <1>3 DEF Leave, SInv, StageInv
  <2>. QED BY <2>1 DEF AuditInv
<1>4. CASE \E c \in Code : \E d \in Menu[layer][c] : Declare(c, d)
  <2>1. audit' = <<>>
    BY <1>4 DEF Declare, SInv, StageInv
  <2>. QED BY <2>1 DEF AuditInv
<1>5. CASE \/ NextLayer \/ Check \/ NextPhase \/ Finish
           \/ \E c \in Code : Visit(c) \/ Descend(c)
  <2>1. UNCHANGED <<resolved, plan, audit>>
    BY <1>5 DEF NextLayer, Check, NextPhase, Finish, Visit, Descend
  <2>. QED BY <2>1 DEF AuditInv
<1>. QED BY <1>2, <1>3, <1>4, <1>5 DEF Next

LEMMA Stutter == Inv /\ UNCHANGED vars => Inv'
<1>. SUFFICES ASSUME Inv, UNCHANGED vars PROVE Inv'
  OBVIOUS
<1>1. UNCHANGED <<docs, layer, resolved, at, error, phase, path, plan, audit>>
  BY DEF vars
<1>2. TInv'
  BY <1>1 DEF Inv, TInv, TypeOK
<1>3. MInv'
  BY <1>1, LaterSteps DEF Inv
<1>4. SInv'
  <2>1. PathInv'
    BY <1>1 DEF Inv, SInv, PathInv, InPhase, Deps, Elems
  <2>2. PlanInv'
    BY <1>1 DEF Inv, SInv, PlanInv, InputsFirst, PhaseIndex, Elems
  <2>3. StageInv'
    BY <1>1 DEF Inv, SInv, StageInv
  <2>. QED BY <2>1, <2>2, <2>3 DEF SInv
<1>5. CycleFound' /\ OnlyUnlistedBasesMissing' /\ AuditInv'
  BY <1>1 DEF Inv, CycleFound, OnlyUnlistedBasesMissing, AuditInv, Cyclic, PhaseIndex
<1>. QED BY <1>2, <1>3, <1>4, <1>5 DEF Inv

(* The invariant behind all of them, of every dry run.                       *)
THEOREM Invariant == Spec => []Inv
<1>1. Inv /\ [Next]_vars => Inv'
  <2>. SUFFICES ASSUME Inv, [Next]_vars PROVE Inv'
    OBVIOUS
  <2>1. CASE Next
    <3>1. TInv'
      BY <2>1, StepTypes DEF Inv
    <3>2. MInv' /\ SInv' /\ AuditInv' /\ CycleFound' /\ OnlyUnlistedBasesMissing'
      BY <2>1, <3>1, StepMerges, StepPlan, StepErrors, StepAudit DEF Inv
    <3>. QED BY <3>1, <3>2 DEF Inv
  <2>2. CASE UNCHANGED vars
    BY <2>2, Stutter
  <2>. QED BY <2>1, <2>2
<1>. QED BY <1>1, InitInv, PTL DEF Spec

(* Every variable keeps its type.                                            *)
THEOREM TypeCorrect == Spec => []TypeOK
<1>1. Inv => TypeOK
  BY DEF Inv, TInv
<1>. QED BY <1>1, Invariant, PTL

(* Whatever the documents say and in whatever order they list it, merging    *)
(* them one after the other (RuleResolver.resolve) comes to what they say    *)
(* together.                                                                 *)
THEOREM ResolutionCorrect == Spec => []ResolvedAsDeclared
<1>1. Inv => ResolvedAsDeclared
  BY DEF Inv, MInv, ResolvedAsDeclared, AsDeclared
<1>. QED BY <1>1, Invariant, PTL

(* What the layer that introduces a component as locked gives it stays       *)
(* (_check_locked_override).                                                 *)
THEOREM FirstLock == Spec => []FirstLockHolds
<1>1. Inv => FirstLockHolds
  <2>. SUFFICES ASSUME Inv, NEW c \in DOMAIN resolved,
                       docs[Lowest(InForce(c))][c].locked,
                       error # "LOCKED_COMPONENT_OVERRIDE",
                       NEW n \in DOMAIN docs[Lowest(InForce(c))][c].params
                PROVE  resolved[c].params[n] = docs[Lowest(InForce(c))][c].params[n]
    BY DEF FirstLockHolds, Keeps
  <2> DEFINE l == Lowest(InForce(c))
  <2>1. InForce(c) # {} /\ AsDeclared(c) /\ Sealed(c)
    BY DEF Inv, MInv
  <2>2. l \in InForce(c) /\ l \in Layer
    BY <2>1, LowestIs DEF InForce
  <2>3. Giving(c, n) = {l}
    BY <2>1, <2>2 DEF Giving, Sealed, AsDeclared
  <2>4. n \in ParamName
    BY <2>2 DEF Inv, TInv, TypeOK, InForce, Decl, Params
  <2>5. Highest({l}) = l
    BY <2>2, HighestIs
  <2>. QED BY <2>1, <2>3, <2>4, <2>5 DEF AsDeclared
<1>. QED BY <1>1, Invariant, PTL

(* A plan that is executed has every component once, in the order of the     *)
(* phases and after its inputs (CalculationPlanBuilder.build).               *)
THEOREM PlanCorrect == Spec => []PlanOrdered
<1>1. Inv => PlanOrdered
  BY OrderedPlan DEF Inv
<1>. QED BY <1>1, Invariant, PTL

(* The plan is refused as cyclic exactly if a phase has a cycle              *)
(* (_topological_sort).                                                      *)
THEOREM CyclesCorrect == Spec => []CyclesRefused
<1>1. Inv => CyclesRefused
  BY OrderedPlan, OrderedAcyclic DEF Inv, CycleFound, CyclesRefused
<1>. QED BY <1>1, Invariant, PTL

(* A checked plan fails in execution only over a base that is no listed      *)
(* input or is of a later phase (compute_tsu_contribution).                  *)
THEOREM BasesCorrect == Spec => []OnlyUnlistedBasesMissing
<1>1. Inv => OnlyUnlistedBasesMissing
  BY DEF Inv
<1>. QED BY <1>1, Invariant, PTL

(* An audit entry cites the highest layer that says anything of its          *)
(* component, and all that layer gives was computed with                     *)
(* (select_primary_citation).                                                *)
THEOREM AuditCorrect == Spec => []AuditCitesLastWord
<1>1. Inv => AuditCitesLastWord
  <2>. SUFFICES ASSUME Inv, NEW i \in DOMAIN audit
                PROVE  /\ audit[i] \in InForce(plan[i])
                       /\ \A h \in Layer : h > audit[i] => plan[i] \notin DOMAIN docs[h]
                       /\ Keeps(plan[i], audit[i]) /\ KeepsInputs(plan[i], audit[i])
    BY DEF AuditCitesLastWord
  <2> DEFINE c == plan[i]  h == Highest(InForce(c))
  <2>1. error # "LOCKED_COMPONENT_OVERRIDE"
    BY DEF Inv, SInv, StageInv
  <2>2. i \in DOMAIN plan
    BY DEF Inv, TInv, TypeOK
  <2>3. c \in DOMAIN resolved
    BY <2>2 DEF Inv, SInv, PlanInv, Elems
  <2>4. InForce(c) # {} /\ AsDeclared(c) /\ InForce(c) \in SUBSET Layer
    BY <2>1, <2>3 DEF Inv, MInv, InForce
  <2>5. audit[i] = h
    BY <2>4 DEF Inv, AuditInv, AsDeclared, PrimaryCitation, Highest
  <2>6. h \in InForce(c) /\ \A m \in InForce(c) : m <= h
    BY <2>4, HighestIs
  <2>7. ASSUME NEW n \in DOMAIN docs[h][c].params
        PROVE  resolved[c].params[n] = docs[h][c].params[n]
    <3>1. h \in Giving(c, n) /\ Giving(c, n) \in SUBSET InForce(c)
      BY <2>6, <2>7 DEF Giving
    <3>2. /\ Highest(Giving(c, n)) \in Giving(c, n)
          /\ \A m \in Giving(c, n) : m <= Highest(Giving(c, n))
      <4>1. Giving(c, n) \in SUBSET Layer
        BY <2>4, <3>1
      <4>. QED BY <3>1, <4>1, HighestIs
    <3>3. Highest(Giving(c, n)) = h
      BY <2>4, <2>6, <3>1, <3>2 DEF Layer
    <3>4. n \in ParamName
      <4>1. h \in Layer /\ c \in DOMAIN docs[h]
        BY <2>6 DEF InForce
      <4>2. docs[h][c] \in Decl
        BY <4>1 DEF Inv, TInv, TypeOK
      <4>. QED BY <2>7, <4>2 DEF Decl, Params
    <3>. QED BY <2>4, <3>1, <3>3, <3>4 DEF AsDeclared
  <2>8. docs[h][c].needs # {} => resolved[c].needs = docs[h][c].needs
    <3>. SUFFICES ASSUME docs[h][c].needs # {}
                  PROVE  resolved[c].needs = docs[h][c].needs
      OBVIOUS
    <3>1. h \in GivingInputs(c) /\ GivingInputs(c) \in SUBSET InForce(c)
      BY <2>6 DEF GivingInputs
    <3>2. /\ Highest(GivingInputs(c)) \in GivingInputs(c)
          /\ \A m \in GivingInputs(c) : m <= Highest(GivingInputs(c))
      <4>1. GivingInputs(c) \in SUBSET Layer
        BY <2>4, <3>1
      <4>. QED BY <3>1, <4>1, HighestIs
    <3>3. Highest(GivingInputs(c)) = h
      BY <2>4, <2>6, <3>1, <3>2 DEF Layer
    <3>. QED BY <2>4, <3>1, <3>3 DEF AsDeclared
  \* A layer above the cited one is not in force; if it named the component,
  \* one at least as high would disable it, and with it the cited one.
  <2>9. ASSUME NEW g \in Layer, g > h  PROVE c \notin DOMAIN docs[g]
    <3>1. g \notin InForce(c) /\ h \in Layer
      BY <2>4, <2>6, <2>9 DEF Layer
    <3>2. \A k \in h..3 : ~Disables(k, c)
      BY <2>6 DEF InForce
    <3>3. \A k \in g..3 : k \in h..3
      BY <2>9, <3>1 DEF Layer
    <3>. QED BY <3>1, <3>2, <3>3 DEF InForce
  <2>. QED BY <2>5, <2>6, <2>7, <2>8, <2>9 DEF Keeps, KeepsInputs
<1>. QED BY <1>1, Invariant, PTL
=============================================================================
