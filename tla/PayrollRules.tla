----------------------------- MODULE PayrollRules -----------------------------
(* From rule documents to a payslip: logic/payroll.                           *)
(*                                                                            *)
(* A dry run merges up to three rule documents (RuleResolver), checks what    *)
(* they say together and puts it in order (CalculationPlanBuilder), and       *)
(* computes one payslip line per component (Executor).  It is one thread that *)
(* shares nothing; what is hard is what three authors write without seeing    *)
(* each other's documents.                                                    *)
EXTENDS Naturals, Sequences

CONSTANTS
  Code,   \* component codes
  Rate,   \* contribution rates
  Menu    \* Menu[l][c]: what the document of layer l may say of component c

\* Layers, lowest priority first: statutory, collective agreement, company.
Layer == 1..3

PhaseOrder ==
  <<"input", "gross", "pre_tax_deduction", "tax", "post_tax", "employer_contribution">>

Phase == {PhaseOrder[k] : k \in DOMAIN PhaseOrder}

Primitive == {"BaseSalary", "TSUContribution"}   \* what is registered

ParamName == {"rate", "base_components"}

\* Parameters are partial: a document may name only those it changes.
Params == UNION {[ns -> Rate \cup SUBSET Code] : ns \in SUBSET ParamName}

\* What a document says of a component.
Decl ==
  [phase : Phase, primitive : Primitive \cup {"unknown"}, params : Params,
   needs : SUBSET Code, locked : BOOLEAN, disabled : BOOLEAN]

ASSUME MenuAssumption == Menu \in [Layer -> [Code -> SUBSET Decl]]

Component ==
  [phase : Phase, primitive : Primitive \cup {"unknown"}, params : Params,
   needs : SUBSET Code, locked : BOOLEAN, cites : SUBSET Layer]

VARIABLES
  docs,      \* docs[l][c]: the documents, as far as they have been read
  layer,     \* the layer being merged
  resolved,  \* resolved[c]: RuleStackSnapshot.resolved_components
  at,        \* what the dry run is doing
  error,     \* the code of the error that ended it
  phase,     \* index of the phase being sorted
  path,      \* the visits under way in _topological_sort
  plan,      \* codes of the plan's steps
  audit      \* audit[i]: the layer that step i's audit entry cites

vars == <<docs, layer, resolved, at, error, phase, path, plan, audit>>

Nothing == [c \in {} |-> TRUE]

Init ==
  /\ docs = [l \in Layer |-> Nothing]
  /\ layer = 1
  /\ resolved = Nothing
  /\ at = "resolve"
  /\ error = "none"
  /\ phase = 1
  /\ path = <<>>
  /\ plan = <<>>
  /\ audit = <<>>

Raise(e) ==
  /\ at' = "failed"
  /\ error' = e

Elems(s) == {s[i] : i \in DOMAIN s}

\* f, with g's values where g has any.
Updated(f, g) ==
  [n \in DOMAIN f \cup DOMAIN g |-> IF n \in DOMAIN g THEN g[n] ELSE f[n]]

Without(f, c) == [x \in DOMAIN f \ {c} |-> f[x]]

-----------------------------------------------------------------------------
(* Resolution *)

StructuralDiffers(low, d) == d.phase # low.phase \/ d.primitive # low.primitive

RefusedIfRecast(low, d) ==   \* mutant: a lock covers the structure only
  low.locked /\ StructuralDiffers(low, d)
Refused(low, d) == low.locked /\ (DOMAIN d.params # {} \/ StructuralDiffers(low, d))

Fresh(d, l) ==
  [phase |-> d.phase, primitive |-> d.primitive, params |-> d.params,
   needs |-> d.needs, locked |-> d.locked, cites |-> {l}]

MergedUnder(low, d, l) ==   \* mutant: the lower layer's parameters win
  [low EXCEPT !.params = Updated(d.params, @),
              !.needs  = IF d.needs = {} THEN @ ELSE d.needs,
              !.cites  = @ \cup {l}]
\* A higher layer changes parameters and, unless it is silent on them, the
\* inputs; everything else, the lock included, stays with the lowest layer.
Merged(low, d, l) ==
  [low EXCEPT !.params = Updated(@, d.params),
              !.needs  = IF d.needs = {} THEN @ ELSE d.needs,
              !.cites  = @ \cup {l}]

\* Documents list their components in any order, each once.
Declare(c, d) ==
  /\ at = "resolve"
  /\ c \notin DOMAIN docs[layer]
  /\ docs' = [docs EXCEPT ![layer] = Updated(@, [x \in {c} |-> d])]
  /\ \/ /\ d.disabled
        /\ resolved' = Without(resolved, c)
        /\ UNCHANGED <<at, error>>
     \/ /\ ~d.disabled /\ c \notin DOMAIN resolved
        /\ resolved' = Updated(resolved, [x \in {c} |-> Fresh(d, layer)])
        /\ UNCHANGED <<at, error>>
     \/ /\ ~d.disabled /\ c \in DOMAIN resolved /\ ~Refused(resolved[c], d)
        /\ resolved' = [resolved EXCEPT ![c] = Merged(@, d, layer)]
        /\ UNCHANGED <<at, error>>
     \/ /\ ~d.disabled /\ c \in DOMAIN resolved /\ Refused(resolved[c], d)
        /\ Raise("LOCKED_COMPONENT_OVERRIDE")
        /\ UNCHANGED resolved
  /\ UNCHANGED <<layer, phase, path, plan, audit>>

\* A layer without a document is one whose document is empty.
NextLayer ==
  /\ at = "resolve"
  /\ IF layer = 3 THEN at' = "check" /\ UNCHANGED layer
                  ELSE layer' = layer + 1 /\ UNCHANGED at
  /\ UNCHANGED <<docs, resolved, error, phase, path, plan, audit>>

-----------------------------------------------------------------------------
(* The plan *)

\* BaseSalary takes no parameters and ignores those it gets.
SchemaAccepts(r) ==
  r.primitive = "TSUContribution" =>
    DOMAIN r.params = ParamName /\ r.params["base_components"] # {}

\* What is wrong with a component; the tests are made in this order.
Complaint(r) ==
  IF ~(r.needs \subseteq DOMAIN resolved) THEN "UNRESOLVED_DEPENDENCY"
  ELSE IF r.primitive \notin Primitive    THEN "UNKNOWN_PRIMITIVE"
  ELSE IF ~SchemaAccepts(r)               THEN "PARAMETER_SCHEMA_INVALID"
  ELSE "none"

Check ==
  /\ at = "check"
  /\ LET found == {Complaint(resolved[c]) : c \in DOMAIN resolved} \ {"none"}
     IN \/ found = {} /\ at' = "sort" /\ UNCHANGED error
        \/ \E e \in found : Raise(e)
  /\ UNCHANGED <<docs, layer, resolved, phase, path, plan, audit>>

InPhase == {c \in DOMAIN resolved : resolved[c].phase = PhaseOrder[phase]}

Visited == Elems(plan)

DepsOfAnyPhase(c) == resolved[c].needs   \* mutant: other phases are visited, too
DepsIgnored(c) == {}   \* mutant: components in the order they come
\* Only inputs of the same phase are visited.
Deps(c) == resolved[c].needs \cap InPhase

Visit(c) ==
  /\ at = "sort" /\ path = <<>>
  /\ c \in InPhase \ Visited
  /\ path' = <<c>>
  /\ UNCHANGED <<docs, layer, resolved, at, error, phase, plan, audit>>

Top == path[Len(path)]

Descend(c) ==
  /\ at = "sort" /\ path # <<>>
  /\ c \in Deps(Top) \ Visited
  /\ IF c \in Elems(path)
       THEN Raise("CYCLIC_DEPENDENCY") /\ UNCHANGED path
       ELSE path' = Append(path, c) /\ UNCHANGED <<at, error>>
  /\ UNCHANGED <<docs, layer, resolved, phase, plan, audit>>

Leave ==
  /\ at = "sort" /\ path # <<>>
  /\ Deps(Top) \subseteq Visited
  /\ plan' = Append(plan, Top)
  /\ path' = SubSeq(path, 1, Len(path) - 1)
  /\ UNCHANGED <<docs, layer, resolved, at, error, phase, audit>>

NextPhase ==
  /\ at = "sort" /\ path = <<>>
  /\ InPhase \subseteq Visited
  /\ IF phase = Len(PhaseOrder) THEN at' = "execute" /\ UNCHANGED phase
                                ELSE phase' = phase + 1 /\ UNCHANGED at
  /\ UNCHANGED <<docs, layer, resolved, error, path, plan, audit>>

-----------------------------------------------------------------------------
(* Execution *)

Produced == {plan[i] : i \in DOMAIN audit}

\* Inputs that are not there yet are left out, not missed.
Inputs(r) == r.needs \cap Produced

\* Only TSUContribution looks at its inputs.
Missing(r) ==
  IF r.primitive = "TSUContribution"
    THEN r.params["base_components"] \ Inputs(r)
    ELSE {}

FirstCitation(cites) ==   \* mutant: the layer that introduced the component
  CHOOSE l \in cites : \A m \in cites : l <= m
PrimaryCitation(cites) == CHOOSE l \in cites : \A m \in cites : m <= l

Execute ==
  /\ at = "execute" /\ Len(audit) < Len(plan)
  /\ LET r == resolved[plan[Len(audit) + 1]]
     IN IF Missing(r) = {}
          THEN /\ audit' = Append(audit, PrimaryCitation(r.cites))
               /\ UNCHANGED <<at, error>>
          ELSE /\ Raise("TSU_MISSING_BASE_COMPONENT")
               /\ UNCHANGED audit
  /\ UNCHANGED <<docs, layer, resolved, phase, path, plan>>

Finish ==
  /\ at = "execute" /\ Len(audit) = Len(plan)
  /\ at' = "done"
  /\ UNCHANGED <<docs, layer, resolved, error, phase, path, plan, audit>>

Next ==
  \/ \E c \in Code : \E d \in Menu[layer][c] : Declare(c, d)
  \/ NextLayer
  \/ Check
  \/ \E c \in Code : Visit(c) \/ Descend(c)
  \/ Leave
  \/ NextPhase
  \/ Execute
  \/ Finish

Spec == Init /\ [][Next]_vars
-----------------------------------------------------------------------------
(* Properties *)

TypeOK ==
  /\ DOMAIN docs = Layer
  /\ \A l \in Layer : DOMAIN docs[l] \subseteq Code /\ docs[l] \in [DOMAIN docs[l] -> Decl]
  /\ layer \in Layer
  /\ DOMAIN resolved \subseteq Code /\ resolved \in [DOMAIN resolved -> Component]
  /\ at \in {"resolve", "check", "sort", "execute", "done", "failed"}
  /\ error \in {"none", "LOCKED_COMPONENT_OVERRIDE", "UNRESOLVED_DEPENDENCY",
               "UNKNOWN_PRIMITIVE", "PARAMETER_SCHEMA_INVALID", "CYCLIC_DEPENDENCY",
               "TSU_MISSING_BASE_COMPONENT"}
  /\ phase \in DOMAIN PhaseOrder
  /\ path \in Seq(Code) /\ plan \in Seq(Code) /\ audit \in Seq(Layer)

\* The layers whose word on c counts: those that declare it and are followed by
\* none that disables it.
Disables(l, c) == c \in DOMAIN docs[l] /\ docs[l][c].disabled
InForce(c) ==
  {l \in Layer : c \in DOMAIN docs[l] /\ \A h \in l..3 : ~Disables(h, c)}

Lowest(ls)  == CHOOSE l \in ls : \A m \in ls : l <= m
Highest(ls) == CHOOSE l \in ls : \A m \in ls : m <= l

\* The layers in force that give c a parameter n, or inputs.
Giving(c, n)    == {l \in InForce(c) : n \in DOMAIN docs[l][c].params}
GivingInputs(c) == {l \in InForce(c) : docs[l][c].needs # {}}

\* Merging document by document comes to what the documents say together: a
\* component exists if a layer declares it and none above disables it; its
\* parameters and inputs are each the highest layer's that gives any; what it
\* is, and whether it is locked, is the lowest layer's.
ResolvedAsDeclared ==
  error # "LOCKED_COMPONENT_OVERRIDE" =>
    /\ DOMAIN resolved = {c \in Code : InForce(c) # {}}
    /\ \A c \in DOMAIN resolved :
         LET r == resolved[c]  low == docs[Lowest(InForce(c))][c]
         IN /\ r.cites = InForce(c)
            /\ DOMAIN r.params = {n \in ParamName : Giving(c, n) # {}}
            /\ \A n \in DOMAIN r.params :
                 r.params[n] = docs[Highest(Giving(c, n))][c].params[n]
            /\ r.needs = IF GivingInputs(c) = {} THEN {}
                         ELSE docs[Highest(GivingInputs(c))][c].needs
            /\ <<r.phase, r.primitive, r.locked>> = <<low.phase, low.primitive, low.locked>>

Keeps(c, l) ==
  \A n \in DOMAIN docs[l][c].params : resolved[c].params[n] = docs[l][c].params[n]

\* "Higher layers cannot override `parameters` of a locked component"
\* (ComponentDecl): whichever layer in force says locked, what it gives stays.
LocksHold ==
  \A c \in DOMAIN resolved : \A l \in InForce(c) :
    docs[l][c].locked /\ error # "LOCKED_COMPONENT_OVERRIDE" => Keeps(c, l)

\* The same of a lock set by the layer that introduces the component.
FirstLockHolds ==
  \A c \in DOMAIN resolved :
    LET l == Lowest(InForce(c))
    IN docs[l][c].locked /\ error # "LOCKED_COMPONENT_OVERRIDE" => Keeps(c, l)

PhaseIndex(c) == CHOOSE k \in DOMAIN PhaseOrder : PhaseOrder[k] = resolved[c].phase

\* A plan that is executed has every component once, phase by phase, and after
\* its inputs of the same and of earlier phases.
PlanOrdered ==
  at \in {"execute", "done"} =>
    /\ Elems(plan) = DOMAIN resolved
    /\ \A i, j \in DOMAIN plan :
         /\ i # j => plan[i] # plan[j]
         /\ i < j => PhaseIndex(plan[i]) <= PhaseIndex(plan[j])
         /\ plan[j] \in resolved[plan[i]].needs /\ PhaseIndex(plan[j]) <= PhaseIndex(plan[i])
              => j < i

\* Sets of components of one phase of which each needs another: cycles.
Cyclic(cs) ==
  cs # {} /\ \A c \in cs : \E d \in cs : d \in resolved[c].needs /\ PhaseIndex(c) = PhaseIndex(d)

\* A plan is refused as cyclic if and only if a phase has a cycle.
CyclesRefused ==
  /\ at \in {"execute", "done"} => ~\E cs \in SUBSET DOMAIN resolved : Cyclic(cs)
  /\ error = "CYCLIC_DEPENDENCY" => \E cs \in SUBSET DOMAIN resolved : Cyclic(cs)

\* "A plan that fails validation never executes": what still fails in execution
\* is a contribution on a base it does not list as input, or of a later phase.
OnlyUnlistedBasesMissing ==
  error = "TSU_MISSING_BASE_COMPONENT" =>
    LET c == plan[Len(audit) + 1]
    IN \E b \in resolved[c].params["base_components"] :
         b \notin resolved[c].needs \/ PhaseIndex(b) > PhaseIndex(c)

KeepsInputs(c, l) == docs[l][c].needs # {} => resolved[c].needs = docs[l][c].needs

\* An audit entry cites the document that had the last word on its component
\* (select_primary_citation): no document of a higher layer names the component,
\* and every parameter and list of inputs that document gives was computed with.
\* What the component is (phase, primitive, lock) stays the lowest layer's.
AuditCitesLastWord ==
  \A i \in DOMAIN audit :
    LET c == plan[i]  l == audit[i]
    IN /\ l \in InForce(c)
       /\ \A h \in Layer : h > l => c \notin DOMAIN docs[h]
       /\ Keeps(c, l) /\ KeepsInputs(c, l)

\* "The highest-priority layer is the one whose values actually appear in the
\* resolved component" (select_primary_citation): what the cited document says
\* of the component, its phase and primitive included, is what was computed.
CitedValuesAppear ==
  \A i \in DOMAIN audit :
    LET c == plan[i]  d == docs[audit[i]][c]
    IN /\ Keeps(c, audit[i]) /\ KeepsInputs(c, audit[i])
       /\ resolved[c].phase = d.phase /\ resolved[c].primitive = d.primitive
=============================================================================
