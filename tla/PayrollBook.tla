----------------------------- MODULE PayrollBook -----------------------------
(***************************************************************************)
(* What the payroll registry promises its callers: whoever opens a scope    *)
(* works on a draft of the book, every entry is made whole, and the book    *)
(* becomes the draft when the scope is kept and stays as it was when it is  *)
(* given up.                                                               *)
(***************************************************************************)
CONSTANTS Employee, Contract, Period, Sum, None, Kept(_)

VARIABLES
  book,    \* what is on record
  draft,   \* what the scope that is open would put there
  open

vars == <<book, draft, open>>

\* f, with g's values where g has any.
Updated(f, g) ==
  [n \in DOMAIN f \cup DOMAIN g |-> IF n \in DOMAIN g THEN g[n] ELSE f[n]]

Nothing == [x \in {} |-> x]

Blank ==
  [employees |-> Nothing, contracts |-> Nothing, periods |-> {}, times |-> Nothing]

Init ==
  /\ book = Blank
  /\ draft = Blank
  /\ open = FALSE

Begin ==
  /\ ~open
  /\ open' = TRUE
  /\ draft' = book
  /\ UNCHANGED book

Enter(entry) ==
  /\ open
  /\ draft' = entry
  /\ UNCHANGED <<book, open>>

\* A new employee, or one who is taken on again, has no contract.
Employ(e) ==
  Enter([draft EXCEPT !.employees = Updated(@, [x \in {e} |-> None])])

\* A contract and the employee's current contract are entered together.
Engage(c, e, s) ==
  /\ e \in DOMAIN draft.employees
  /\ Enter([draft EXCEPT
       !.contracts = Updated(@, [x \in {c} |-> [employee |-> e, salary |-> s]]),
       !.employees[e] = c])

Schedule(p) == Enter([draft EXCEPT !.periods = @ \cup {p}])

Clock(p, e, h) ==
  /\ p \in draft.periods
  /\ e \in DOMAIN draft.employees
  /\ Enter([draft EXCEPT !.times = Updated(@, [x \in {<<p, e>>} |-> h])])

Keep ==
  /\ open
  /\ open' = FALSE
  /\ book' = Kept(draft)
  /\ draft' = Kept(draft)

GiveUp ==
  /\ open
  /\ open' = FALSE
  /\ draft' = book
  /\ UNCHANGED book

Next ==
  \/ Begin \/ Keep \/ GiveUp
  \/ \E e \in Employee :
       \/ Employ(e)
       \/ \E c \in Contract, s \in Sum : Engage(c, e, s)
       \/ \E p \in Period, h \in Sum : Clock(p, e, h)
  \/ \E p \in Period : Schedule(p)

Spec == Init /\ [][Next]_vars
=============================================================================
