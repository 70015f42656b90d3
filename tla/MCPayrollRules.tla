--------------------------- MODULE MCPayrollRules ---------------------------
(* An instance of PayrollRules: the two shipped components and a third.     *)
EXTENDS PayrollRules, TLC

CONSTANTS base, tsu, extra, r1, r2

MCCode == {base, tsu, extra}

Salary(needs) ==
  [phase |-> "gross", primitive |-> "BaseSalary", params |-> <<>>,
   needs |-> needs, locked |-> FALSE, disabled |-> FALSE]

Contribution(ph, params, needs, locked) ==
  [phase |-> ph, primitive |-> "TSUContribution", params |-> params,
   needs |-> needs, locked |-> locked, disabled |-> FALSE]

Off(d) == [d EXCEPT !.disabled = TRUE]

Of(r)     == [rate |-> r]
On(r, cs) == [rate |-> r, base_components |-> cs]

MCMenu ==
  [l \in Layer |->
    (base  :> IF l = 1 THEN {Salary({})}
              ELSE {Salary({}), Off(Salary({})), Salary({extra})}) @@
    (tsu   :> IF l = 1 THEN {Contribution("tax", On(r1, {base}), {base}, k) : k \in BOOLEAN}
              ELSE {Contribution("tax", Of(r2), {}, l = 2), Contribution("tax", <<>>, {extra}, FALSE),
                    Contribution("tax", On(r1, {base, extra}), {base, extra}, FALSE),
                    Contribution("employer_contribution", <<>>, {base}, FALSE),
                    Off(Contribution("tax", <<>>, {}, FALSE))}) @@
    (extra :> IF l = 1 THEN {}
              ELSE {Salary({}), Salary({base}), Contribution("tax", On(r1, {tsu}), {tsu}, FALSE),
                    Contribution("tax", Of(r2), {base}, FALSE),
                    [Salary({}) EXCEPT !.primitive = "unknown"]})]
=============================================================================
