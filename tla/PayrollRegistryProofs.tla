------------------------ MODULE PayrollRegistryProofs ------------------------
(***************************************************************************)
(* PayrollRegistry for any employees, contracts, periods, amounts and rule  *)
(* files, and any number of calls, scopes, failures and edits.              *)
(***************************************************************************)
EXTENDS PayrollRegistry, TLAPS

(***************************************************************************)
(* Helpers                                                                  *)
(***************************************************************************)

LEMMA EntryMade ==
  ASSUME NEW S, NEW T, NEW f, Maps(f, S, T), NEW k \in S, NEW v \in T,
         NEW g, g = Updated(f, Entry(k, v))
  PROVE  /\ Maps(g, S, T)
         /\ DOMAIN g = DOMAIN f \cup {k}
         /\ g[k] = v
         /\ \A n \in DOMAIN f \ {k} : g[n] = f[n]
BY DEF Maps, Updated, Entry

LEMMA NothingMaps ==
  ASSUME NEW S, NEW T
  PROVE  Maps(Nothing, S, T) /\ DOMAIN Nothing = {}
BY DEF Maps, Nothing

LEMMA RoundedNat == ASSUME NEW x \in Nat  PROVE Rounded(x) \in Nat
BY DEF Rounded

LEMMA RoundedOnce == ASSUME NEW x \in Nat  PROVE Rounded(Rounded(x)) = Rounded(x)
BY DEF Rounded

LEMMA CallShapes ==
  /\ Idle \in Calls /\ Idle.at = "idle"
  /\ \A c \in Calls :
       /\ c.at = "pointing" => c.employee \in Employee /\ c.contract \in Contract
       /\ c.at = "loading" => c.layer \in 1..(NumLayers + 1)
       /\ c.at = "idle" <=> c = Idle
BY DEF Calls, Idle

(***************************************************************************)
(* What the repositories' writes do to the shape of the tables              *)
(***************************************************************************)

Shaped(t, cols) == IsTables(t) /\ DOMAIN t = cols

LEMMA PutEmployeeShape ==
  ASSUME NEW t, NEW cols, Columns \subseteq cols, Shaped(t, cols),
         NEW e \in Employee, NEW c \in Contract \cup {None},
         NEW u, u = PutEmployee(t, e, c)
  PROVE  /\ Shaped(u, cols)
         /\ DOMAIN u.employees = DOMAIN t.employees \cup {e}
         /\ u.employees[e] = c
         /\ \A n \in DOMAIN t.employees \ {e} : u.employees[n] = t.employees[n]
         /\ \A x \in cols \ {"employees"} : u[x] = t[x]
<1>1. u.employees = Updated(t.employees, Entry(e, c)) /\ DOMAIN u = cols
      /\ \A x \in cols \ {"employees"} : u[x] = t[x]
  BY DEF PutEmployee, Shaped, Columns
<1>2. u.contracts = t.contracts /\ u.periods = t.periods /\ u.times = t.times
  BY <1>1 DEF Columns
<1>3. Maps(t.employees, Employee, Contract \cup {None})
  BY DEF Shaped, IsTables
<1>4. /\ Maps(u.employees, Employee, Contract \cup {None})
      /\ DOMAIN u.employees = DOMAIN t.employees \cup {e}
      /\ u.employees[e] = c
      /\ \A n \in DOMAIN t.employees \ {e} : u.employees[n] = t.employees[n]
  BY <1>1, <1>3, EntryMade
<1>. QED BY <1>1, <1>2, <1>4 DEF Shaped, IsTables

LEMMA PutRowShape ==
  ASSUME NEW t, NEW cols, Columns \subseteq cols, Shaped(t, cols),
         NEW c \in Contract, NEW e \in Employee, NEW s \in Nat,
         NEW u, u = PutRow(t, c, e, s)
  PROVE  /\ Shaped(u, cols)
         /\ DOMAIN u.contracts = DOMAIN t.contracts \cup {c}
         /\ u.contracts[c] = [employee |-> e, salary |-> s]
         /\ \A n \in DOMAIN t.contracts \ {c} : u.contracts[n] = t.contracts[n]
         /\ \A x \in cols \ {"contracts"} : u[x] = t[x]
<1>1. u.contracts = Updated(t.contracts, Entry(c, [employee |-> e, salary |-> s]))
      /\ DOMAIN u = cols /\ \A x \in cols \ {"contracts"} : u[x] = t[x]
  BY DEF PutRow, Shaped, Columns
<1>2. u.employees = t.employees /\ u.periods = t.periods /\ u.times = t.times
  BY <1>1 DEF Columns
<1>3. [employee |-> e, salary |-> s] \in Row
  BY DEF Row
<1>4. Maps(t.contracts, Contract, Row)
  BY DEF Shaped, IsTables
<1>5. /\ Maps(u.contracts, Contract, Row)
      /\ DOMAIN u.contracts = DOMAIN t.contracts \cup {c}
      /\ u.contracts[c] = [employee |-> e, salary |-> s]
      /\ \A n \in DOMAIN t.contracts \ {c} : u.contracts[n] = t.contracts[n]
  <2> DEFINE v == [employee |-> e, salary |-> s]
  <2>1. v \in Row /\ u.contracts = Updated(t.contracts, Entry(c, v))
    BY <1>1, <1>3
  <2>. HIDE DEF v
  <2>2. /\ Maps(u.contracts, Contract, Row)
        /\ DOMAIN u.contracts = DOMAIN t.contracts \cup {c}
        /\ u.contracts[c] = v
        /\ \A n \in DOMAIN t.contracts \ {c} : u.contracts[n] = t.contracts[n]
    BY <2>1, <1>4, EntryMade
  <2>. QED BY <2>2 DEF v
<1>. QED BY <1>1, <1>2, <1>5 DEF Shaped, IsTables

LEMMA PutPeriodShape ==
  ASSUME NEW t, NEW cols, Columns \subseteq cols, Shaped(t, cols), NEW p \in Period,
         NEW u, u = PutPeriod(t, p)
  PROVE  /\ Shaped(u, cols)
         /\ u.periods = t.periods \cup {p}
         /\ \A x \in cols \ {"periods"} : u[x] = t[x]
BY DEF PutPeriod, Shaped, Columns, IsTables

LEMMA PutTimesShape ==
  ASSUME NEW t, NEW cols, Columns \subseteq cols, Shaped(t, cols),
         NEW p \in Period, NEW e \in Employee, NEW h \in Nat,
         NEW u, u = PutTimes(t, p, e, h)
  PROVE  /\ Shaped(u, cols)
         /\ DOMAIN u.times = DOMAIN t.times \cup {<<p, e>>}
         /\ \A x \in cols \ {"times"} : u[x] = t[x]
<1>1. u.times = Updated(t.times, Entry(<<p, e>>, h)) /\ DOMAIN u = cols
      /\ \A x \in cols \ {"times"} : u[x] = t[x]
  BY DEF PutTimes, Shaped, Columns
<1>2. u.employees = t.employees /\ u.periods = t.periods /\ u.contracts = t.contracts
  BY <1>1 DEF Columns
<1>3. <<p, e>> \in Period \X Employee
  OBVIOUS
<1>4. Maps(t.times, Period \X Employee, Nat)
  BY DEF Shaped, IsTables
<1>5. /\ Maps(u.times, Period \X Employee, Nat)
      /\ DOMAIN u.times = DOMAIN t.times \cup {<<p, e>>}
  <2> DEFINE k == <<p, e>>
             keys == Period \X Employee
             hours == Nat
             f == t.times
             g == u.times
             v == h
  <2>1. k \in keys
    BY <1>3
  <2>2. v \in hours
    OBVIOUS
  <2>3. Maps(f, keys, hours)
    BY <1>4
  <2>4. g = Updated(f, Entry(k, v))
    BY <1>1
  <2>. HIDE DEF k, keys, hours, f, g, v
  <2>5. Maps(g, keys, hours) /\ DOMAIN g = DOMAIN f \cup {k}
    BY <2>1, <2>2, <2>3, <2>4 DEF Maps, Updated, Entry
  <2>. QED BY <2>5 DEF k, keys, hours, f, g
<1>. QED BY <1>1, <1>2, <1>5 DEF Shaped, IsTables

LEMMA PutContractShape ==
  ASSUME NEW t, Shaped(t, Columns \cup {"byEmployee"}), Maps(t.byEmployee, Employee, Filed),
         NEW c \in Contract, NEW e \in Employee, NEW s \in Nat,
         NEW u, u = PutContract(t, c, e, s)
  PROVE  /\ Shaped(u, Columns \cup {"byEmployee"})
         /\ Maps(u.byEmployee, Employee, Filed)
         /\ DOMAIN u.contracts = DOMAIN t.contracts \cup {c}
<1> DEFINE cols == Columns \cup {"byEmployee"}
           r == PutRow(t, c, e, s)
           v == [contract |-> c, salary |-> s]
<1>1. /\ Shaped(r, cols)
      /\ DOMAIN r.contracts = DOMAIN t.contracts \cup {c}
      /\ r.contracts[c] = [employee |-> e, salary |-> s]
      /\ \A n \in DOMAIN t.contracts \ {c} : r.contracts[n] = t.contracts[n]
      /\ \A x \in cols \ {"contracts"} : r[x] = t[x]
  BY PutRowShape
<1>2. r.byEmployee = t.byEmployee
  BY <1>1 DEF Columns
<1>3. u.byEmployee = Updated(t.byEmployee, Entry(e, v))
      /\ DOMAIN u = cols /\ \A x \in cols \ {"byEmployee"} : u[x] = r[x]
  BY <1>1, <1>2 DEF PutContract, Shaped
<1>4. u.contracts = r.contracts /\ u.employees = r.employees /\ u.periods = r.periods
      /\ u.times = r.times
  BY <1>3 DEF Columns
<1>5. v \in Filed
  BY DEF Filed
<1>. HIDE DEF r, v
<1>6. Maps(u.byEmployee, Employee, Filed)
  <2>1. v \in Filed /\ u.byEmployee = Updated(t.byEmployee, Entry(e, v))
    BY <1>3, <1>5
  <2>2. /\ Maps(u.byEmployee, Employee, Filed)
        /\ DOMAIN u.byEmployee = DOMAIN t.byEmployee \cup {e}
        /\ u.byEmployee[e] = v
        /\ \A n \in DOMAIN t.byEmployee \ {e} : u.byEmployee[n] = t.byEmployee[n]
    BY <2>1, EntryMade
  <2>. QED BY <2>2
<1>7. Shaped(u, cols)
  BY <1>1, <1>3, <1>4 DEF Shaped, IsTables
<1>. QED BY <1>1, <1>4, <1>6, <1>7

LEMMA KeptShape ==
  ASSUME NEW t, Shaped(t, Columns),
         NEW u, u = Kept(t)
  PROVE  /\ Shaped(u, Columns)
         /\ u.employees = t.employees /\ u.periods = t.periods
         /\ DOMAIN u.contracts = DOMAIN t.contracts
         /\ \A c \in DOMAIN t.contracts :
              /\ u.contracts[c].employee = t.contracts[c].employee
              /\ u.contracts[c].salary = Rounded(t.contracts[c].salary)
         /\ DOMAIN u.times = DOMAIN t.times
<1>1. /\ DOMAIN u = Columns /\ u.employees = t.employees /\ u.periods = t.periods
      /\ u.contracts = [c \in DOMAIN t.contracts |->
           [employee |-> t.contracts[c].employee, salary |-> Rounded(t.contracts[c].salary)]]
      /\ u.times = [k \in DOMAIN t.times |-> Rounded(t.times[k])]
  <2>1. u = [t EXCEPT
               !.contracts = [c \in DOMAIN t.contracts |->
                                [employee |-> t.contracts[c].employee, salary |-> Rounded(t.contracts[c].salary)]],
               !.times = [k \in DOMAIN t.times |-> Rounded(t.times[k])]]
    BY DEF Kept
  <2> DEFINE C == [c \in DOMAIN t.contracts |->
               [employee |-> t.contracts[c].employee, salary |-> Rounded(t.contracts[c].salary)]]
             H == [k \in DOMAIN t.times |-> Rounded(t.times[k])]
  <2>2. u = [t EXCEPT !.contracts = C, !.times = H]
    BY <2>1
  <2>. HIDE DEF C, H
  <2>3. DOMAIN u = Columns /\ u.employees = t.employees /\ u.periods = t.periods
        /\ u.contracts = C /\ u.times = H
    BY <2>2 DEF Shaped, Columns
  <2>. QED BY <2>3 DEF C, H
<1>2. ASSUME NEW c \in DOMAIN t.contracts
      PROVE  [employee |-> t.contracts[c].employee, salary |-> Rounded(t.contracts[c].salary)] \in Row
  <2>1. t.contracts[c] \in Row
    BY DEF Shaped, IsTables, Maps
  <2>2. Rounded(t.contracts[c].salary) \in Nat
    BY <2>1, RoundedNat DEF Row
  <2>. QED BY <2>1, <2>2 DEF Row
<1>3. Maps(u.contracts, Contract, Row)
  BY <1>1, <1>2 DEF Shaped, IsTables, Maps
<1>4. Maps(u.times, Period \X Employee, Nat)
  BY <1>1, RoundedNat DEF Shaped, IsTables, Maps
<1>. QED BY <1>1, <1>3, <1>4 DEF Shaped, IsTables
(***************************************************************************)
(* ... and to the references between them                                   *)
(***************************************************************************)

LEMMA PutEmployeeSound ==
  ASSUME NEW t, NEW cols, Columns \subseteq cols, Shaped(t, cols), Sound(t),
         NEW e \in Employee, NEW c \in Contract \cup {None},
         c \in DOMAIN t.contracts \cup {None}
  PROVE  Sound(PutEmployee(t, e, c))
<1> DEFINE u == PutEmployee(t, e, c)
<1>1. /\ DOMAIN u.employees = DOMAIN t.employees \cup {e}
      /\ u.employees[e] = c
      /\ \A n \in DOMAIN t.employees \ {e} : u.employees[n] = t.employees[n]
      /\ \A x \in cols \ {"employees"} : u[x] = t[x]
  BY PutEmployeeShape
<1>2. u.contracts = t.contracts /\ u.periods = t.periods /\ u.times = t.times
  BY <1>1 DEF Columns
<1>. HIDE DEF u
<1>3. Sound(u)
  BY <1>1, <1>2 DEF Sound
<1>. QED BY <1>3 DEF u

LEMMA PutRowSound ==
  ASSUME NEW t, NEW cols, Columns \subseteq cols, Shaped(t, cols), Sound(t),
         NEW c \in Contract, NEW e \in Employee, e \in DOMAIN t.employees, NEW s \in Nat
  PROVE  Sound(PutRow(t, c, e, s))
<1> DEFINE u == PutRow(t, c, e, s)
<1>1. /\ DOMAIN u.contracts = DOMAIN t.contracts \cup {c}
      /\ u.contracts[c] = [employee |-> e, salary |-> s]
      /\ \A n \in DOMAIN t.contracts \ {c} : u.contracts[n] = t.contracts[n]
      /\ \A x \in cols \ {"contracts"} : u[x] = t[x]
  BY PutRowShape
<1>2. u.employees = t.employees /\ u.periods = t.periods /\ u.times = t.times
  BY <1>1 DEF Columns
<1>. HIDE DEF u
<1>3. u.contracts[c].employee = e
  BY <1>1
<1>4. Sound(u)
  BY <1>1, <1>2, <1>3 DEF Sound
<1>. QED BY <1>4 DEF u

LEMMA PutContractSound ==
  ASSUME NEW t, Shaped(t, Columns \cup {"byEmployee"}), Sound(t),
         NEW c \in Contract, NEW e \in Employee, e \in DOMAIN t.employees, NEW s \in Nat
  PROVE  Sound(PutContract(t, c, e, s))
<1> DEFINE cols == Columns \cup {"byEmployee"}
           r == PutRow(t, c, e, s)
           u == PutContract(t, c, e, s)
<1>1. Shaped(r, cols)
  BY PutRowShape
<1>2. Sound(r)
  BY PutRowSound
<1>3. u = [r EXCEPT !.byEmployee = Updated(@, Entry(e, [contract |-> c, salary |-> s]))]
  BY DEF PutContract
<1>. HIDE DEF u, r
<1>4. u.employees = r.employees /\ u.contracts = r.contracts /\ u.periods = r.periods
      /\ u.times = r.times
  BY <1>1, <1>3 DEF Shaped, Columns
<1>5. Sound(u)
  BY <1>2, <1>4 DEF Sound
<1>. QED BY <1>5 DEF u

LEMMA PutPeriodSound ==
  ASSUME NEW t, NEW cols, Columns \subseteq cols, Shaped(t, cols), Sound(t), NEW p \in Period
  PROVE  Sound(PutPeriod(t, p))
<1> DEFINE u == PutPeriod(t, p)
<1>1. u.periods = t.periods \cup {p} /\ \A x \in cols \ {"periods"} : u[x] = t[x]
  BY PutPeriodShape
<1>2. u.employees = t.employees /\ u.contracts = t.contracts /\ u.times = t.times
  BY <1>1 DEF Columns
<1>. HIDE DEF u
<1>3. \A e \in DOMAIN u.employees : u.employees[e] \in DOMAIN u.contracts \cup {None}
  BY <1>1, <1>2 DEF Sound
<1>4. \A c \in DOMAIN u.contracts : u.contracts[c].employee \in DOMAIN u.employees
  BY <1>1, <1>2 DEF Sound
<1>5. \A k \in DOMAIN u.times : k[1] \in u.periods /\ k[2] \in DOMAIN u.employees
  BY <1>1, <1>2 DEF Sound
<1>6. Sound(u)
  BY <1>3, <1>4, <1>5 DEF Sound
<1>. QED BY <1>6 DEF u

LEMMA PutTimesSound ==
  ASSUME NEW t, NEW cols, Columns \subseteq cols, Shaped(t, cols), Sound(t),
         NEW p \in Period, NEW e \in Employee, NEW h \in Nat,
         p \in t.periods, e \in DOMAIN t.employees
  PROVE  Sound(PutTimes(t, p, e, h))
<1> DEFINE u == PutTimes(t, p, e, h)
<1>1. DOMAIN u.times = DOMAIN t.times \cup {<<p, e>>} /\ \A x \in cols \ {"times"} : u[x] = t[x]
  BY PutTimesShape
<1>2. u.employees = t.employees /\ u.contracts = t.contracts /\ u.periods = t.periods
  BY <1>1 DEF Columns
<1>. HIDE DEF u
<1>3. \A k \in DOMAIN u.times : k[1] \in u.periods /\ k[2] \in DOMAIN u.employees
  BY <1>1, <1>2 DEF Sound
<1>4. Sound(u)
  BY <1>2, <1>3 DEF Sound
<1>. QED BY <1>4 DEF u

LEMMA KeptSound ==
  ASSUME NEW t, Shaped(t, Columns), Sound(t)
  PROVE  Sound(Kept(t))
<1> DEFINE u == Kept(t)
<1>1. /\ u.employees = t.employees /\ u.periods = t.periods
      /\ DOMAIN u.contracts = DOMAIN t.contracts
      /\ \A c \in DOMAIN t.contracts :
           /\ u.contracts[c].employee = t.contracts[c].employee
           /\ u.contracts[c].salary = Rounded(t.contracts[c].salary)
      /\ DOMAIN u.times = DOMAIN t.times
  BY KeptShape
<1>. HIDE DEF u
<1>3. \A e \in DOMAIN u.employees : u.employees[e] \in DOMAIN u.contracts \cup {None}
  BY <1>1 DEF Sound
<1>4. \A c \in DOMAIN u.contracts : u.contracts[c].employee \in DOMAIN u.employees
  <2>. SUFFICES ASSUME NEW c \in DOMAIN u.contracts
                PROVE  u.contracts[c].employee \in DOMAIN u.employees
    OBVIOUS
  <2>. QED BY <1>1 DEF Sound
<1>5. \A k \in DOMAIN u.times : k[1] \in u.periods /\ k[2] \in DOMAIN u.employees
  BY <1>1 DEF Sound
<1>6. Sound(u)
  BY <1>3, <1>4, <1>5 DEF Sound
<1>. QED BY <1>6 DEF u
(***************************************************************************)
(* The inductive invariant                                                  *)
(***************************************************************************)

MemoryColumns == Columns \cup {"byEmployee"}

InMemory ==
  Shaped(memory, MemoryColumns) /\ Maps(memory.byEmployee, Employee, Filed) /\ Sound(memory)

InTables == Shaped(db, Columns) /\ Sound(db)

InSession == Shaped(session, Columns) /\ Sound(session)

\* What the second write of create_contract names is there when it is made.
Calling ==
  /\ scope \in {"closed", "open"} /\ lost \in BOOLEAN
  /\ call \in Calls /\ (scope = "closed" => call = Idle)
  /\ call.at = "pointing" =>
       call.contract \in DOMAIN session.contracts /\ call.employee \in DOMAIN session.employees

Files ==
  /\ files \in [Layer -> RuleFile]
  /\ Maps(cache, Layer, RuleFile) /\ Maps(plan, Layer, RuleFile)
  /\ \A l \in DOMAIN cache : cache[l].is # "unreadable"

IInv == InMemory /\ InTables /\ InSession /\ Calling /\ Files

LEMMA IInvTypes == IInv => TypeOK /\ ReferencesHold
BY DEF IInv, InMemory, InTables, InSession, Calling, Files, TypeOK, ReferencesHold, Shaped,
       MemoryColumns

LEMMA BlankShape == Shaped(Blank, Columns) /\ Sound(Blank)
<1>1. /\ DOMAIN Blank = Columns
      /\ Blank.employees = Nothing /\ Blank.contracts = Nothing
      /\ Blank.periods = {} /\ Blank.times = Nothing
  BY DEF Blank, Columns
<1>2. DOMAIN Nothing = {} /\ \A S, T : Maps(Nothing, S, T)
  BY NothingMaps
<1>. QED BY <1>1, <1>2 DEF Shaped, IsTables, Sound

LEMMA InitIInv == Init => IInv
<1>. SUFFICES ASSUME Init PROVE IInv
  OBVIOUS
<1>1. InMemory
  <2>1. /\ DOMAIN memory = MemoryColumns
        /\ memory.employees = Nothing /\ memory.contracts = Nothing
        /\ memory.periods = {} /\ memory.times = Nothing /\ memory.byEmployee = Nothing
    BY DEF Init, MemoryColumns, Columns
  <2>2. DOMAIN Nothing = {} /\ \A S, T : Maps(Nothing, S, T)
    BY NothingMaps
  <2>. QED BY <2>1, <2>2 DEF InMemory, Shaped, IsTables, Sound
<1>2. InTables /\ InSession
  BY BlankShape DEF Init, InTables, InSession
<1>3. Calling
  BY CallShapes DEF Init, Calling
<1>4. Files
  <2>1. files \in [Layer -> RuleFile]
    BY DEF Init, RuleFile, Condition
  <2>2. DOMAIN Nothing = {} /\ Maps(Nothing, Layer, RuleFile)
    BY NothingMaps
  <2>. QED BY <2>1, <2>2 DEF Init, Files
<1>. QED BY <1>1, <1>2, <1>3, <1>4 DEF IInv

(***************************************************************************)
(* Each table under each action                                             *)
(***************************************************************************)

LEMMA Within == Columns \subseteq MemoryColumns
BY DEF MemoryColumns

LEMMA MemoryKept ==
  ASSUME IInv, [Next]_vars
  PROVE  InMemory'
<1>1. InMemory
  BY DEF IInv
<1>2. CASE UNCHANGED memory
  BY <1>1, <1>2 DEF InMemory
<1>3. ASSUME NEW e \in Employee, CreateEmployee(e)  PROVE InMemory'
  <2>1. memory' = PutEmployee(memory, e, None)
    BY <1>3 DEF CreateEmployee
  <2>2. Shaped(memory', MemoryColumns) /\ memory'.byEmployee = memory.byEmployee
    BY <1>1, <2>1, Within, PutEmployeeShape DEF InMemory, MemoryColumns, Columns
  <2>3. Sound(memory')
    BY <1>1, <2>1, Within, PutEmployeeSound DEF InMemory
  <2>. QED BY <1>1, <2>2, <2>3 DEF InMemory
<1>4. ASSUME NEW e \in Employee, NEW c \in Contract, NEW s \in Nat, CreateContract(c, e, s)
      PROVE  InMemory'
  <2>1. CASE e \notin DOMAIN memory.employees
    BY <1>2, <1>4, <2>1 DEF CreateContract
  <2>2. CASE e \in DOMAIN memory.employees
    <3> DEFINE m == PutContract(memory, c, e, s)
    <3>1. memory' = PutEmployee(m, e, c)
      BY <1>4, <2>2 DEF CreateContract
    <3>2. Shaped(m, MemoryColumns) /\ Maps(m.byEmployee, Employee, Filed)
          /\ c \in DOMAIN m.contracts
      <4>1. /\ Shaped(memory, Columns \cup {"byEmployee"})
            /\ Maps(memory.byEmployee, Employee, Filed)
        BY <1>1 DEF InMemory, MemoryColumns
      <4>2. /\ Shaped(m, Columns \cup {"byEmployee"})
            /\ Maps(m.byEmployee, Employee, Filed)
            /\ DOMAIN m.contracts = DOMAIN memory.contracts \cup {c}
        BY <4>1, PutContractShape
      <4>. QED BY <4>2 DEF MemoryColumns
    <3>3. Sound(m)
      BY <1>1, <2>2, PutContractSound DEF InMemory, MemoryColumns
    <3>. HIDE DEF m
    <3>4. Shaped(memory', MemoryColumns) /\ memory'.byEmployee = m.byEmployee
      BY <3>1, <3>2, Within, PutEmployeeShape DEF MemoryColumns, Columns
    <3>5. Sound(memory')
      BY <3>1, <3>2, <3>3, Within, PutEmployeeSound
    <3>. QED BY <3>2, <3>4, <3>5 DEF InMemory
  <2>. QED BY <2>1, <2>2
<1>5. ASSUME NEW p \in Period, OpenPeriod(p)  PROVE InMemory'
  <2>1. memory' = PutPeriod(memory, p)
    BY <1>5 DEF OpenPeriod
  <2>2. Shaped(memory', MemoryColumns) /\ memory'.byEmployee = memory.byEmployee
    BY <1>1, <2>1, Within, PutPeriodShape DEF InMemory, MemoryColumns, Columns
  <2>3. Sound(memory')
    BY <1>1, <2>1, Within, PutPeriodSound DEF InMemory
  <2>. QED BY <1>1, <2>2, <2>3 DEF InMemory
<1>6. ASSUME NEW p \in Period, NEW e \in Employee, NEW h \in Nat, SetTimeInput(p, e, h)
      PROVE  InMemory'
  <2>1. CASE memory' = memory
    BY <1>2, <2>1
  <2>2. CASE Known(memory, p, e) = "ok" /\ memory' = PutTimes(memory, p, e, h)
    <3>1. p \in memory.periods /\ e \in DOMAIN memory.employees
      BY <2>2 DEF Known
    <3>2. Shaped(memory, MemoryColumns)
      BY <1>1 DEF InMemory
    <3>3. Shaped(memory', MemoryColumns)
          /\ \A x \in MemoryColumns \ {"times"} : memory'[x] = memory[x]
      BY <2>2, <3>2, Within, PutTimesShape
    <3>4. memory'.byEmployee = memory.byEmployee
      BY <3>3 DEF MemoryColumns, Columns
    <3>5. Sound(memory')
      BY <1>1, <2>2, <3>1, Within, PutTimesSound DEF InMemory
    <3>. QED BY <1>1, <3>3, <3>4, <3>5 DEF InMemory
  <2>. QED BY <1>6, <2>1, <2>2 DEF SetTimeInput
<1>. QED
  BY <1>2, <1>3, <1>4, <1>5, <1>6, SumAssumption
  DEF Next, vars, registry, Open, Commit, Rollback, PointEmployee, Load, Calculate, Reload,
      DryRun, Edit

LEMMA TablesKept ==
  ASSUME IInv, [Next]_vars
  PROVE  InTables'
<1>1. InTables /\ InSession
  BY DEF IInv
<1>2. CASE UNCHANGED db
  BY <1>1, <1>2 DEF InTables
<1>3. CASE Commit
  <2>1. db' = Kept(session)
    BY <1>3 DEF Commit
  <2>2. Shaped(db', Columns)
    BY <1>1, <2>1, KeptShape DEF InSession
  <2>3. Sound(db')
    BY <1>1, <2>1, KeptSound DEF InSession
  <2>. QED BY <2>2, <2>3 DEF InTables
<1>. QED
  BY <1>2, <1>3
  DEF Next, vars, registry, Open, Rollback, PointEmployee, Load, Calculate, Reload,
      DryRun, Edit, CreateEmployee, CreateContract, OpenPeriod, SetTimeInput, Entering, Called

LEMMA SessionTables ==
  ASSUME IInv, [Next]_vars
  PROVE  InSession'
<1>1. InTables /\ InSession /\ Calling
  BY DEF IInv
<1>2. CASE UNCHANGED session
  BY <1>1, <1>2 DEF InSession
<1>3. CASE session' = db
  BY <1>1, <1>3 DEF InSession, InTables
<1>4. CASE Commit
  <2>1. session' = Kept(session)
    BY <1>4 DEF Commit
  <2>2. Shaped(session', Columns)
    BY <1>1, <2>1, KeptShape DEF InSession
  <2>3. Sound(session')
    BY <1>1, <2>1, KeptSound DEF InSession
  <2>. QED BY <2>2, <2>3 DEF InSession
<1>5. ASSUME NEW e \in Employee, CreateEmployee(e)  PROVE InSession'
  <2>1. session' = PutEmployee(session, e, None)
    BY <1>5 DEF CreateEmployee
  <2>2. Shaped(session', Columns)
    BY <1>1, <2>1, PutEmployeeShape DEF InSession
  <2>3. Sound(session')
    BY <1>1, <2>1, PutEmployeeSound DEF InSession
  <2>. QED BY <2>2, <2>3 DEF InSession
<1>6. ASSUME NEW e \in Employee, NEW c \in Contract, NEW s \in Nat, CreateContract(c, e, s)
      PROVE  InSession'
  <2>1. CASE e \in DOMAIN session.employees /\ session' = PutRow(session, c, e, s)
    <3>1. Shaped(session', Columns)
      BY <1>1, <2>1, PutRowShape DEF InSession
    <3>2. Sound(session')
      BY <1>1, <2>1, PutRowSound DEF InSession
    <3>. QED BY <3>1, <3>2 DEF InSession
  <2>. QED BY <1>2, <1>6, <2>1 DEF CreateContract
<1>7. CASE PointEmployee
  <2>1. session' = PutEmployee(session, call.employee, call.contract)
    BY <1>7 DEF PointEmployee
  <2>2. call.employee \in Employee /\ call.contract \in Contract \cup {None}
        /\ call.contract \in DOMAIN session.contracts \cup {None}
    BY <1>1, <1>7, CallShapes DEF Calling, PointEmployee
  <2>3. Shaped(session', Columns)
    BY <1>1, <2>1, <2>2, PutEmployeeShape DEF InSession
  <2>4. Sound(session')
    BY <1>1, <2>1, <2>2, PutEmployeeSound DEF InSession
  <2>. QED BY <2>3, <2>4 DEF InSession
<1>8. ASSUME NEW p \in Period, OpenPeriod(p)  PROVE InSession'
  <2>1. session' = PutPeriod(session, p)
    BY <1>8 DEF OpenPeriod
  <2>2. Shaped(session', Columns)
    BY <1>1, <2>1, PutPeriodShape DEF InSession
  <2>3. Sound(session')
    BY <1>1, <2>1, PutPeriodSound DEF InSession
  <2>. QED BY <2>2, <2>3 DEF InSession
<1>9. ASSUME NEW p \in Period, NEW e \in Employee, NEW h \in Nat, SetTimeInput(p, e, h)
      PROVE  InSession'
  <2>1. CASE Known(session, p, e) = "ok" /\ session' = PutTimes(session, p, e, h)
    <3>1. p \in session.periods /\ e \in DOMAIN session.employees
      BY <2>1 DEF Known
    <3>2. Shaped(session', Columns)
      BY <1>1, <2>1, PutTimesShape DEF InSession
    <3>3. Sound(session')
      BY <1>1, <2>1, <3>1, PutTimesSound DEF InSession
    <3>. QED BY <3>2, <3>3 DEF InSession
  <2>. QED BY <1>2, <1>9, <2>1 DEF SetTimeInput
<1>. QED
  BY <1>2, <1>3, <1>4, <1>5, <1>6, <1>7, <1>8, <1>9, SumAssumption
  DEF Next, vars, registry, Open, Rollback, Load, Calculate, Reload, DryRun, Edit

LEMMA CallingKept ==
  ASSUME IInv, [Next]_vars
  PROVE  Calling'
<1>1. InSession /\ Calling
  BY DEF IInv
<1>2. CASE UNCHANGED <<scope, lost, call, session>>
  BY <1>1, <1>2 DEF Calling
<1>3. CASE scope' \in {"closed", "open"} /\ lost' \in BOOLEAN /\ call' = Idle
  BY <1>3, CallShapes DEF Calling
<1>4. CASE Open
  <2>1. call = Idle
    BY <1>1, <1>4 DEF Calling, Open
  <2>. QED BY <1>1, <1>3, <1>4, <2>1 DEF Open, Calling
<1>5. CASE Called /\ call' = call
  BY <1>1, <1>3, <1>5 DEF Called, Calling
<1>6. ASSUME NEW e \in Employee, NEW c \in Contract, NEW s \in Nat, CreateContract(c, e, s)
      PROVE  Calling'
  <2>1. CASE e \notin DOMAIN session.employees
    BY <1>5, <1>6, <2>1 DEF CreateContract, Entering
  <2>2. CASE e \in DOMAIN session.employees
    <3>1. session' = PutRow(session, c, e, s)
          /\ call' = [at |-> "pointing", employee |-> e, contract |-> c]
          /\ scope' = scope /\ lost' = lost /\ scope = "open"
      BY <1>6, <2>2 DEF CreateContract, Entering, Called
    <3>2. /\ Shaped(session', Columns)
          /\ DOMAIN session'.contracts = DOMAIN session.contracts \cup {c}
          /\ session'.contracts[c] = [employee |-> e, salary |-> s]
          /\ \A n \in DOMAIN session.contracts \ {c} : session'.contracts[n] = session.contracts[n]
          /\ \A x \in Columns \ {"contracts"} : session'[x] = session[x]
      BY <1>1, <3>1, PutRowShape DEF InSession
    <3>3. session'.employees = session.employees
      BY <3>2 DEF Columns
    <3>4. call' \in Calls /\ call'.at = "pointing" /\ call'.employee = e /\ call'.contract = c
      BY <3>1 DEF Calls
    <3>. QED BY <1>1, <2>2, <3>1, <3>2, <3>3, <3>4 DEF Calling
  <2>. QED BY <2>1, <2>2
<1>7. ASSUME NEW p \in Period, NEW e \in Employee, DryRun(p, e)  PROVE Calling'
  <2>1. CASE call' = call
    BY <1>5, <1>7, <2>1 DEF DryRun
  <2>2. CASE call' = [at |-> "loading", layer |-> 1]
    <3>1. 1 \in 1..(NumLayers + 1)
      BY LayersAssumption
    <3>2. call' \in Calls /\ call'.at = "loading"
      BY <2>2, <3>1 DEF Calls
    <3>. QED BY <1>1, <1>7, <3>2 DEF DryRun, Called, Calling
  <2>. QED BY <1>7, <2>1, <2>2 DEF DryRun
<1>8. CASE Load
  <2>1. scope' = scope /\ lost' = lost /\ session' = session /\ scope = "open"
    BY <1>1, <1>8, CallShapes DEF Load, registry, Calling
  <2>2. CASE call' = Idle
    BY <1>1, <1>3, <2>1, <2>2 DEF Calling
  <2>3. CASE call' = [call EXCEPT !.layer = @ + 1]
    <3>1. call.at = "loading" /\ call \in [at : {"loading"}, layer : 1..(NumLayers + 1)]
      BY <1>1, <1>8 DEF Load, Calling, Calls, Idle
    <3>2. call.layer + 1 \in 1..(NumLayers + 1)
      BY <1>8, <3>1, LayersAssumption DEF Load, Layer
    <3>3. call' = [at |-> "loading", layer |-> call.layer + 1]
      BY <2>3, <3>1
    <3>4. call' \in Calls /\ call'.at = "loading"
      BY <3>2, <3>3 DEF Calls
    <3>. QED BY <1>1, <2>1, <3>4 DEF Calling
  <2>. QED BY <1>8, <2>2, <2>3 DEF Load
<1>9. ASSUME NEW e \in Employee
      PROVE  /\ CreateEmployee(e) => Calling'
             /\ \A p \in Period, h \in Sum : SetTimeInput(p, e, h) => Calling'
  BY <1>5 DEF CreateEmployee, SetTimeInput, Entering
<1>10. ASSUME NEW p \in Period, OpenPeriod(p)  PROVE Calling'
  BY <1>5, <1>10 DEF OpenPeriod, Entering
<1>11. CASE Commit \/ Rollback \/ PointEmployee \/ Calculate
  BY <1>1, <1>3, <1>11 DEF Commit, Rollback, PointEmployee, Calculate, registry, Calling
<1>12. CASE Reload \/ \E l \in Layer, c \in Condition : Edit(l, c)
  BY <1>2, <1>12 DEF Reload, Edit, registry
<1>. QED
  BY <1>2, <1>4, <1>6, <1>7, <1>8, <1>9, <1>10, <1>11, <1>12, SumAssumption
  DEF Next, vars, registry

\* A file enters the cache only if it could be read.
LEMMA CachedShape ==
  ASSUME Files, NEW l \in Layer
  PROVE  /\ Maps(Cached(l), Layer, RuleFile)
         /\ DOMAIN cache \subseteq DOMAIN Cached(l)
         /\ Document(l).is # "unreadable" => l \in DOMAIN Cached(l)
         /\ \A n \in DOMAIN cache : Cached(l)[n] = cache[n]
         /\ \A n \in DOMAIN Cached(l) : Cached(l)[n].is # "unreadable"
<1>1. Document(l) \in RuleFile /\ (l \in DOMAIN cache => Document(l) = cache[l])
  BY DEF Files, Document, Maps
<1>2. CASE Document(l).is = "unreadable"
  BY <1>2 DEF Cached, Files
<1>3. CASE Document(l).is # "unreadable"
  <2> DEFINE v == Document(l)
             u == Updated(cache, Entry(l, v))
  <2>1. v \in RuleFile /\ v.is # "unreadable" /\ (l \in DOMAIN cache => v = cache[l])
    BY <1>1, <1>3
  <2>2. Cached(l) = u
    BY <1>3 DEF Cached
  <2>3. Maps(cache, Layer, RuleFile) /\ v \in RuleFile /\ u = Updated(cache, Entry(l, v))
    BY <2>1 DEF Files
  <2>. HIDE DEF u, v
  <2>4. /\ Maps(u, Layer, RuleFile)
        /\ DOMAIN u = DOMAIN cache \cup {l}
        /\ u[l] = v
        /\ \A n \in DOMAIN cache \ {l} : u[n] = cache[n]
    BY <2>3, EntryMade
  <2>. QED BY <2>1, <2>2, <2>4 DEF Files
<1>. QED BY <1>2, <1>3

LEMMA FilesKept ==
  ASSUME IInv, [Next]_vars
  PROVE  Files'
<1>1. Files
  BY DEF IInv
<1>2. CASE UNCHANGED rules
  BY <1>1, <1>2 DEF Files, rules
<1>3. CASE Load
  <2>1. call.layer \in Layer /\ cache' = Cached(call.layer) /\ files' = files /\ plan' = plan
    BY <1>3 DEF Load
  <2>. QED BY <1>1, <2>1, CachedShape DEF Files
<1>4. CASE Calculate
  BY <1>1, <1>4 DEF Calculate, Files
<1>5. CASE Reload
  BY <1>1, <1>5, NothingMaps DEF Reload, Files
<1>6. ASSUME NEW l \in Layer, NEW c \in Condition, Edit(l, c)  PROVE Files'
  <2>1. files[l].edition \in Nat
    BY <1>1 DEF Files, RuleFile
  <2>2. [edition |-> files[l].edition + 1, is |-> c] \in RuleFile
    BY <2>1 DEF RuleFile
  <2>3. files' = [files EXCEPT ![l] = [edition |-> files[l].edition + 1, is |-> c]]
        /\ cache' = cache /\ plan' = plan
    BY <1>6 DEF Edit
  <2>4. files' \in [Layer -> RuleFile]
    BY <1>1, <2>2, <2>3 DEF Files
  <2>. QED BY <1>1, <2>3, <2>4 DEF Files
<1>. QED
  BY <1>2, <1>3, <1>4, <1>5, <1>6
  DEF Next, vars, Open, Commit, Rollback, PointEmployee, DryRun, CreateEmployee,
      CreateContract, OpenPeriod, SetTimeInput, Entering, Called

THEOREM Inductive == Spec => []IInv
<1>1. IInv /\ [Next]_vars => IInv'
  BY MemoryKept, TablesKept, SessionTables, CallingKept, FilesKept DEF IInv
<1>. QED BY <1>1, InitIInv, PTL DEF Spec

(***************************************************************************)
(* The theorems                                                             *)
(***************************************************************************)

\* Tables, dictionaries, calls and cached files keep their shapes.
THEOREM TypeCorrect == Spec => []TypeOK
BY Inductive, IInvTypes, PTL

\* Nothing that is on record, in tables or dictionaries, names an employee, a
\* contract or a period that is not.
THEOREM ReferencesCorrect == Spec => []ReferencesHold
BY Inductive, IInvTypes, PTL

\* A run is refused for a file that cannot be read only while it cannot be.
THEOREM RefusalsCorrect == Spec => RefusalsAreCurrent
<1> DEFINE Refused == call.at = "loading" /\ call' = Idle /\ answer' = "RULE_LOAD"
           Current == Refused => files[call.layer].is = "unreadable"
<1>1. ASSUME IInv, Next  PROVE Current
  <2>. SUFFICES ASSUME Refused PROVE files[call.layer].is = "unreadable"
    OBVIOUS
  <2>1. call # Idle /\ call.at # "pointing"
    BY DEF Idle
  <2>2. Load \/ Calculate \/ Rollback
    BY <1>1, <2>1
    DEF Next, Open, Commit, PointEmployee, Reload, Edit, DryRun, CreateEmployee,
        CreateContract, OpenPeriod, SetTimeInput, Entering, Called
  <2>3. ~Calculate /\ ~Rollback
    BY DEF Calculate, Rollback, Says
  <2>4. Load
    BY <2>2, <2>3
  <2>5. Document(call.layer).is = "unreadable"
    <3>1. CASE Document(call.layer).is # "unreadable"
      <4>1. call' = [call EXCEPT !.layer = @ + 1]
        BY <2>4, <3>1 DEF Load
      <4>2. call \in [at : {"loading"}, layer : 1..(NumLayers + 1)]
        BY <1>1 DEF IInv, Calling, Calls, Idle
      <4>3. call'.at = "loading"
        BY <4>1, <4>2
      <4>. QED BY <4>3 DEF Idle
    <3>. QED BY <3>1
  <2>6. call.layer \notin DOMAIN cache
    BY <1>1, <2>5 DEF IInv, Files, Document
  <2>. QED BY <2>5, <2>6 DEF Document
<1>2. IInv /\ [Next]_vars => [Current]_vars
  BY <1>1
<1>. QED BY <1>2, Inductive, PTL DEF Spec, RefusalsAreCurrent

(***************************************************************************)
(* Plans                                                                    *)
(***************************************************************************)

\* A run has loaded the layers it is past, and what a plan was built from is
\* what the cache still holds.
PlanInv ==
  /\ call.at = "loading" => \A l \in Layer : l < call.layer => l \in DOMAIN cache
  /\ plan # Nothing => plan = cache /\ DOMAIN cache = Layer

LEMMA CacheGrows ==
  ASSUME IInv, Load
  PROVE  /\ DOMAIN cache = Layer => cache' = cache
         /\ DOMAIN cache \subseteq DOMAIN cache'
         /\ call' # Idle => call.layer \in DOMAIN cache'
<1> DEFINE l == call.layer
<1>1. l \in Layer /\ cache' = Cached(l) /\ Files
  BY DEF Load, IInv
<1>2. /\ Maps(cache', Layer, RuleFile)
      /\ DOMAIN cache \subseteq DOMAIN cache'
      /\ Document(l).is # "unreadable" => l \in DOMAIN cache'
      /\ \A n \in DOMAIN cache : cache'[n] = cache[n]
  BY <1>1, CachedShape
<1>3. DOMAIN cache = Layer => cache' = cache
  <2>. SUFFICES ASSUME DOMAIN cache = Layer PROVE cache' = cache
    OBVIOUS
  <2>1. cache \in [Layer -> RuleFile] /\ cache' \in [Layer -> RuleFile]
    BY <1>1, <1>2 DEF Files, Maps
  <2>. QED BY <1>2, <2>1
<1>4. call' # Idle => l \in DOMAIN cache'
  BY <1>2 DEF Load
<1>. QED BY <1>2, <1>3, <1>4

LEMMA PlanKept ==
  ASSUME IInv, PlanInv, [Next]_vars
  PROVE  PlanInv' /\ ((plan # Nothing /\ plan' # plan) => plan' = Nothing)
<1> DEFINE Same == UNCHANGED <<cache, plan>>
<1>1. CASE Same /\ (call' = call \/ call'.at # "loading")
  BY <1>1 DEF PlanInv
<1>2. CASE Same /\ call'.at = "loading" /\ call'.layer = 1
  <2>1. \A l \in Layer : ~(l < 1)
    BY DEF Layer
  <2>. QED BY <1>2, <2>1 DEF PlanInv
<1>3. CASE Load
  <2>1. plan' = plan /\ (DOMAIN cache = Layer => cache' = cache)
        /\ DOMAIN cache \subseteq DOMAIN cache'
        /\ (call' # Idle => call.layer \in DOMAIN cache')
    BY <1>3, CacheGrows DEF Load
  <2>2. plan # Nothing => plan' = cache' /\ DOMAIN cache' = Layer
    BY <2>1 DEF PlanInv
  <2>3. CASE call' = Idle
    BY <2>1, <2>2, <2>3, CallShapes DEF PlanInv
  <2>4. CASE call' = [call EXCEPT !.layer = @ + 1]
    <3>1. call \in [at : {"loading"}, layer : 1..(NumLayers + 1)]
      BY <1>3 DEF Load, IInv, Calling, Calls, Idle
    <3>2. call'.layer = call.layer + 1 /\ call' # Idle
      BY <2>4, <3>1 DEF Idle
    <3>3. ASSUME NEW l \in Layer, l < call'.layer  PROVE l \in DOMAIN cache'
      <4>1. l < call.layer \/ l = call.layer
        BY <3>1, <3>2, <3>3 DEF Layer
      <4>. QED BY <1>3, <2>1, <3>2, <4>1 DEF PlanInv, Load
    <3>. QED BY <2>1, <2>2, <3>3 DEF PlanInv
  <2>. QED BY <1>3, <2>3, <2>4 DEF Load
<1>4. CASE Calculate
  <2>1. cache' = cache /\ call' = Idle /\ (plan' = plan \/ plan' = cache)
    BY <1>4 DEF Calculate
  <2>2. DOMAIN cache = Layer
    <3>1. call \in [at : {"loading"}, layer : 1..(NumLayers + 1)] /\ call.layer \notin Layer
      BY <1>4 DEF Calculate, IInv, Calling, Calls, Idle
    <3>2. call.layer = NumLayers + 1
      BY <3>1, LayersAssumption DEF Layer
    <3>3. \A l \in Layer : l < call.layer
      BY <3>2, LayersAssumption DEF Layer
    <3>4. Layer \subseteq DOMAIN cache
      BY <1>4, <3>3 DEF PlanInv, Calculate
    <3>5. DOMAIN cache \subseteq Layer
      BY DEF IInv, Files, Maps
    <3>. QED BY <3>4, <3>5
  <2>. QED BY <2>1, <2>2, CallShapes DEF PlanInv
<1>5. CASE Reload
  BY <1>5, CallShapes DEF Reload, PlanInv
<1>6. ASSUME NEW e \in Employee, NEW c \in Contract, NEW s \in Sum, CreateContract(c, e, s)
      PROVE  Same /\ (call' = call \/ call'.at # "loading")
  BY <1>6 DEF CreateContract, Entering, Called, rules
<1>7. ASSUME NEW p \in Period, NEW e \in Employee, DryRun(p, e)
      PROVE  Same /\ (call' = call \/ (call'.at = "loading" /\ call'.layer = 1))
  BY <1>7 DEF DryRun, Called, rules
<1>8. CASE Rollback \/ PointEmployee
  BY <1>1, <1>8, CallShapes DEF Rollback, PointEmployee, rules
<1>. QED
  BY <1>1, <1>2, <1>3, <1>4, <1>5, <1>6, <1>7, <1>8
  DEF Next, vars, rules, registry, Open, Commit, CreateEmployee, OpenPeriod, SetTimeInput,
      Entering, Called, Edit

\* A process computes with one edition of the rules until it reloads them.
THEOREM PlansCorrect == Spec => PlansRepeat
<1> DEFINE Repeats == (plan # Nothing /\ plan' # plan) => plan' = Nothing
<1>1. Init => PlanInv
  BY CallShapes DEF Init, PlanInv
<1>2. IInv /\ PlanInv /\ [Next]_vars => PlanInv' /\ Repeats
  BY PlanKept
<1>3. IInv /\ PlanInv /\ [Next]_vars => [Repeats]_vars
  BY <1>2
<1>. QED BY <1>1, <1>2, <1>3, Inductive, PTL DEF Spec, PlansRepeat

(***************************************************************************)
(* The service implements the book                                          *)
(***************************************************************************)

LEMMA BookUpdated == \A f, g : Book!Updated(f, g) = Updated(f, g)
BY DEF Book!Updated, Updated

LEMMA BookEmploys ==
  ASSUME NEW t, NEW e
  PROVE  PutEmployee(t, e, None) = [t EXCEPT !.employees = Book!Updated(@, [x \in {e} |-> None])]
BY BookUpdated DEF PutEmployee, Entry

LEMMA BookClocks ==
  ASSUME NEW t, NEW p, NEW e, NEW h
  PROVE  PutTimes(t, p, e, h) = [t EXCEPT !.times = Book!Updated(@, [x \in {<<p, e>>} |-> h])]
BY BookUpdated DEF PutTimes, Entry

LEMMA InitBook == Init => Book!Init
BY CallShapes DEF Init, Book!Init, Book!Blank, Book!Nothing, Blank, Nothing, Completed

LEMMA NextBook ==
  ASSUME IInv, [Next]_vars
  PROVE  [Book!Next]_(Book!vars)
<1> DEFINE Stutter == UNCHANGED <<db, Completed, scope>>
<1>1. InSession /\ Calling
  BY DEF IInv
<1>2. ASSUME Stutter  PROVE UNCHANGED Book!vars
  BY <1>2 DEF Book!vars
<1>3. ASSUME call = Idle  PROVE Completed = session
  BY <1>3, CallShapes DEF Completed
<1>4. ASSUME call' = Idle  PROVE Completed' = session'
  BY <1>4, CallShapes DEF Completed
<1>5. CASE Open
  <2>1. Completed' = db
    BY <1>1, <1>4, <1>5 DEF Open, Calling
  <2>2. Book!Begin
    BY <1>5, <2>1 DEF Open, Book!Begin
  <2>. QED BY <2>2 DEF Book!Next
<1>6. CASE Commit
  <2>1. Completed = session /\ Completed' = Kept(session)
    BY <1>3, <1>4, <1>6 DEF Commit
  <2>2. Book!Keep
    BY <1>6, <2>1 DEF Commit, Book!Keep
  <2>. QED BY <2>2 DEF Book!Next
<1>7. CASE Rollback
  <2>1. Completed' = db
    BY <1>4, <1>7 DEF Rollback
  <2>2. Book!GiveUp
    BY <1>7, <2>1 DEF Rollback, Book!GiveUp
  <2>. QED BY <2>2 DEF Book!Next
<1>8. CASE PointEmployee
  <2>1. Completed = PutEmployee(session, call.employee, call.contract)
    BY <1>8 DEF PointEmployee, Completed
  <2>2. Completed' = session'
    BY <1>4, <1>8 DEF PointEmployee
  <2>. QED BY <1>2, <1>8, <2>1, <2>2 DEF PointEmployee
<1>9. ASSUME NEW e \in Employee, CreateEmployee(e)  PROVE Book!Next
  <2>1. /\ Completed = session /\ scope = "open" /\ scope' = scope /\ db' = db
        /\ Completed' = PutEmployee(session, e, None)
    BY <1>3, <1>4, <1>9 DEF CreateEmployee, Entering, Called
  <2>2. Book!Employ(e)
    BY <2>1, BookEmploys DEF Book!Employ, Book!Enter
  <2>. QED BY <2>2 DEF Book!Next
<1>10. ASSUME NEW e \in Employee, NEW c \in Contract, NEW s \in Sum, CreateContract(c, e, s)
       PROVE  Book!Next \/ Stutter
  <2>1. Completed = session /\ scope = "open" /\ scope' = scope /\ db' = db /\ call = Idle
    BY <1>3, <1>10 DEF CreateContract, Entering, Called
  <2>2. CASE e \notin DOMAIN session.employees
    <3>1. Completed' = session'  /\ session' = session
      BY <1>4, <1>10, <2>1, <2>2 DEF CreateContract
    <3>. QED BY <2>1, <3>1
  <2>3. CASE e \in DOMAIN session.employees
    <3>1. session' = PutRow(session, c, e, s)
          /\ call' = [at |-> "pointing", employee |-> e, contract |-> c]
      BY <1>10, <2>3 DEF CreateContract
    <3>2. Completed' = PutEmployee(PutRow(session, c, e, s), e, c)
      BY <3>1 DEF Completed
    <3>3. PutEmployee(PutRow(session, c, e, s), e, c) =
            [session EXCEPT
               !.contracts = Book!Updated(@, [x \in {c} |-> [employee |-> e, salary |-> s]]),
               !.employees[e] = c]
      <4> DEFINE C == Updated(session.contracts, Entry(c, [employee |-> e, salary |-> s]))
                 E == Updated(session.employees, Entry(e, c))
      <4>1. session.employees = [n \in DOMAIN session.employees |-> session.employees[n]]
        BY <1>1 DEF InSession, Shaped, IsTables, Maps
      <4>2. E = [session.employees EXCEPT ![e] = c]
        BY <2>3, <4>1 DEF Updated, Entry
      <4>3. PutEmployee(PutRow(session, c, e, s), e, c) =
              [session EXCEPT !.contracts = C, !.employees = E]
        BY <1>1 DEF InSession, PutEmployee, PutRow, Shaped, Columns
      <4>. QED BY <4>2, <4>3, BookUpdated DEF Entry
    <3>4. Book!Engage(c, e, s)
      BY <2>1, <2>3, <3>2, <3>3 DEF Book!Engage, Book!Enter
    <3>. QED BY <3>4 DEF Book!Next
  <2>. QED BY <2>2, <2>3
<1>11. ASSUME NEW p \in Period, OpenPeriod(p)  PROVE Book!Next
  <2>1. /\ Completed = session /\ scope = "open" /\ scope' = scope /\ db' = db
        /\ Completed' = PutPeriod(session, p)
    BY <1>3, <1>4, <1>11 DEF OpenPeriod, Entering, Called
  <2>2. Book!Schedule(p)
    BY <2>1 DEF Book!Schedule, Book!Enter, PutPeriod
  <2>. QED BY <2>2 DEF Book!Next
<1>12. ASSUME NEW p \in Period, NEW e \in Employee, NEW h \in Sum, SetTimeInput(p, e, h)
       PROVE  Book!Next \/ Stutter
  <2>1. /\ Completed = session /\ scope = "open" /\ scope' = scope /\ db' = db
        /\ Completed' = session'
    BY <1>3, <1>4, <1>12 DEF SetTimeInput, Entering, Called
  <2>2. CASE session' = session
    BY <2>1, <2>2
  <2>3. CASE Known(session, p, e) = "ok" /\ session' = PutTimes(session, p, e, h)
    <3>1. p \in session.periods /\ e \in DOMAIN session.employees
      BY <2>3 DEF Known
    <3>2. PutTimes(session, p, e, h) =
            [session EXCEPT !.times = Book!Updated(@, [x \in {<<p, e>>} |-> h])]
      BY BookClocks
    <3>3. Book!Clock(p, e, h)
      BY <2>1, <2>3, <3>1, <3>2 DEF Book!Clock, Book!Enter
    <3>. QED BY <3>3 DEF Book!Next
  <2>. QED BY <1>12, <2>2, <2>3 DEF SetTimeInput
<1>13. CASE Load \/ Calculate
  <2>1. call.at = "loading" /\ (call' = Idle \/ call' = [call EXCEPT !.layer = @ + 1])
    BY <1>13 DEF Load, Calculate
  <2>2. call \in [at : {"loading"}, layer : 1..(NumLayers + 1)]
    BY <1>1, <2>1 DEF Calling, Calls, Idle
  <2>3. call.at # "pointing" /\ call'.at # "pointing"
    BY <2>1, <2>2, CallShapes
  <2>. QED BY <1>2, <1>13, <2>3 DEF Load, Calculate, registry, Completed
<1>14. ASSUME NEW p \in Period, NEW e \in Employee, DryRun(p, e)  PROVE Stutter
  <2>1. call = Idle /\ (call' = Idle \/ call'.at = "loading")
    BY <1>14 DEF DryRun, Called
  <2>2. call.at # "pointing" /\ call'.at # "pointing"
    BY <2>1, CallShapes
  <2>. QED BY <1>14, <2>2 DEF DryRun, Called, Completed
<1>15. ASSUME UNCHANGED <<db, session, scope, call>>  PROVE Stutter
  BY <1>15 DEF Completed
<1>. QED
  BY <1>2, <1>5, <1>6, <1>7, <1>8, <1>9, <1>10, <1>11, <1>12, <1>13, <1>14, <1>15
  DEF Next, vars, registry, Reload, Edit

\* Wherever a statement of create_contract or the commit fails, the tables hold
\* every contract whole, with its employee pointing to it, or not at all.
THEOREM BookImplemented == Spec => ImplementsBook
<1>1. IInv /\ [Next]_vars => [Book!Next]_(Book!vars)
  BY NextBook
<1>. QED BY <1>1, InitBook, Inductive, PTL DEF Spec, ImplementsBook, Book!Spec

(***************************************************************************)
(* The dictionaries stand in for the tables                                 *)
(***************************************************************************)

\* t and m have the same records under the same keys; a salary may differ by
\* what its column rounds.
Alike(t, m) ==
  /\ DOMAIN t.employees = DOMAIN m.employees
  /\ t.periods = m.periods
  /\ DOMAIN t.times = DOMAIN m.times
  /\ DOMAIN t.contracts = DOMAIN m.contracts
  /\ \A c \in DOMAIN t.contracts :
       /\ t.contracts[c].employee = m.contracts[c].employee
       /\ t.contracts[c].salary \in {m.contracts[c].salary, Rounded(m.contracts[c].salary)}

\* What is filed under an employee is a contract on record, and as it is there,
\* unless the contract has been given to another.
FiledRight ==
  \A e \in DOMAIN memory.byEmployee :
    LET x == memory.byEmployee[e] IN
    /\ x.contract \in DOMAIN memory.contracts
    /\ memory.contracts[x.contract].employee = e =>
         memory.contracts[x.contract].salary = x.salary

\* A closed scope leaves the session with what was committed.
AgreeInv ==
  /\ FiledRight
  /\ ~lost => Alike(session, memory)
  /\ (~lost /\ scope = "closed") => session = db

LEMMA PutEmployeeAlike ==
  ASSUME NEW t, Shaped(t, Columns), NEW m, Shaped(m, MemoryColumns), Alike(t, m),
         NEW e \in Employee, NEW c \in Contract \cup {None}, NEW d \in Contract \cup {None}
  PROVE  Alike(PutEmployee(t, e, c), PutEmployee(m, e, d))
<1> DEFINE u == PutEmployee(t, e, c)
           v == PutEmployee(m, e, d)
<1>1. /\ Shaped(u, Columns)
      /\ DOMAIN u.employees = DOMAIN t.employees \cup {e}
      /\ u.employees[e] = c
      /\ \A n \in DOMAIN t.employees \ {e} : u.employees[n] = t.employees[n]
      /\ \A x \in Columns \ {"employees"} : u[x] = t[x]
  BY PutEmployeeShape
<1>2. /\ Shaped(v, MemoryColumns)
      /\ DOMAIN v.employees = DOMAIN m.employees \cup {e}
      /\ v.employees[e] = d
      /\ \A n \in DOMAIN m.employees \ {e} : v.employees[n] = m.employees[n]
      /\ \A x \in MemoryColumns \ {"employees"} : v[x] = m[x]
  BY Within, PutEmployeeShape
<1>3. /\ u.contracts = t.contracts /\ u.periods = t.periods /\ u.times = t.times
      /\ v.contracts = m.contracts /\ v.periods = m.periods /\ v.times = m.times
  BY <1>1, <1>2 DEF Columns, MemoryColumns
<1>. HIDE DEF u, v
<1>4. Alike(u, v)
  BY <1>1, <1>2, <1>3 DEF Alike
<1>. QED BY <1>4 DEF u, v

LEMMA PutContractTables ==
  ASSUME NEW m, Shaped(m, MemoryColumns), Maps(m.byEmployee, Employee, Filed),
         NEW c \in Contract, NEW e \in Employee, NEW s \in Nat,
         NEW u, u = PutContract(m, c, e, s)
  PROVE  /\ u.contracts = PutRow(m, c, e, s).contracts
         /\ u.employees = m.employees /\ u.periods = m.periods /\ u.times = m.times
         /\ DOMAIN u.byEmployee = DOMAIN m.byEmployee \cup {e}
         /\ u.byEmployee[e] = [contract |-> c, salary |-> s]
         /\ \A n \in DOMAIN m.byEmployee \ {e} : u.byEmployee[n] = m.byEmployee[n]
<1> DEFINE r == PutRow(m, c, e, s)
           v == [contract |-> c, salary |-> s]
<1>1. /\ Shaped(r, MemoryColumns)
      /\ DOMAIN r.contracts = DOMAIN m.contracts \cup {c}
      /\ r.contracts[c] = [employee |-> e, salary |-> s]
      /\ \A n \in DOMAIN m.contracts \ {c} : r.contracts[n] = m.contracts[n]
      /\ \A x \in MemoryColumns \ {"contracts"} : r[x] = m[x]
  BY Within, PutRowShape
<1>2. r.byEmployee = m.byEmployee /\ r.employees = m.employees /\ r.periods = m.periods
      /\ r.times = m.times
  BY <1>1 DEF MemoryColumns, Columns
<1>3. u = [r EXCEPT !.byEmployee = Updated(@, Entry(e, v))]
  BY DEF PutContract
<1>4. v \in Filed
  BY DEF Filed
<1>. HIDE DEF r, v
<1>5. u.contracts = r.contracts /\ u.employees = r.employees /\ u.periods = r.periods
      /\ u.times = r.times /\ u.byEmployee = Updated(r.byEmployee, Entry(e, v))
  BY <1>1, <1>3 DEF Shaped, MemoryColumns, Columns
<1>6. v \in Filed /\ u.byEmployee = Updated(m.byEmployee, Entry(e, v))
  BY <1>2, <1>4, <1>5
<1>7. /\ Maps(u.byEmployee, Employee, Filed)
      /\ DOMAIN u.byEmployee = DOMAIN m.byEmployee \cup {e}
      /\ u.byEmployee[e] = v
      /\ \A n \in DOMAIN m.byEmployee \ {e} : u.byEmployee[n] = m.byEmployee[n]
  BY <1>6 DEF Maps, Updated, Entry
<1>. QED BY <1>2, <1>5, <1>7 DEF r, v

LEMMA PutContractAlike ==
  ASSUME NEW t, Shaped(t, Columns), NEW m, Shaped(m, MemoryColumns), Alike(t, m),
         Maps(m.byEmployee, Employee, Filed),
         NEW c \in Contract, NEW e \in Employee, NEW s \in Nat
  PROVE  Alike(PutRow(t, c, e, s), PutContract(m, c, e, s))
<1> DEFINE u == PutRow(t, c, e, s)
           r == PutRow(m, c, e, s)
           v == PutContract(m, c, e, s)
<1>1. /\ Shaped(u, Columns)
      /\ DOMAIN u.contracts = DOMAIN t.contracts \cup {c}
      /\ u.contracts[c] = [employee |-> e, salary |-> s]
      /\ \A n \in DOMAIN t.contracts \ {c} : u.contracts[n] = t.contracts[n]
      /\ \A x \in Columns \ {"contracts"} : u[x] = t[x]
  BY PutRowShape
<1>2. /\ Shaped(r, MemoryColumns)
      /\ DOMAIN r.contracts = DOMAIN m.contracts \cup {c}
      /\ r.contracts[c] = [employee |-> e, salary |-> s]
      /\ \A n \in DOMAIN m.contracts \ {c} : r.contracts[n] = m.contracts[n]
      /\ \A x \in MemoryColumns \ {"contracts"} : r[x] = m[x]
  BY Within, PutRowShape
<1>3. v = PutContract(m, c, e, s)
  OBVIOUS
<1>4. u.employees = t.employees /\ u.periods = t.periods /\ u.times = t.times
  BY <1>1 DEF Columns
<1>. HIDE DEF v
<1>5. /\ v.contracts = PutRow(m, c, e, s).contracts
      /\ v.employees = m.employees /\ v.periods = m.periods /\ v.times = m.times
      /\ DOMAIN v.byEmployee = DOMAIN m.byEmployee \cup {e}
      /\ v.byEmployee[e] = [contract |-> c, salary |-> s]
      /\ \A n \in DOMAIN m.byEmployee \ {e} : v.byEmployee[n] = m.byEmployee[n]
  BY <1>3, PutContractTables
<1>6. v.contracts = r.contracts /\ v.employees = m.employees /\ v.periods = m.periods
      /\ v.times = m.times
  BY <1>5
<1>. HIDE DEF u, r
<1>7. u.contracts[c] = v.contracts[c]
  BY <1>1, <1>2, <1>6
<1>8. Alike(u, v)
  BY <1>1, <1>2, <1>4, <1>6, <1>7 DEF Alike
<1>. QED BY <1>8 DEF u, v

LEMMA PutPeriodAlike ==
  ASSUME NEW t, Shaped(t, Columns), NEW m, Shaped(m, MemoryColumns), Alike(t, m),
         NEW p \in Period
  PROVE  Alike(PutPeriod(t, p), PutPeriod(m, p))
<1> DEFINE u == PutPeriod(t, p)
           v == PutPeriod(m, p)
<1>1. /\ u.periods = t.periods \cup {p} /\ u.employees = t.employees
      /\ u.contracts = t.contracts /\ u.times = t.times
  BY DEF PutPeriod, Shaped, Columns
<1>2. /\ v.periods = m.periods \cup {p} /\ v.employees = m.employees
      /\ v.contracts = m.contracts /\ v.times = m.times
  BY DEF PutPeriod, Shaped, MemoryColumns, Columns
<1>. HIDE DEF u, v
<1>3. Alike(u, v)
  BY <1>1, <1>2 DEF Alike
<1>. QED BY <1>3 DEF u, v

LEMMA PutTimesAlike ==
  ASSUME NEW t, Shaped(t, Columns), NEW m, Shaped(m, MemoryColumns), Alike(t, m),
         NEW p \in Period, NEW e \in Employee, NEW h \in Nat
  PROVE  Alike(PutTimes(t, p, e, h), PutTimes(m, p, e, h))
<1> DEFINE u == PutTimes(t, p, e, h)
           v == PutTimes(m, p, e, h)
<1>1. /\ Shaped(u, Columns)
      /\ DOMAIN u.times = DOMAIN t.times \cup {<<p, e>>}
      /\ \A x \in Columns \ {"times"} : u[x] = t[x]
  BY PutTimesShape
<1>2. /\ Shaped(v, MemoryColumns)
      /\ DOMAIN v.times = DOMAIN m.times \cup {<<p, e>>}
      /\ \A x \in MemoryColumns \ {"times"} : v[x] = m[x]
  BY Within, PutTimesShape
<1>3. /\ u.employees = t.employees /\ u.contracts = t.contracts /\ u.periods = t.periods
      /\ v.employees = m.employees /\ v.contracts = m.contracts /\ v.periods = m.periods
  BY <1>1, <1>2 DEF Columns, MemoryColumns
<1>. HIDE DEF u, v
<1>4. Alike(u, v)
  BY <1>1, <1>2, <1>3 DEF Alike
<1>. QED BY <1>4 DEF u, v

LEMMA KeptAlike ==
  ASSUME NEW t, Shaped(t, Columns), NEW m, Shaped(m, MemoryColumns), Alike(t, m)
  PROVE  Alike(Kept(t), m)
<1> DEFINE u == Kept(t)
<1>1. /\ Shaped(u, Columns)
      /\ u.employees = t.employees /\ u.periods = t.periods
      /\ DOMAIN u.contracts = DOMAIN t.contracts
      /\ \A c \in DOMAIN t.contracts :
           /\ u.contracts[c].employee = t.contracts[c].employee
           /\ u.contracts[c].salary = Rounded(t.contracts[c].salary)
      /\ DOMAIN u.times = DOMAIN t.times
  BY KeptShape
<1>. HIDE DEF u
<1>2. ASSUME NEW c \in DOMAIN t.contracts
      PROVE  u.contracts[c].salary \in {m.contracts[c].salary, Rounded(m.contracts[c].salary)}
  <2>1. m.contracts[c] \in Row
    BY DEF Alike, Shaped, IsTables, Maps
  <2>2. m.contracts[c].salary \in Nat
    BY <2>1 DEF Row
  <2>3. Rounded(Rounded(m.contracts[c].salary)) = Rounded(m.contracts[c].salary)
    BY <2>2, RoundedOnce
  <2>4. t.contracts[c].salary \in {m.contracts[c].salary, Rounded(m.contracts[c].salary)}
    BY DEF Alike
  <2>5. u.contracts[c].salary = Rounded(t.contracts[c].salary)
    BY <1>1
  <2>. QED BY <2>3, <2>4, <2>5
<1>3. Alike(u, m)
  BY <1>1, <1>2 DEF Alike
<1>. QED BY <1>3 DEF u

LEMMA FiledKept ==
  ASSUME IInv, FiledRight, [Next]_vars
  PROVE  FiledRight'
<1>1. InMemory
  BY DEF IInv
<1>2. ASSUME memory'.byEmployee = memory.byEmployee, memory'.contracts = memory.contracts
      PROVE  FiledRight'
  BY <1>2 DEF FiledRight
<1>3. ASSUME NEW e \in Employee, CreateEmployee(e)  PROVE FiledRight'
  <2>1. memory' = PutEmployee(memory, e, None)
    BY <1>3 DEF CreateEmployee
  <2>. QED BY <1>1, <1>2, <2>1 DEF PutEmployee, InMemory, Shaped, MemoryColumns, Columns
<1>4. ASSUME NEW e \in Employee, NEW c \in Contract, NEW s \in Nat, CreateContract(c, e, s)
      PROVE  FiledRight'
  <2>1. CASE e \notin DOMAIN memory.employees
    BY <1>2, <1>4, <2>1 DEF CreateContract
  <2>2. CASE e \in DOMAIN memory.employees
    <3> DEFINE r == PutRow(memory, c, e, s)
               m == PutContract(memory, c, e, s)
    <3>1. memory' = PutEmployee(m, e, c)
      BY <1>4, <2>2 DEF CreateContract
    <3>2. /\ Shaped(r, MemoryColumns)
          /\ DOMAIN r.contracts = DOMAIN memory.contracts \cup {c}
          /\ r.contracts[c] = [employee |-> e, salary |-> s]
          /\ \A n \in DOMAIN memory.contracts \ {c} : r.contracts[n] = memory.contracts[n]
          /\ \A x \in MemoryColumns \ {"contracts"} : r[x] = memory[x]
      BY <1>1, Within, PutRowShape DEF InMemory
    <3>3. Shaped(memory, MemoryColumns) /\ Maps(memory.byEmployee, Employee, Filed)
          /\ m = PutContract(memory, c, e, s)
      BY <1>1 DEF InMemory
    <3>4. /\ Shaped(m, Columns \cup {"byEmployee"})
          /\ Maps(m.byEmployee, Employee, Filed)
          /\ DOMAIN m.contracts = DOMAIN memory.contracts \cup {c}
      BY <3>3, PutContractShape DEF MemoryColumns
    <3>. HIDE DEF m
    <3>5. /\ m.contracts = PutRow(memory, c, e, s).contracts
          /\ m.employees = memory.employees /\ m.periods = memory.periods
          /\ m.times = memory.times
          /\ DOMAIN m.byEmployee = DOMAIN memory.byEmployee \cup {e}
          /\ m.byEmployee[e] = [contract |-> c, salary |-> s]
          /\ \A n \in DOMAIN memory.byEmployee \ {e} : m.byEmployee[n] = memory.byEmployee[n]
      BY <3>3, PutContractTables
    <3>6. memory'.byEmployee = m.byEmployee /\ memory'.contracts = r.contracts
      BY <3>1, <3>4, <3>5 DEF PutEmployee, Shaped, Columns
    <3>. HIDE DEF r
    <3>7. ASSUME NEW n \in DOMAIN memory'.byEmployee
          PROVE  LET x == memory'.byEmployee[n] IN
                 /\ x.contract \in DOMAIN memory'.contracts
                 /\ memory'.contracts[x.contract].employee = n =>
                      memory'.contracts[x.contract].salary = x.salary
      <4>1. CASE n = e
        BY <3>2, <3>5, <3>6, <4>1
      <4>2. CASE n # e
        <5> DEFINE x == memory.byEmployee[n]
        <5>1. n \in DOMAIN memory.byEmployee /\ memory'.byEmployee[n] = x
          BY <3>5, <3>6, <4>2
        <5>2. x.contract \in DOMAIN memory.contracts
              /\ (memory.contracts[x.contract].employee = n =>
                    memory.contracts[x.contract].salary = x.salary)
          BY <5>1 DEF FiledRight
        <5>3. CASE x.contract = c
          <6>1. memory'.contracts[c].employee = e
            BY <3>2, <3>6
          <6>. QED BY <3>2, <3>6, <4>2, <5>1, <5>3, <6>1
        <5>4. CASE x.contract # c
          <6>1. memory'.contracts[x.contract] = memory.contracts[x.contract]
            BY <3>2, <3>6, <5>2, <5>4
          <6>. QED BY <3>2, <3>6, <5>1, <5>2, <6>1
        <5>. QED BY <5>3, <5>4
      <4>. QED BY <4>1, <4>2
    <3>. QED BY <3>7 DEF FiledRight
  <2>. QED BY <2>1, <2>2
<1>5. ASSUME NEW p \in Period, OpenPeriod(p)  PROVE FiledRight'
  <2>1. memory' = PutPeriod(memory, p)
    BY <1>5 DEF OpenPeriod
  <2>. QED BY <1>1, <1>2, <2>1 DEF PutPeriod, InMemory, Shaped, MemoryColumns, Columns
<1>6. ASSUME NEW p \in Period, NEW e \in Employee, NEW h \in Nat, SetTimeInput(p, e, h)
      PROVE  FiledRight'
  <2>1. memory' = memory \/ memory' = PutTimes(memory, p, e, h)
    BY <1>6 DEF SetTimeInput
  <2>. QED BY <1>1, <1>2, <2>1 DEF PutTimes, InMemory, Shaped, MemoryColumns, Columns
<1>. QED
  BY <1>2, <1>3, <1>4, <1>5, <1>6, SumAssumption
  DEF Next, vars, registry, Open, Commit, Rollback, PointEmployee, Load, Calculate, Reload,
      DryRun, Edit

LEMMA AgreeKept ==
  ASSUME IInv, AgreeInv, [Next]_vars
  PROVE  AgreeInv'
<1> DEFINE Same == UNCHANGED <<memory, db, session, scope, lost>>
           Entered == scope' = "open" /\ lost' = lost /\ (~lost => Alike(session, memory)')
<1>1. /\ InMemory /\ InSession /\ Calling /\ FiledRight'
      /\ ~lost => Alike(session, memory)
      /\ (~lost /\ scope = "closed") => session = db
  BY FiledKept DEF IInv, AgreeInv
<1>2. /\ Shaped(session, Columns) /\ Shaped(memory, MemoryColumns)
      /\ Maps(memory.byEmployee, Employee, Filed)
  BY <1>1 DEF InMemory, InSession
<1>3. CASE Same
  BY <1>1, <1>3 DEF AgreeInv
<1>4. CASE Entered
  BY <1>1, <1>4 DEF AgreeInv
<1>5. CASE Open
  BY <1>1, <1>5 DEF Open, AgreeInv
<1>6. CASE Commit
  <2>1. session' = Kept(session) /\ db' = session' /\ memory' = memory /\ lost' = lost
    BY <1>6 DEF Commit
  <2>2. ~lost => Alike(session', memory')
    BY <1>1, <1>2, <2>1, KeptAlike
  <2>. QED BY <1>1, <2>1, <2>2 DEF AgreeInv
<1>7. CASE Rollback
  BY <1>1, <1>7 DEF Rollback, AgreeInv
<1>8. CASE PointEmployee
  <2>1. session' = PutEmployee(session, call.employee, call.contract)
        /\ memory' = memory /\ lost' = lost /\ scope' = scope
    BY <1>8 DEF PointEmployee
  <2>2. scope = "open"
    BY <1>1, <1>8, CallShapes DEF Calling, PointEmployee
  <2>3. call.employee \in Employee /\ call.contract \in Contract \cup {None}
        /\ call.employee \in DOMAIN session.employees
    BY <1>1, <1>8, CallShapes DEF Calling, PointEmployee
  <2>4. /\ Shaped(session', Columns)
        /\ DOMAIN session'.employees = DOMAIN session.employees \cup {call.employee}
        /\ session'.employees[call.employee] = call.contract
        /\ \A n \in DOMAIN session.employees \ {call.employee} :
             session'.employees[n] = session.employees[n]
        /\ \A x \in Columns \ {"employees"} : session'[x] = session[x]
    BY <1>2, <2>1, <2>3, PutEmployeeShape
  <2>5. session'.contracts = session.contracts /\ session'.periods = session.periods
        /\ session'.times = session.times /\ DOMAIN session'.employees = DOMAIN session.employees
    BY <2>3, <2>4 DEF Columns
  <2>6. ~lost => Alike(session', memory')
    BY <1>1, <2>1, <2>5 DEF Alike
  <2>. QED BY <1>4, <2>1, <2>2, <2>6
<1>9. ASSUME NEW e \in Employee, CreateEmployee(e)  PROVE Entered
  <2>1. /\ session' = PutEmployee(session, e, None) /\ memory' = PutEmployee(memory, e, None)
        /\ scope' = "open" /\ lost' = lost
    BY <1>9 DEF CreateEmployee, Entering, Called
  <2>2. ~lost => Alike(session', memory')
    BY <1>1, <1>2, <2>1, PutEmployeeAlike
  <2>. QED BY <2>1, <2>2
<1>10. ASSUME NEW e \in Employee, NEW c \in Contract, NEW s \in Nat, CreateContract(c, e, s)
       PROVE  Entered
  <2>1. scope' = "open" /\ lost' = lost
    BY <1>10 DEF CreateContract, Entering, Called
  <2>2. ASSUME ~lost  PROVE Alike(session', memory')
    <3>1. Alike(session, memory) /\ DOMAIN session.employees = DOMAIN memory.employees
      BY <1>1, <2>2 DEF Alike
    <3>2. CASE e \notin DOMAIN session.employees
      BY <1>10, <3>1, <3>2 DEF CreateContract
    <3>3. CASE e \in DOMAIN session.employees
      <4> DEFINE t == PutRow(session, c, e, s)
                 m == PutContract(memory, c, e, s)
      <4>1. session' = t /\ memory' = PutEmployee(m, e, c)
        BY <1>10, <3>1, <3>3 DEF CreateContract
      <4>2. Alike(t, m)
        BY <1>2, <3>1, PutContractAlike
      <4>3. m = PutContract(memory, c, e, s)
        OBVIOUS
      <4>. HIDE DEF m
      <4>4. /\ Shaped(m, Columns \cup {"byEmployee"})
            /\ Maps(m.byEmployee, Employee, Filed)
            /\ DOMAIN m.contracts = DOMAIN memory.contracts \cup {c}
        BY <1>2, <4>3, PutContractShape DEF MemoryColumns
      <4>5. /\ m.contracts = PutRow(memory, c, e, s).contracts
            /\ m.employees = memory.employees /\ m.periods = memory.periods
            /\ m.times = memory.times
            /\ DOMAIN m.byEmployee = DOMAIN memory.byEmployee \cup {e}
            /\ m.byEmployee[e] = [contract |-> c, salary |-> s]
            /\ \A n \in DOMAIN memory.byEmployee \ {e} : m.byEmployee[n] = memory.byEmployee[n]
        BY <1>2, <4>3, PutContractTables
      <4>6. Shaped(m, MemoryColumns) /\ e \in DOMAIN m.employees
        BY <3>1, <3>3, <4>4, <4>5 DEF MemoryColumns
      <4>7. /\ Shaped(memory', MemoryColumns)
            /\ DOMAIN memory'.employees = DOMAIN m.employees \cup {e}
            /\ memory'.employees[e] = c
            /\ \A n \in DOMAIN m.employees \ {e} : memory'.employees[n] = m.employees[n]
            /\ \A x \in MemoryColumns \ {"employees"} : memory'[x] = m[x]
        BY <4>1, <4>6, Within, PutEmployeeShape
      <4>8. memory'.contracts = m.contracts /\ memory'.periods = m.periods
            /\ memory'.times = m.times /\ DOMAIN memory'.employees = DOMAIN m.employees
        BY <4>6, <4>7 DEF MemoryColumns, Columns
      <4>. HIDE DEF t
      <4>. QED BY <4>1, <4>2, <4>8 DEF Alike
    <3>. QED BY <3>2, <3>3
  <2>. QED BY <2>1, <2>2
<1>11. ASSUME NEW p \in Period, OpenPeriod(p)  PROVE Entered
  <2>1. /\ session' = PutPeriod(session, p) /\ memory' = PutPeriod(memory, p)
        /\ scope' = "open" /\ lost' = lost
    BY <1>11 DEF OpenPeriod, Entering, Called
  <2>2. ~lost => Alike(session', memory')
    BY <1>1, <1>2, <2>1, PutPeriodAlike
  <2>. QED BY <2>1, <2>2
<1>12. ASSUME NEW p \in Period, NEW e \in Employee, NEW h \in Nat, SetTimeInput(p, e, h)
       PROVE  Entered
  <2>1. scope' = "open" /\ lost' = lost
    BY <1>12 DEF SetTimeInput, Entering, Called
  <2>2. ASSUME ~lost  PROVE Alike(session', memory')
    <3>1. Alike(session, memory)
      BY <1>1, <2>2
    <3>2. Known(session, p, e) = Known(memory, p, e)
      BY <3>1 DEF Alike, Known
    <3>3. CASE Known(session, p, e) = "ok"
      <4>1. session' = PutTimes(session, p, e, h) /\ memory' = PutTimes(memory, p, e, h)
        BY <1>12, <3>2, <3>3 DEF SetTimeInput
      <4>. QED BY <1>2, <3>1, <4>1, PutTimesAlike
    <3>4. CASE Known(session, p, e) # "ok"
      BY <1>12, <3>1, <3>2, <3>4 DEF SetTimeInput
    <3>. QED BY <3>3, <3>4
  <2>. QED BY <2>1, <2>2
<1>13. ASSUME NEW p \in Period, NEW e \in Employee, DryRun(p, e)  PROVE Same
  BY <1>13 DEF DryRun, Called
<1>. QED
  BY <1>3, <1>4, <1>5, <1>6, <1>7, <1>8, <1>9, <1>10, <1>11, <1>12, <1>13, SumAssumption
  DEF Next, vars, registry, Load, Calculate, Reload, Edit

LEMMA AgreeStandsIn == IInv /\ AgreeInv => StandIn
<1>. SUFFICES ASSUME IInv, AgreeInv, ~lost, call = Idle, NEW e \in Employee, Plain(e)
              PROVE  /\ RowsFor(session, e) = FiledFor(memory, e)
                     /\ \A p \in Period :
                          LookUps(session, RowsFor(session, e), p, e) =
                          LookUps(memory, FiledFor(memory, e), p, e)
  BY DEF StandIn
<1> DEFINE M == memory.contracts
           T == session.contracts
           R == {[contract |-> c, salary |-> M[c].salary] : c \in {d \in DOMAIN M : M[d].employee = e}}
<1>1. Alike(session, memory) /\ FiledRight
  BY DEF AgreeInv
<1>2. RowsFor(memory, e) = R
  BY DEF RowsFor
<1>3. ASSUME NEW c \in DOMAIN M, M[c].employee = e
      PROVE  T[c].salary = M[c].salary
  <2>1. [contract |-> c, salary |-> M[c].salary] \in R
    BY <1>3
  <2>2. Rounded(M[c].salary) = M[c].salary
    BY <1>2, <2>1 DEF Plain
  <2>. QED BY <1>1, <2>2 DEF Alike
<1>4. RowsFor(session, e) = R
  <2>1. {d \in DOMAIN T : T[d].employee = e} = {d \in DOMAIN M : M[d].employee = e}
    BY <1>1 DEF Alike
  <2>. QED BY <1>3, <2>1 DEF RowsFor
<1>5. R = FiledFor(memory, e)
  <2>1. {x.contract : x \in R} = {x.contract : x \in FiledFor(memory, e)}
    BY <1>2 DEF Plain
  <2>2. CASE e \notin DOMAIN memory.byEmployee
    <3>1. FiledFor(memory, e) = {}
      BY <2>2 DEF FiledFor
    <3>. QED BY <2>1, <3>1
  <2>3. CASE e \in DOMAIN memory.byEmployee
    <3> DEFINE f == memory.byEmployee[e]
    <3>1. FiledFor(memory, e) = {f}
      BY <2>3 DEF FiledFor
    <3>2. f \in [contract : Contract, salary : Nat]
      BY <2>3 DEF IInv, InMemory, Maps, Filed
    <3>3. {x.contract : x \in R} = {f.contract}
      BY <2>1, <3>1
    <3>. HIDE DEF f
    <3>4. \A x \in R : x.contract = f.contract
      BY <3>3
    <3>5. PICK x \in R : x.contract = f.contract
      BY <3>3
    <3>6. PICK c \in DOMAIN M : M[c].employee = e /\ x = [contract |-> c, salary |-> M[c].salary]
      BY <3>5
    <3>7. c = f.contract
      BY <3>5, <3>6
    <3>8. f.salary = M[c].salary
      BY <1>1, <2>3, <3>6, <3>7 DEF FiledRight, f
    <3>9. f = [contract |-> c, salary |-> M[c].salary]
      BY <3>2, <3>7, <3>8
    <3>10. f \in R
      BY <3>6, <3>9
    <3>11. ASSUME NEW y \in R  PROVE y = f
      <4>1. PICK d \in DOMAIN M : M[d].employee = e /\ y = [contract |-> d, salary |-> M[d].salary]
        OBVIOUS
      <4>2. d = c
        BY <3>4, <3>7, <4>1
      <4>. QED BY <3>9, <4>1, <4>2
    <3>. QED BY <3>1, <3>10, <3>11
  <2>. QED BY <2>2, <2>3
<1>6. ASSUME NEW p \in Period
      PROVE  LookUps(session, R, p, e) = LookUps(memory, R, p, e)
  <2>1. Known(session, p, e) = Known(memory, p, e)
    BY <1>1 DEF Alike, Known
  <2>2. <<p, e>> \in DOMAIN session.times <=> <<p, e>> \in DOMAIN memory.times
    BY <1>1 DEF Alike
  <2>. HIDE DEF R
  <2>. QED BY <2>1, <2>2 DEF LookUps
<1>. HIDE DEF R
<1>. QED BY <1>4, <1>5, <1>6

\* The dictionaries that every test runs on answer a dry run as the tables do,
\* for an employee with one contract and amounts of two places, as long as no
\* scope was rolled back.
THEOREM StandInCorrect == Spec => []StandIn
<1>1. Init => AgreeInv
  <2>. SUFFICES ASSUME Init PROVE AgreeInv
    OBVIOUS
  <2>1. DOMAIN Nothing = {}
    BY NothingMaps
  <2>2. FiledRight
    BY <2>1 DEF Init, FiledRight
  <2>3. /\ session.employees = Nothing /\ session.contracts = Nothing
        /\ session.periods = {} /\ session.times = Nothing
    BY DEF Init, Blank
  <2>4. /\ memory.employees = Nothing /\ memory.contracts = Nothing
        /\ memory.periods = {} /\ memory.times = Nothing
    BY DEF Init
  <2>5. Alike(session, memory)
    BY <2>1, <2>3, <2>4 DEF Alike
  <2>. QED BY <2>2, <2>5 DEF Init, AgreeInv
<1>2. IInv /\ AgreeInv /\ [Next]_vars => AgreeInv'
  BY AgreeKept
<1>. QED BY <1>1, <1>2, AgreeStandsIn, Inductive, PTL DEF Spec
=============================================================================
