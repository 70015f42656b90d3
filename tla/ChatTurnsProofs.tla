--------------------------- MODULE ChatTurnsProofs ---------------------------
(***************************************************************************)
(* ChatTurns for any sessions, conversations, turns, caps, rounds, queries, *)
(* faults and restarts.                                                    *)
(***************************************************************************)
EXTENDS ChatTurns, TLAPS, WellFoundedInduction, FiniteSetTheorems

(* ------------------------ least and greatest indices -------------------- *)

LEMMA LeastNat ==
  ASSUME NEW S, S \subseteq Nat, S # {}
  PROVE  Min(S) \in S /\ \A k \in S : Min(S) <= k
<1>1. IsWellFoundedOn(OpToRel(<, Nat), Nat)
  BY NatLessThanWellFounded
<1>2. PICK x \in S : \A y \in S : ~ (<<y, x>> \in OpToRel(<, Nat))
  BY <1>1, WFMin
<1>3. \A y \in S : ~ (y < x)
  BY <1>2 DEF OpToRel
<1>4. \A y \in S : x <= y
  BY <1>3
<1>5. Min(S) \in S /\ \A y \in S : Min(S) <= y
  BY <1>4, Zenon DEF Min
<1>. QED BY <1>5

LEMMA GreatestNat ==
  ASSUME NEW S, S \subseteq Nat, S # {}, NEW n \in Nat, \A k \in S : k <= n
  PROVE  Max(S) \in S /\ \A k \in S : k <= Max(S)
<1> DEFINE T == {m \in Nat : \A k \in S : k <= m}
<1>1. T \subseteq Nat /\ T # {}
  OBVIOUS
<1>2. Min(T) \in T /\ \A m \in T : Min(T) <= m
  <2>. HIDE DEF T
  <2>. QED BY <1>1, LeastNat
<1>3. PICK x \in Nat : x = Min(T)
  BY <1>2
<1>4. x \in S
  <2>1. SUFFICES ASSUME x \notin S PROVE FALSE
    OBVIOUS
  <2>2. \A k \in S : k <= x /\ k # x
    BY <1>2, <1>3, <2>1
  <2>3. PICK k \in S : TRUE
    OBVIOUS
  <2>4. x - 1 \in T
    BY <2>2, <2>3
  <2>. QED BY <1>2, <1>3, <2>4
<1>5. \A k \in S : x >= k
  BY <1>2, <1>3
<1>6. Max(S) \in S /\ \A k \in S : Max(S) >= k
  BY <1>4, <1>5, Zenon DEF Max
<1>. QED BY <1>6

(* ------------------------------ transcripts ----------------------------- *)

(* A transcript that starts with a question, and in which every tool call is *)
(* followed by its own results.                                             *)
Well(tr) ==
  /\ tr # <<>> => IsAsk(tr[1])
  /\ \A i \in DOMAIN tr :
       /\ tr[i].kind = "call" =>
            i < Len(tr) /\ tr[i + 1] = Message("result", tr[i].turn, tr[i].round)
       /\ tr[i].kind = "result" =>
            i > 1 /\ tr[i - 1] = Message("call", tr[i].turn, tr[i].round)

LEMMA FromFacts ==
  ASSUME NEW tr \in Seq(MessageType), NEW k \in 1..Len(tr)
  PROVE  /\ From(tr, k) \in Seq(MessageType) /\ Len(From(tr, k)) = Len(tr) - k + 1
         /\ \A i \in 1..(Len(tr) - k + 1) : From(tr, k)[i] = tr[i + k - 1]
  BY DEF From

LEMMA FromWell ==
  ASSUME NEW tr \in Seq(MessageType), Well(tr), NEW k \in 1..Len(tr), IsAsk(tr[k])
  PROVE  Well(From(tr, k)) /\ From(tr, k) # <<>>
<1> DEFINE fr == From(tr, k)
<1>1. /\ fr \in Seq(MessageType) /\ Len(fr) = Len(tr) - k + 1
      /\ \A i \in 1..(Len(tr) - k + 1) : fr[i] = tr[i + k - 1]
  BY FromFacts
<1>. HIDE DEF fr
<1>2. fr[1] = tr[k] /\ fr # <<>>
  BY <1>1
<1>3. ASSUME NEW i \in 1..Len(fr)
      PROVE  /\ fr[i].kind = "call" =>
                  i < Len(fr) /\ fr[i + 1] = Message("result", fr[i].turn, fr[i].round)
             /\ fr[i].kind = "result" =>
                  i > 1 /\ fr[i - 1] = Message("call", fr[i].turn, fr[i].round)
  <2>1. i + k - 1 \in 1..Len(tr) /\ fr[i] = tr[i + k - 1]
    BY <1>1
  <2>2. CASE fr[i].kind = "call"
    <3>1. i + k - 1 < Len(tr) /\ tr[i + k] = Message("result", fr[i].turn, fr[i].round)
      BY <2>1, <2>2 DEF Well
    <3>2. i + 1 \in 1..(Len(tr) - k + 1) /\ fr[i + 1] = tr[i + k]
      BY <1>1, <3>1
    <3>. QED BY <1>1, <2>2, <3>1, <3>2
  <2>3. CASE fr[i].kind = "result"
    <3>1. i # 1
      BY <1>2, <2>3 DEF IsAsk
    <3>2. tr[i + k - 2] = Message("call", fr[i].turn, fr[i].round)
      <4>1. (i + k - 1) - 1 = i + k - 2
        OBVIOUS
      <4>. QED BY <2>1, <2>3, <4>1 DEF Well
    <3>3. i - 1 \in 1..(Len(tr) - k + 1) /\ fr[i - 1] = tr[i + k - 2]
      BY <1>1, <3>1
    <3>. QED BY <2>3, <3>1, <3>2, <3>3
  <2>. QED BY <2>2, <2>3
<1>4. Well(fr)
  BY <1>1, <1>2, <1>3 DEF Well, IsAsk
<1>. QED BY <1>2, <1>4 DEF fr

(* _cap_to_turn_boundary: what is kept starts with a question, is as long as  *)
(* fits, and at least the last turn.                                         *)
LEMMA CapFacts ==
  ASSUME NEW tr \in Seq(MessageType), tr # <<>>, Well(tr)
  PROVE  \E k \in 1..Len(tr) :
           /\ Cap(tr) = From(tr, k) /\ IsAsk(tr[k])
           /\ \/ Len(From(tr, k)) <= MaxMessages
              \/ \A i \in 1..Len(tr) : IsAsk(tr[i]) => i <= k
           /\ \A j \in 1..(k - 1) : IsAsk(tr[j]) => Len(From(tr, j)) > MaxMessages
<1> DEFINE fit == {i \in Asks(tr) : Len(From(tr, i)) <= MaxMessages}
<1>1. MaxMessages \in Nat /\ Len(tr) \in Nat /\ Len(tr) >= 1
  BY ChatConstants
<1>2. 1 \in Asks(tr) /\ Asks(tr) \subseteq 1..Len(tr)
  BY <1>1 DEF Well, Asks
<1>3. CASE Len(tr) <= MaxMessages
  <2>1. Cap(tr) = tr
    BY <1>3 DEF Cap
  <2>2. From(tr, 1) = tr
    BY DEF From
  <2>. QED BY <1>1, <1>2, <1>3, <2>1, <2>2 DEF Asks
<1>4. CASE Len(tr) > MaxMessages /\ fit # {}
  <2>1. Cap(tr) = From(tr, Min(fit))
    <3>1. ~ (Len(tr) <= MaxMessages) /\ Asks(tr) # {}
      BY <1>1, <1>2, <1>4
    <3>. QED BY <1>4, <3>1, Zenon DEF Cap
  <2>2. fit \subseteq Nat
    BY <1>2
  <2>3. Min(fit) \in fit /\ \A i \in fit : Min(fit) <= i
    <3>. HIDE DEF fit
    <3>. QED BY <1>4, <2>2, LeastNat
  <2>4. PICK k \in 1..Len(tr) : k = Min(fit)
    BY <1>2, <2>3
  <2>5. \A j \in 1..(k - 1) : j \in 1..Len(tr) /\ j \notin fit
    <3>. HIDE DEF fit
    <3>1. \A j \in 1..(k - 1) : j \in 1..Len(tr) /\ ~ (k <= j)
      BY <1>1
    <3>. QED BY <2>3, <2>4, <3>1
  <2>6. \A j \in 1..(k - 1) : IsAsk(tr[j]) => Len(From(tr, j)) > MaxMessages
    <3>1. \A j \in 1..Len(tr) : Len(From(tr, j)) \in Nat
      BY FromFacts
    <3>. QED BY <1>1, <2>5, <3>1 DEF Asks
  <2>. QED BY <2>1, <2>3, <2>4, <2>6 DEF Asks
<1>5. CASE Len(tr) > MaxMessages /\ fit = {}
  <2>1. Cap(tr) = From(tr, Max(Asks(tr)))
    <3>1. ~ (Len(tr) <= MaxMessages) /\ Asks(tr) # {}
      BY <1>1, <1>2, <1>5
    <3>. QED BY <1>5, <3>1, Zenon DEF Cap
  <2>2. Max(Asks(tr)) \in Asks(tr) /\ \A i \in Asks(tr) : i <= Max(Asks(tr))
    BY <1>1, <1>2, GreatestNat
  <2>3. PICK k \in 1..Len(tr) : k = Max(Asks(tr))
    BY <1>2, <2>2
  <2>4. \A j \in 1..Len(tr) : IsAsk(tr[j]) => Len(From(tr, j)) > MaxMessages
    <3>1. \A j \in 1..Len(tr) : Len(From(tr, j)) \in Nat
      BY FromFacts
    <3>. QED BY <1>1, <1>5, <3>1 DEF Asks
  <2>5. \A j \in 1..(k - 1) : j \in 1..Len(tr)
    BY <1>1
  <2>6. \A i \in 1..Len(tr) : IsAsk(tr[i]) => i <= k
    BY <2>2, <2>3 DEF Asks
  <2>7. IsAsk(tr[k])
    BY <2>2, <2>3 DEF Asks
  <2>. QED BY <2>1, <2>3, <2>4, <2>5, <2>6, <2>7
<1>. QED BY <1>1, <1>3, <1>4, <1>5

(* _sanitize_transcript leaves a transcript alone that starts with a question. *)
LEMMA SanitizeWell ==
  ASSUME NEW tr \in Seq(MessageType), Well(tr)
  PROVE  Sanitize(tr) = tr
<1>1. CASE tr = <<>>
  <2>1. Asks(tr) = {}
    BY <1>1 DEF Asks
  <2>. QED BY <1>1, <2>1 DEF Sanitize
<1>2. CASE tr # <<>>
  <2>1. 1 \in Asks(tr) /\ Asks(tr) \subseteq 1..Len(tr)
    BY <1>2 DEF Well, Asks
  <2>2. Min(Asks(tr)) \in Asks(tr) /\ \A k \in Asks(tr) : Min(Asks(tr)) <= k
    BY <2>1, LeastNat
  <2>3. Min(Asks(tr)) = 1
    BY <2>1, <2>2
  <2>. QED BY <2>1, <2>3 DEF Sanitize, From
<1>. QED BY <1>1, <1>2

(* A question or an answer may follow whatever is complete. *)
LEMMA AppendWell ==
  ASSUME NEW tr \in Seq(MessageType), Well(tr), NEW m \in MessageType,
         IsAsk(m) \/ (m.kind = "answer" /\ tr # <<>>)
  PROVE  Well(Append(tr, m))
<1> DEFINE n == Len(tr)
           u == Append(tr, m)
<1>1. n \in Nat /\ Len(u) = n + 1 /\ u[n + 1] = m /\ u # <<>> /\ \A i \in 1..n : u[i] = tr[i]
  OBVIOUS
<1>2. DOMAIN u = 1..(n + 1) /\ DOMAIN tr = 1..n
  OBVIOUS
<1>. HIDE DEF u, n
<1>3. IsAsk(u[1])
  <2>1. CASE n = 0
    BY <1>1, <2>1 DEF n
  <2>2. CASE n # 0
    BY <1>1, <2>2 DEF Well, n
  <2>. QED BY <2>1, <2>2
<1>4. ASSUME NEW i \in 1..n
      PROVE  /\ u[i].kind = "call" =>
                  i < n + 1 /\ u[i + 1] = Message("result", u[i].turn, u[i].round)
             /\ u[i].kind = "result" =>
                  i > 1 /\ u[i - 1] = Message("call", u[i].turn, u[i].round)
  BY <1>1, <1>2 DEF Well, n
<1>5. m.kind \notin {"call", "result"}
  BY DEF IsAsk
<1>. QED BY <1>1, <1>2, <1>3, <1>4, <1>5 DEF Well, u

(* A tool call and its results may follow whatever is complete. *)
LEMMA RoundWell ==
  ASSUME NEW w \in Seq(MessageType), Well(w), w # <<>>, NEW t \in Turn, NEW r \in 0..MaxRounds
  PROVE  Well(Append(Append(w, Message("call", t, r)), Message("result", t, r)))
<1> DEFINE n == Len(w)
           u == Append(Append(w, Message("call", t, r)), Message("result", t, r))
<1>1. Message("call", t, r) \in MessageType /\ Message("result", t, r) \in MessageType
  BY DEF Message, MessageType
<1>2. /\ n \in Nat /\ n >= 1 /\ Len(u) = n + 2 /\ DOMAIN u = 1..(n + 2) /\ DOMAIN w = 1..n
      /\ \A i \in 1..n : u[i] = w[i]
      /\ u[n + 1] = Message("call", t, r) /\ u[n + 2] = Message("result", t, r)
  <2> DEFINE v == Append(w, Message("call", t, r))
  <2>1. v \in Seq(MessageType) /\ Len(v) = n + 1 /\ n \in Nat /\ n >= 1
        /\ v[n + 1] = Message("call", t, r) /\ \A i \in 1..n : v[i] = w[i]
    BY <1>1
  <2>. HIDE DEF v
  <2>2. /\ Len(Append(v, Message("result", t, r))) = n + 2
        /\ Append(v, Message("result", t, r))[n + 2] = Message("result", t, r)
        /\ \A i \in 1..(n + 1) : Append(v, Message("result", t, r))[i] = v[i]
        /\ DOMAIN Append(v, Message("result", t, r)) = 1..(n + 2)
    BY <1>1, <2>1
  <2>. QED BY <2>1, <2>2 DEF v
<1>. HIDE DEF u, n
<1>3. IsAsk(u[1])
  BY <1>2 DEF Well, n
<1>4. ASSUME NEW i \in 1..n
      PROVE  /\ u[i].kind = "call" =>
                  i < n + 2 /\ u[i + 1] = Message("result", u[i].turn, u[i].round)
             /\ u[i].kind = "result" =>
                  i > 1 /\ u[i - 1] = Message("call", u[i].turn, u[i].round)
  BY <1>2 DEF Well, n
<1>5. /\ u[n + 1].kind = "call" /\ u[n + 1].turn = t /\ u[n + 1].round = r
      /\ u[n + 2].kind = "result" /\ u[n + 2].turn = t /\ u[n + 2].round = r
  BY <1>2 DEF Message
<1>6. (n + 1) + 1 = n + 2 /\ (n + 2) - 1 = n + 1 /\ u # <<>>
  BY <1>2
<1>7. \A i \in 1..(n + 2) : i \in 1..n \/ i = n + 1 \/ i = n + 2
  BY <1>2
<1>. QED BY <1>2, <1>3, <1>4, <1>5, <1>6, <1>7 DEF Well, u

(* What precedes a question, with it. *)
LEMMA PrefixWell ==
  ASSUME NEW tr \in Seq(MessageType), Well(tr), NEW n \in 1..Len(tr), IsAsk(tr[n])
  PROVE  Well(SubSeq(tr, 1, n)) /\ SubSeq(tr, 1, n) # <<>>
<1> DEFINE u == SubSeq(tr, 1, n)
<1>1. /\ u \in Seq(MessageType) /\ Len(u) = n /\ DOMAIN u = 1..n /\ u # <<>>
      /\ \A i \in 1..n : u[i] = tr[i]
  OBVIOUS
<1>. HIDE DEF u
<1>2. IsAsk(u[1])
  BY <1>1 DEF Well
<1>3. ASSUME NEW i \in 1..n
      PROVE  /\ u[i].kind = "call" =>
                  i < n /\ u[i + 1] = Message("result", u[i].turn, u[i].round)
             /\ u[i].kind = "result" =>
                  i > 1 /\ u[i - 1] = Message("call", u[i].turn, u[i].round)
  <2>1. i \in 1..Len(tr) /\ u[i] = tr[i]
    BY <1>1
  <2>2. u[i].kind = "call" => i # n
    BY <1>1 DEF IsAsk
  <2>. QED BY <1>1, <2>1, <2>2 DEF Well
<1>4. Well(u)
  BY <1>1, <1>2, <1>3 DEF Well
<1>. QED BY <1>1, <1>4 DEF u

(* What a past turn keeps of its first n messages, given what it keeps of the *)
(* first n - 1.                                                              *)
KeepNext(s, m) == IF m.kind \in {"ask", "answer"} THEN Append(s, m) ELSE s

LEMMA KeepingExists ==
  ASSUME NEW tr, Len(tr) \in Nat
  PROVE  \E g : g = [n \in 0..Len(tr) |-> IF n = 0 THEN <<>> ELSE KeepNext(g[n - 1], tr[n])]
<1> DEFINE Fits(g, k) == g = [n \in 0..k |-> IF n = 0 THEN <<>> ELSE KeepNext(g[n - 1], tr[n])]
           Bad == {k \in Nat : ~ \E g : Fits(g, k)}
<1>1. SUFFICES ASSUME Bad # {} PROVE FALSE
  OBVIOUS
<1>2. PICK k \in Bad : \A m \in Bad : k <= m
  <2>1. Bad \subseteq Nat
    OBVIOUS
  <2>. HIDE DEF Bad
  <2>. QED BY <1>1, <2>1, LeastNat
<1>3. CASE k = 0
  <2>1. Fits([n \in 0..0 |-> <<>>], 0)
    OBVIOUS
  <2>. QED BY <1>2, <1>3, <2>1
<1>4. CASE k # 0
  <2>1. k - 1 \in Nat /\ ~ (k <= k - 1)
    BY <1>2, <1>4
  <2>2. PICK h : Fits(h, k - 1)
    BY <1>2, <2>1
  <2> DEFINE g == [n \in 0..k |-> IF n = k THEN KeepNext(h[k - 1], tr[k]) ELSE h[n]]
  <2>3. \A n \in 0..(k - 1) : h[n] = IF n = 0 THEN <<>> ELSE KeepNext(h[n - 1], tr[n])
    BY <2>2
  <2>4. ASSUME NEW n \in 0..k
        PROVE  g[n] = IF n = 0 THEN <<>> ELSE KeepNext(g[n - 1], tr[n])
    <3>1. CASE n = k
      <4>1. k - 1 \in 0..k /\ k - 1 # k
        BY <2>1
      <4>2. g[n - 1] = h[k - 1]
        BY <3>1, <4>1
      <4>. QED BY <1>4, <3>1, <4>2
    <3>2. CASE n # k
      <4>1. n \in 0..(k - 1) /\ g[n] = h[n]
        BY <1>2, <3>2
      <4>2. n # 0 => n - 1 \in 0..k /\ n - 1 # k /\ g[n - 1] = h[n - 1]
        BY <1>2, <4>1
      <4>. QED BY <2>3, <4>1, <4>2
    <3>. QED BY <3>1, <3>2
  <2>5. g = [n \in 0..k |-> g[n]]
    OBVIOUS
  <2>6. Fits(g, k)
    <3>. HIDE DEF g
    <3>1. [n \in 0..k |-> g[n]] =
            [n \in 0..k |-> IF n = 0 THEN <<>> ELSE KeepNext(g[n - 1], tr[n])]
      BY <2>4
    <3>. QED BY <2>5, <3>1, Zenon
  <2>. HIDE DEF Fits, g
  <2>. QED BY <1>2, <2>6
<1>. QED BY <1>3, <1>4

LEMMA KeepingTells ==
  ASSUME NEW tr, Len(tr) \in Nat
  PROVE  \E g : /\ g[0] = <<>> /\ \A n \in 1..Len(tr) : g[n] = KeepNext(g[n - 1], tr[n])
                /\ Kept(tr) = g[Len(tr)]
<1> DEFINE kept == CHOOSE g : g = [n \in 0..Len(tr) |-> IF n = 0 THEN <<>>
                                                        ELSE KeepNext(g[n - 1], tr[n])]
<1>1. kept = [n \in 0..Len(tr) |-> IF n = 0 THEN <<>> ELSE KeepNext(kept[n - 1], tr[n])]
  BY KeepingExists, Zenon
<1>2. Kept(tr) = kept[Len(tr)]
  BY Zenon DEF Kept, KeepNext
<1>. HIDE DEF kept
<1>3. \A n \in 0..Len(tr) : kept[n] = IF n = 0 THEN <<>> ELSE KeepNext(kept[n - 1], tr[n])
  BY <1>1, Zenon
<1>4. 0 \in 0..Len(tr) /\ \A n \in 1..Len(tr) : n \in 0..Len(tr) /\ n # 0
  OBVIOUS
<1>. QED BY <1>2, <1>3, <1>4, Zenon

(* Of past turns only questions and answers are kept, and the first question  *)
(* stays the first.                                                          *)
LEMMA KeptFacts ==
  ASSUME NEW tr \in Seq(MessageType)
  PROVE  /\ Kept(tr) \in Seq({m \in MessageType : m.kind \in {"ask", "answer"}})
         /\ tr # <<>> /\ IsAsk(tr[1]) => Kept(tr) # <<>> /\ Kept(tr)[1] = tr[1]
<1> DEFINE QA == {m \in MessageType : m.kind \in {"ask", "answer"}}
           Right(s, n) == /\ s \in Seq(QA)
                          /\ n >= 1 /\ IsAsk(tr[1]) => s # <<>> /\ s[1] = tr[1]
<1>1. PICK g : /\ g[0] = <<>> /\ \A n \in 1..Len(tr) : g[n] = KeepNext(g[n - 1], tr[n])
               /\ Kept(tr) = g[Len(tr)]
  BY KeepingTells
<1> DEFINE Bad == {n \in 0..Len(tr) : ~ Right(g[n], n)}
<1>2. Bad = {}
  <2>1. SUFFICES ASSUME Bad # {} PROVE FALSE
    OBVIOUS
  <2>2. PICK k \in Bad : \A m \in Bad : k <= m
    <3>1. Bad \subseteq Nat
      OBVIOUS
    <3>. HIDE DEF Bad
    <3>. QED BY <2>1, <3>1, LeastNat
  <2>3. k # 0
    <3>1. <<>> \in Seq(QA)
      OBVIOUS
    <3>2. Right(g[0], 0)
      BY <1>1, <3>1
    <3>. QED BY <2>2, <3>2
  <2>4. k - 1 \in 0..Len(tr) /\ k - 1 \notin Bad /\ k \in 1..Len(tr)
    BY <2>2, <2>3
  <2>5. Right(g[k - 1], k - 1)
    BY <2>4
  <2>6. PICK s, m : s = g[k - 1] /\ m = tr[k]
    OBVIOUS
  <2>7. g[k] = KeepNext(s, m) /\ m \in MessageType /\ s \in Seq(QA)
    BY <1>1, <2>4, <2>5, <2>6
  <2>8. g[k] \in Seq(QA) /\ (s # <<>> => g[k] # <<>> /\ g[k][1] = s[1])
    BY <2>7 DEF KeepNext
  <2>9. k = 1 /\ IsAsk(tr[1]) => g[k] # <<>> /\ g[k][1] = tr[1]
    <3>1. k = 1 /\ IsAsk(tr[1]) => s = <<>> /\ g[k] = Append(s, tr[1])
      BY <1>1, <2>6, <2>7 DEF KeepNext, IsAsk
    <3>. QED BY <2>4, <3>1
  <2>10. k # 1 /\ IsAsk(tr[1]) => s # <<>> /\ s[1] = tr[1]
    BY <2>4, <2>5, <2>6
  <2>11. Right(g[k], k)
    BY <2>8, <2>9, <2>10
  <2>. QED BY <2>2, <2>11
<1>3. Right(g[Len(tr)], Len(tr))
  BY <1>2
<1>. QED BY <1>1, <1>3

(* _compress_past_turns_for_claude makes a request of a complete transcript.  *)
ValidRequest(m) ==
  /\ m # <<>> /\ IsAsk(m[1]) /\ m[Len(m)].kind \in {"ask", "result"}
  /\ \A i \in DOMAIN m :
       /\ m[i].kind = "call" =>
            i < Len(m) /\ m[i + 1] = Message("result", m[i].turn, m[i].round)
       /\ m[i].kind = "result" =>
            i > 1 /\ m[i - 1] = Message("call", m[i].turn, m[i].round)

LEMMA CompressWell ==
  ASSUME NEW tr \in Seq(MessageType), Well(tr), tr # <<>>, tr[Len(tr)].kind \in {"ask", "result"}
  PROVE  ValidRequest(Compress(tr))
<1>1. 1 \in Asks(tr) /\ Asks(tr) \subseteq 1..Len(tr) /\ Len(tr) \in Nat
  BY DEF Well, Asks
<1>2. Min(Asks(tr)) \in Asks(tr) /\ \A k \in Asks(tr) : Min(Asks(tr)) <= k
  BY <1>1, LeastNat
<1>3. Min(Asks(tr)) = 1
  BY <1>1, <1>2
<1>4. Max(Asks(tr)) \in Asks(tr) /\ \A k \in Asks(tr) : k <= Max(Asks(tr))
  BY <1>1, GreatestNat
<1>5. PICK k \in 1..Len(tr) : k = Max(Asks(tr)) /\ IsAsk(tr[k])
  BY <1>1, <1>4 DEF Asks
<1>6. PICK a, b : a = Kept(SubSeq(tr, 1, k - 1)) /\ b = From(tr, k)
  OBVIOUS
<1>7. Compress(tr) = a \o b
  <2>1. SubSeq(tr, 1, 0) = <<>>
    OBVIOUS
  <2>2. Compress(tr) = SubSeq(tr, 1, 1 - 1) \o a \o b
    BY <1>1, <1>3, <1>5, <1>6, Zenon DEF Compress
  <2>3. a \in Seq(MessageType)
    <3>1. SubSeq(tr, 1, k - 1) \in Seq(MessageType)
      BY <1>1
    <3>2. a \in Seq({m \in MessageType : m.kind \in {"ask", "answer"}})
      BY <1>6, <3>1, KeptFacts
    <3>. QED BY <3>2
  <2>. QED BY <2>1, <2>2, <2>3
<1>8. /\ b \in Seq(MessageType) /\ Well(b) /\ b # <<>> /\ IsAsk(b[1])
      /\ b[Len(b)].kind \in {"ask", "result"}
  <2>1. b \in Seq(MessageType) /\ Len(b) = Len(tr) - k + 1 /\ b[Len(b)] = tr[Len(tr)]
    <3>1. /\ b \in Seq(MessageType) /\ Len(b) = Len(tr) - k + 1
          /\ \A i \in 1..(Len(tr) - k + 1) : b[i] = tr[i + k - 1]
      BY <1>6, FromFacts
    <3>2. Len(b) \in 1..(Len(tr) - k + 1) /\ Len(b) + k - 1 = Len(tr)
      BY <1>1, <3>1
    <3>. QED BY <3>1, <3>2
  <2>2. Well(b) /\ b # <<>>
    BY <1>5, <1>6, FromWell
  <2>. QED BY <2>1, <2>2 DEF Well
<1>9. /\ a \in Seq(MessageType) /\ \A i \in 1..Len(a) : a[i].kind \in {"ask", "answer"}
      /\ a # <<>> => IsAsk(a[1])
  <2>1. SubSeq(tr, 1, k - 1) \in Seq(MessageType)
    BY <1>1
  <2>2. a \in Seq({m \in MessageType : m.kind \in {"ask", "answer"}})
    BY <1>6, <2>1, KeptFacts
  <2>3. CASE k = 1
    <3>1. SubSeq(tr, 1, k - 1) = <<>>
      BY <2>3
    <3>2. a = <<>>
      <4>1. PICK g : g[0] = <<>> /\ Kept(<<>>) = g[0]
        <5>1. Len(<<>>) = 0
          OBVIOUS
        <5>. QED BY <5>1, KeepingTells
      <4>. QED BY <1>6, <3>1, <4>1
    <3>. QED BY <2>2, <3>2
  <2>4. CASE k # 1
    <3>1. SubSeq(tr, 1, k - 1) # <<>> /\ SubSeq(tr, 1, k - 1)[1] = tr[1]
      BY <1>1, <2>4
    <3>2. IsAsk(tr[1])
      BY <1>1 DEF Asks
    <3>3. a[1] = tr[1]
      BY <1>6, <2>1, <3>1, <3>2, KeptFacts
    <3>. QED BY <2>2, <3>2, <3>3
  <2>. QED BY <2>3, <2>4
<1>10. ValidRequest(a \o b)
  <2> DEFINE m == a \o b
  <2>1. /\ Len(a) \in Nat /\ Len(b) \in Nat /\ Len(b) >= 1 /\ Len(m) = Len(a) + Len(b)
        /\ DOMAIN m = 1..(Len(a) + Len(b)) /\ m # <<>>
        /\ \A i \in 1..Len(a) : m[i] = a[i]
        /\ \A i \in 1..Len(b) : m[Len(a) + i] = b[i]
    BY <1>8, <1>9
  <2>. HIDE DEF m
  <2>2. IsAsk(m[1])
    <3>1. CASE a = <<>>
      <4>1. Len(a) = 0
        BY <3>1
      <4>. QED BY <1>8, <2>1, <4>1
    <3>2. CASE a # <<>>
      <4>1. 1 \in 1..Len(a)
        BY <1>9, <3>2
      <4>. QED BY <1>9, <2>1, <3>2, <4>1
    <3>. QED BY <3>1, <3>2
  <2>3. m[Len(m)].kind \in {"ask", "result"}
    BY <1>8, <2>1
  <2>4. ASSUME NEW i \in 1..(Len(a) + Len(b))
        PROVE  /\ m[i].kind = "call" =>
                    i < Len(m) /\ m[i + 1] = Message("result", m[i].turn, m[i].round)
               /\ m[i].kind = "result" =>
                    i > 1 /\ m[i - 1] = Message("call", m[i].turn, m[i].round)
    <3>1. CASE i \in 1..Len(a)
      BY <1>9, <2>1, <3>1
    <3>2. CASE i \notin 1..Len(a)
      <4>1. PICK j \in 1..Len(b) : i = Len(a) + j
        <5>1. i - Len(a) \in 1..Len(b) /\ i = Len(a) + (i - Len(a))
          BY <2>1, <3>2
        <5>. QED BY <5>1
      <4>2. m[i] = b[j] /\ DOMAIN b = 1..Len(b)
        BY <1>8, <2>1, <4>1
      <4>3. CASE m[i].kind = "call"
        <5>1. j < Len(b) /\ b[j + 1] = Message("result", b[j].turn, b[j].round)
          BY <4>2, <4>3, <1>8 DEF Well
        <5>2. j + 1 \in 1..Len(b) /\ i + 1 = Len(a) + (j + 1) /\ i < Len(m)
          BY <2>1, <4>1, <5>1
        <5>3. m[i + 1] = b[j + 1]
          BY <2>1, <5>2
        <5>. QED BY <4>2, <4>3, <5>1, <5>2, <5>3
      <4>4. CASE m[i].kind = "result"
        <5>1. j > 1 /\ b[j - 1] = Message("call", b[j].turn, b[j].round)
          BY <4>2, <4>4, <1>8 DEF Well
        <5>2. j - 1 \in 1..Len(b) /\ i - 1 = Len(a) + (j - 1) /\ i > 1
          BY <2>1, <4>1, <5>1
        <5>3. m[i - 1] = b[j - 1]
          BY <2>1, <5>2
        <5>. QED BY <4>2, <4>4, <5>1, <5>2, <5>3
      <4>. QED BY <4>3, <4>4
    <3>. QED BY <3>1, <3>2
  <2>. QED BY <2>1, <2>2, <2>3, <2>4 DEF ValidRequest, m
<1>. QED BY <1>7, <1>10

(* ------------------------------- types ---------------------------------- *)

Status == {"aborted", "ok", "error"}
Pre == {"calling", "running", "logging", "answering", "truncated"}
Begun == Active \cup {"done", "lost"}

ConvType == [state : {"none", "live", "gone"}, owner : Session \cup {Nobody},
             title : Turn \cup {Nobody}, turns : Seq(StoredType)]
TaskType == [at : Active \cup {"idle", "refused", "done", "lost"}, session : Session \cup {Nobody},
             conv : Conv \cup {Nobody}, transcript : Seq(MessageType), start : Nat,
             round : 0..MaxRounds, left : Nat, ran : Nat, logged : Nat, parsed : BOOLEAN,
             status : Status]

TInv ==
  /\ conv \in [Conv -> ConvType] /\ task \in [Turn -> TaskType]
  /\ \A c \in Conv : conv[c].state # "live" => conv[c].turns = <<>> /\ conv[c].title = Nobody
  /\ \A t \in Turn :
       /\ task[t].start \in 0..Len(task[t].transcript)
       /\ task[t].at \in Pre => task[t].start >= 1
       /\ task[t].at \in Begun =>
            /\ task[t].session \in Session /\ task[t].conv \in Conv
            /\ conv[task[t].conv].state # "none"
            /\ conv[task[t].conv].owner = task[t].session
  /\ titles \subseteq Turn /\ overlapped \subseteq Conv /\ crashes \in 0..MaxCrashes
  /\ summaries \in [Turn -> Seq(Status)]

(* ------------------------------- audit ---------------------------------- *)

(* What the locals k of turn t and its summaries s say together, where the    *)
(* turns of the set u have lost a line.                                       *)
AuditOf(t, k, s, u) ==
  /\ k.logged <= k.ran
  /\ k.at \in {"calling", "running", "answering", "truncated", "leaving"} /\ t \notin u =>
       k.logged = k.ran
  /\ k.at = "running" => k.left >= 1
  /\ k.at = "logging" =>
       /\ k.left >= 1 /\ k.ran >= k.logged + k.left
       /\ t \notin u => k.ran = k.logged + k.left
  /\ k.at \in {"idle", "refused", "calling", "running", "logging", "answering"} =>
       k.status = "aborted"
  /\ k.at \in {"truncated", "leaving"} => k.status \in {"ok", "error"}
  /\ k.at = "done" /\ k.status # "aborted" /\ t \notin u => k.logged = k.ran
  /\ k.at # "done" => s = <<>>
  /\ k.at = "done" => s = <<k.status>> \/ (t \in u /\ s = <<>>)

AInv ==
  /\ unlogged \subseteq Turn
  /\ \A t \in Turn : AuditOf(t, task[t], summaries[t], unlogged)

(* ---------------------------- transcripts ------------------------------- *)

(* The locals k of turn t: from its question on, the transcript is its own; a *)
(* tool call is the last message until its results are there.                 *)
OwnPart(k, t) ==
  /\ k.start \in 1..Len(k.transcript) /\ k.transcript[k.start] = Message("ask", t, 0)
  /\ \A i \in (k.start + 1)..Len(k.transcript) : ~ IsAsk(k.transcript[i])

TurnWell(k, t) ==
  /\ k.at \in Pre => OwnPart(k, t)
  /\ k.at \in {"calling", "answering", "truncated"} => Well(k.transcript)
  /\ k.at = "calling" => k.transcript[Len(k.transcript)].kind \in {"ask", "result"}
  /\ k.at \in {"running", "logging"} =>
       \E w \in Seq(MessageType) :
         Well(w) /\ w # <<>> /\ k.transcript = Append(w, Message("call", t, k.round))

ConvWell(c) ==
  \A i \in 1..Len(conv[c].turns) :
    Well(conv[c].turns[i].transcript) /\ conv[c].turns[i].transcript # <<>>

WInv == (\A c \in Conv : ConvWell(c)) /\ \A t \in Turn : TurnWell(task[t], t)

(* ------------------------------- history -------------------------------- *)

(* A turn that is stored as the first of its conversation. *)
StoredFirst(t, c) ==
  \E i \in 1..Len(conv[c].turns) :
    /\ conv[c].turns[i].turn = t /\ IsAsk(conv[c].turns[i].transcript[1])
    /\ conv[c].turns[i].transcript[1].turn = t

Keeps(c, t) == \E i \in 1..Len(conv[c].turns) : conv[c].turns[i].turn = t

(* Only turns that were answered, or cut short by max_tokens, are stored, each *)
(* once and in its own conversation, whose title is a stored first turn.       *)
ConvHolds(c) ==
  /\ \A i \in 1..Len(conv[c].turns) :
       LET u == conv[c].turns[i].turn
       IN  /\ task[u].conv = c /\ task[u].at \in {"leaving", "done", "lost"}
           /\ task[u].status # "aborted"
  /\ \A i, j \in 1..Len(conv[c].turns) : conv[c].turns[i].turn = conv[c].turns[j].turn => i = j
  /\ conv[c].title # Nobody => StoredFirst(conv[c].title, c)

(* An answered turn is stored while its conversation is there, and one whose   *)
(* title is being generated is stored as the first.                            *)
TurnHeld(t) ==
  /\ task[t].at = "truncated" => task[t].status = "error"
  /\ task[t].at \in {"leaving", "done"} /\ task[t].status = "ok"
       /\ conv[task[t].conv].state = "live" => Keeps(task[t].conv, t)
  /\ t \in titles =>
       /\ task[t].at \in {"leaving", "done"}
       /\ conv[task[t].conv].state = "live" => StoredFirst(t, task[t].conv)

HInv == (\A c \in Conv : ConvHolds(c)) /\ \A t \in Turn : TurnHeld(t)

(* ------------------------------- context -------------------------------- *)

(* A turn that has its conversation for itself continues from what is stored. *)
Continues(t) ==
  LET c == task[t].conv IN
  task[t].at \in Active /\ c \notin overlapped =>
    /\ \A u \in Turn : task[u].at \in Active /\ task[u].conv = c => u = t
    /\ task[t].at \in Pre /\ conv[c].state = "live" =>
         SubSeq(task[t].transcript, 1, task[t].start - 1) = LastTranscript(c)

XInv == ContextPreservedInTurn /\ \A t \in Turn : Continues(t)

LEMMA TranscriptTypes ==
  ASSUME NEW tr \in Seq(MessageType)
  PROVE  Cap(tr) \in Seq(MessageType) /\ Sanitize(tr) \in Seq(MessageType)
<1>1. Asks(tr) \subseteq 1..Len(tr) /\ Len(tr) \in Nat /\ MaxMessages \in Nat \ {0}
  BY ChatConstants DEF Asks
<1>2. \A k \in 1..Len(tr) : From(tr, k) \in Seq(MessageType)
  BY FromFacts
<1>3. Asks(tr) # {} => Min(Asks(tr)) \in 1..Len(tr) /\ Max(Asks(tr)) \in 1..Len(tr)
  <2>1. SUFFICES ASSUME Asks(tr) # {}
                 PROVE  Min(Asks(tr)) \in 1..Len(tr) /\ Max(Asks(tr)) \in 1..Len(tr)
    OBVIOUS
  <2>2. Min(Asks(tr)) \in Asks(tr)
    BY <1>1, <2>1, LeastNat
  <2>3. Max(Asks(tr)) \in Asks(tr)
    BY <1>1, <2>1, GreatestNat
  <2>. QED BY <1>1, <2>2, <2>3
<1>4. Sanitize(tr) \in Seq(MessageType)
  BY <1>2, <1>3 DEF Sanitize
<1>5. CASE Len(tr) <= MaxMessages
  BY <1>4, <1>5 DEF Cap
<1>6. CASE ~ (Len(tr) <= MaxMessages) /\ Asks(tr) = {}
  <2>1. Len(tr) - MaxMessages + 1 \in 1..Len(tr)
    BY <1>1, <1>6
  <2>2. Cap(tr) = From(tr, Len(tr) - MaxMessages + 1)
    BY <1>6, Zenon DEF Cap
  <2>. QED BY <1>2, <1>4, <2>1, <2>2
<1>7. CASE ~ (Len(tr) <= MaxMessages) /\ Asks(tr) # {}
  <2> DEFINE fit == {i \in Asks(tr) : Len(From(tr, i)) <= MaxMessages}
  <2>1. Cap(tr) = IF fit # {} THEN From(tr, Min(fit)) ELSE From(tr, Max(Asks(tr)))
    BY <1>7, Zenon DEF Cap
  <2>2. fit # {} => Min(fit) \in 1..Len(tr)
    <3>1. fit \subseteq 1..Len(tr) /\ fit \subseteq Nat
      BY <1>1
    <3>. HIDE DEF fit
    <3>2. fit # {} => Min(fit) \in fit
      BY <3>1, LeastNat
    <3>. QED BY <3>1, <3>2
  <2>. HIDE DEF fit
  <2>. QED BY <1>2, <1>3, <1>4, <1>7, <2>1, <2>2
<1>. QED BY <1>4, <1>5, <1>6, <1>7

LEMMA LastTranscriptType ==
  ASSUME TInv, NEW c \in Conv
  PROVE  LastTranscript(c) \in Seq(MessageType)
<1>1. conv[c].turns \in Seq(StoredType)
  BY DEF TInv, ConvType
<1>2. CASE conv[c].turns = <<>>
  BY <1>2 DEF LastTranscript
<1>3. CASE conv[c].turns # <<>>
  <2>1. Last(conv[c].turns) \in StoredType
    BY <1>1, <1>3 DEF Last
  <2>2. Last(conv[c].turns).transcript \in Seq(MessageType)
    BY <2>1 DEF StoredType
  <2>. QED BY <1>3, <2>2, TranscriptTypes DEF LastTranscript
<1>. QED BY <1>2, <1>3

(* What a step may do to conversations: none is taken back or changes hands. *)
ConvStep ==
  /\ conv' \in [Conv -> ConvType]
  /\ \A c \in Conv :
       /\ conv'[c].state # "live" => conv'[c].turns = <<>> /\ conv'[c].title = Nobody
       /\ conv[c].state # "none" =>
            conv'[c].state # "none" /\ conv'[c].owner = conv[c].owner

LEMMA TaskFrame ==
  ASSUME TInv, ConvStep, NEW t \in Turn, NEW x \in TaskType, task' = [task EXCEPT ![t] = x],
         x.start \in 0..Len(x.transcript), x.at \in Pre => x.start >= 1,
         x.at \in Begun => /\ x.session \in Session /\ x.conv \in Conv
                           /\ conv'[x.conv].state # "none" /\ conv'[x.conv].owner = x.session,
         titles' \subseteq Turn, overlapped' \subseteq Conv, crashes' \in 0..MaxCrashes,
         summaries' \in [Turn -> Seq(Status)]
  PROVE  TInv'
<1>1. task' \in [Turn -> TaskType] /\ task'[t] = x /\ \A u \in Turn \ {t} : task'[u] = task[u]
  BY DEF TInv
<1>2. ASSUME NEW u \in Turn \ {t}, task'[u].at \in Begun
      PROVE  /\ task'[u].session \in Session /\ task'[u].conv \in Conv
             /\ conv'[task'[u].conv].state # "none"
             /\ conv'[task'[u].conv].owner = task'[u].session
  BY <1>1, <1>2 DEF TInv, ConvStep
<1>. QED BY <1>1, <1>2 DEF TInv, ConvStep

LEMMA SameConv == TInv /\ UNCHANGED conv => ConvStep
  BY DEF TInv, ConvStep

LEMMA NoTaskType == NoTask \in TaskType
  BY ChatConstants DEF NoTask, TaskType, Status

LEMMA InitTInv == Init => TInv
<1> SUFFICES ASSUME Init PROVE TInv
  OBVIOUS
<1>1. NoConv \in ConvType
  BY DEF NoConv, ConvType
<1>2. NoTask \in TaskType
  BY NoTaskType
<1>3. NoTask.at \notin Pre \cup Begun /\ NoTask.start = 0 /\ NoTask.transcript = <<>>
  BY DEF NoTask, Pre, Begun, Active
<1>4. NoConv.turns = <<>> /\ NoConv.title = Nobody
  BY DEF NoConv
<1>5. 0 \in 0..MaxCrashes /\ <<>> \in Seq(Status)
  BY ChatConstants
<1>. QED BY <1>1, <1>2, <1>3, <1>4, <1>5 DEF Init, TInv

(* What one message adds to a transcript. *)
LEMMA MessageTypes ==
  ASSUME NEW t \in Turn, NEW r \in 0..MaxRounds
  PROVE  /\ Message("ask", t, 0) \in MessageType /\ Message("answer", t, 0) \in MessageType
         /\ Message("call", t, r) \in MessageType /\ Message("result", t, r) \in MessageType
  BY ChatConstants DEF Message, MessageType

LEMMA TaskFacts ==
  ASSUME TInv, NEW t \in Turn
  PROVE  /\ task[t] \in TaskType
         /\ task[t].start \in 0..Len(task[t].transcript)
         /\ task[t].at \in Pre => task[t].start >= 1
         /\ task[t].at \in Begun =>
              /\ task[t].session \in Session /\ task[t].conv \in Conv
              /\ conv[task[t].conv].state # "none"
              /\ conv[task[t].conv].owner = task[t].session
  BY DEF TInv

LEMMA AskTInv ==
  ASSUME TInv, NEW s \in Session, NEW t \in Turn, NEW c \in Conv, Ask(s, t, c)
  PROVE  TInv'
<1> DEFINE tr == Append(LastTranscript(c), Message("ask", t, 0))
           x == [NoTask EXCEPT !.at = "calling", !.session = s, !.conv = c,
                               !.transcript = tr, !.start = Len(tr)]
<1>1. LastTranscript(c) \in Seq(MessageType)
  BY LastTranscriptType
<1>2. tr \in Seq(MessageType) /\ Len(tr) \in Nat /\ Len(tr) >= 1
  BY <1>1, ChatConstants, MessageTypes DEF Message, MessageType
<1>3. /\ conv[c].state = "live" /\ conv[c].owner = s
      /\ task' = [task EXCEPT ![t] = x]
      /\ overlapped' \in {overlapped, overlapped \cup {c}}
      /\ UNCHANGED <<conv, titles, summaries, crashes>>
  BY Zenon DEF Ask, Found
<1>. HIDE DEF tr
<1>4. x \in TaskType /\ x.at = "calling" /\ x.session = s /\ x.conv = c
      /\ x.start = Len(tr) /\ x.transcript = tr
  BY <1>2, NoTaskType DEF TaskType, Active
<1>. HIDE DEF x
<1>5. /\ titles' \subseteq Turn /\ overlapped' \subseteq Conv /\ crashes' \in 0..MaxCrashes
      /\ summaries' \in [Turn -> Seq(Status)]
  BY <1>3 DEF TInv
<1>6. ConvStep /\ conv' = conv
  BY <1>3, SameConv
<1>7. x.start \in 0..Len(x.transcript) /\ x.start >= 1
  BY <1>2, <1>4
<1>8. /\ x.session \in Session /\ x.conv \in Conv
      /\ conv'[x.conv].state # "none" /\ conv'[x.conv].owner = x.session
  BY <1>3, <1>4, <1>6
<1>. QED BY <1>3, <1>4, <1>5, <1>6, <1>7, <1>8, TaskFrame

(* A turn goes on, its conversation and its question are the same. *)
LEMMA GoOnTInv ==
  ASSUME TInv, ConvStep, NEW t \in Turn, task[t].at \in Begun, NEW x \in TaskType,
         task' = [task EXCEPT ![t] = x], x.session = task[t].session, x.conv = task[t].conv,
         x.start \in 0..Len(x.transcript), x.at \in Pre => x.start >= 1,
         titles' \subseteq Turn, UNCHANGED <<overlapped, crashes>>,
         summaries' \in [Turn -> Seq(Status)]
  PROVE  TInv'
<1>1. /\ task[t].session \in Session /\ task[t].conv \in Conv
      /\ conv[task[t].conv].state # "none"
      /\ conv[task[t].conv].owner = task[t].session
  BY TaskFacts
<1>2. conv'[task[t].conv].state # "none" /\ conv'[task[t].conv].owner = task[t].session
  BY <1>1 DEF ConvStep
<1>3. overlapped' \subseteq Conv /\ crashes' \in 0..MaxCrashes
  BY DEF TInv
<1>. QED BY <1>1, <1>2, <1>3, TaskFrame

LEMMA OverFacts ==
  ASSUME NEW t \in Turn, task[t] \in TaskType, NEW at \in {"done", "lost"}
  PROVE  /\ Over(t, at) \in TaskType
         /\ Over(t, at).at = at /\ Over(t, at).session = task[t].session
         /\ Over(t, at).conv = task[t].conv /\ Over(t, at).transcript = <<>>
         /\ Over(t, at).start = 0 /\ Over(t, at).ran = task[t].ran
         /\ Over(t, at).logged = task[t].logged /\ Over(t, at).status = task[t].status
<1>1. NoTask \in TaskType /\ NoTask.start = 0 /\ NoTask.transcript = <<>>
  BY NoTaskType DEF NoTask
<1>. QED BY <1>1 DEF Over, TaskType

(* One line, or none where the log cannot take it, and the turn goes on alike. *)
LEMMA LogQueryIs ==
  ASSUME NEW t \in Turn, LogQuery(t)
  PROVE  /\ task[t].at = "logging" /\ UNCHANGED <<conv, titles, summaries, overlapped, crashes>>
         /\ \E n \in {0, 1} :
              /\ task' = [task EXCEPT ![t] = Told(t, n)]
              /\ unlogged' = IF n = 1 THEN unlogged ELSE unlogged \cup {t}
  BY DEF LogQuery, LinePerQuery

(* append_turn writes to a live conversation of the session, or not at all. *)
LEMMA StoredConv ==
  ASSUME TInv, NEW t \in Turn, task[t].at \in Pre, NEW tr \in Seq(MessageType),
         conv' = Stored(t, tr)
  PROVE  /\ ConvStep
         /\ LET c    == task[t].conv
                turn == [turn |-> t, own |-> From(tr, task[t].start), transcript |-> Cap(tr)]
            IN  /\ conv[c].state = "live" =>
                     /\ conv' = [conv EXCEPT ![c].turns = Append(@, turn)]
                     /\ conv'[c] = [conv[c] EXCEPT !.turns = Append(@, turn)]
                /\ conv[c].state # "live" => conv' = conv
                /\ \A d \in Conv \ {c} : conv'[d] = conv[d]
<1> DEFINE c    == task[t].conv
           turn == [turn |-> t, own |-> From(tr, task[t].start), transcript |-> Cap(tr)]
<1>1. /\ task[t].session \in Session /\ c \in Conv /\ conv[c].state # "none"
      /\ conv[c].owner = task[t].session
      /\ task[t].start \in Nat /\ task[t].start >= 1
  BY TaskFacts DEF Pre, Begun, Active, TaskType
<1>2. conv[c].state = "live" <=> Found(task[t].session, c)
  BY <1>1 DEF Found
<1>3. turn \in StoredType
  <2>1. From(tr, task[t].start) \in Seq(MessageType)
    BY <1>1 DEF From
  <2>2. Cap(tr) \in Seq(MessageType)
    BY TranscriptTypes
  <2>. QED BY <2>1, <2>2 DEF StoredType
<1>4. conv \in [Conv -> ConvType]
  BY DEF TInv
<1>. HIDE DEF turn, c
<1>5. conv[c].state = "live" => conv' = [conv EXCEPT ![c].turns = Append(@, turn)]
  BY <1>2 DEF Stored, c, turn
<1>6. conv[c].state # "live" => conv' = conv
  BY <1>2 DEF Stored, c
<1>7. conv[c].state = "live" => conv'[c] = [conv[c] EXCEPT !.turns = Append(@, turn)]
  BY <1>1, <1>4, <1>5
<1>8. \A d \in Conv \ {c} : conv'[d] = conv[d]
  BY <1>1, <1>4, <1>5, <1>6
<1>9. ConvStep
  <2>1. CASE conv[c].state # "live"
    BY <1>6, <2>1, SameConv
  <2>2. CASE conv[c].state = "live"
    <3>1. conv[c] \in ConvType
      BY <1>1, <1>4
    <3>2. Append(conv[c].turns, turn) \in Seq(StoredType)
      BY <1>3, <3>1 DEF ConvType
    <3>3. conv'[c] \in ConvType /\ conv'[c].state = "live" /\ conv'[c].owner = conv[c].owner
      BY <1>7, <2>2, <3>1, <3>2 DEF ConvType
    <3>4. conv' \in [Conv -> ConvType]
      BY <1>1, <1>4, <1>5, <2>2, <3>3
    <3>. QED BY <1>8, <3>3, <3>4 DEF TInv, ConvStep
  <2>. QED BY <2>1, <2>2
<1>. QED BY <1>5, <1>6, <1>7, <1>8, <1>9 DEF c, turn

LEMMA CreateTInv ==
  ASSUME TInv, NEW s \in Session, NEW c \in Conv, Create(s, c) \/ Delete(s, c)
  PROVE  TInv'
<1>1. UNCHANGED <<task, titles, summaries, overlapped, crashes>>
  BY DEF Create, Delete
<1>2. PICK x : /\ conv' = [conv EXCEPT ![c] = x] /\ x \in ConvType
               /\ x.turns = <<>> /\ x.title = Nobody
               /\ conv[c].state # "none" => x.state # "none" /\ x.owner = conv[c].owner
  <2>1. NoConv \in ConvType /\ NoConv.turns = <<>> /\ NoConv.title = Nobody
    BY DEF NoConv, ConvType
  <2>2. CASE Create(s, c)
    <3> DEFINE x == [NoConv EXCEPT !.state = "live", !.owner = s]
    <3>1. x \in ConvType /\ x.turns = <<>> /\ x.title = Nobody
      BY <2>1 DEF ConvType
    <3>2. conv' = [conv EXCEPT ![c] = x] /\ conv[c].state = "none"
      BY <2>2 DEF Create
    <3>. HIDE DEF x
    <3>. QED BY <3>1, <3>2
  <2>3. CASE Delete(s, c)
    <3> DEFINE x == [conv[c] EXCEPT !.state = "gone", !.title = Nobody, !.turns = <<>>]
    <3>1. x \in ConvType /\ x.turns = <<>> /\ x.title = Nobody
          /\ x.state = "gone" /\ x.owner = conv[c].owner
      <4>1. conv[c] \in ConvType /\ <<>> \in Seq(StoredType)
        BY DEF TInv
      <4>. QED BY <4>1 DEF ConvType
    <3>2. conv' = [conv EXCEPT ![c] = x]
      BY <2>3 DEF Delete
    <3>. HIDE DEF x
    <3>. QED BY <3>1, <3>2
  <2>. QED BY <2>2, <2>3
<1>3. conv' \in [Conv -> ConvType] /\ conv'[c] = x /\ \A d \in Conv \ {c} : conv'[d] = conv[d]
  BY <1>2 DEF TInv
<1>4. ConvStep
  BY <1>2, <1>3 DEF ConvStep, TInv
<1>. QED BY <1>1, <1>4 DEF ConvStep, TInv

LEMMA TurnTInv ==
  ASSUME TInv, AInv, NEW t \in Turn,
         \/ CallTools(t) \/ RunQueries(t) \/ LogQuery(t) \/ Answer(t) \/ Truncate(t)
         \/ StoreAnswer(t) \/ StoreQuestion(t) \/ Exception(t) \/ Leave(t) \/ Disconnect(t)
  PROVE  TInv'
<1>1. task[t] \in TaskType /\ task[t].start \in 0..Len(task[t].transcript)
      /\ (task[t].at \in Pre => task[t].start >= 1)
  BY TaskFacts
<1>2. /\ UNCHANGED <<titles, overlapped, crashes>> => titles' \subseteq Turn
      /\ UNCHANGED summaries => summaries' \in [Turn -> Seq(Status)]
  BY DEF TInv
<1>3. CASE CallTools(t)
  <2>1. PICK n \in 1..MaxQueries :
           task' = [task EXCEPT ![t] =
                      [task[t] EXCEPT !.at = "running", !.round = @ + 1, !.left = n,
                         !.transcript = Append(@, Message("call", t, task[t].round + 1))]]
    BY <1>3, Zenon DEF CallTools
  <2>2. /\ task[t].at = "calling" /\ task[t].round + 1 \in 0..MaxRounds
        /\ UNCHANGED <<conv, titles, summaries, overlapped, crashes>>
    <3>1. task[t].round \in 0..MaxRounds
      BY <1>1 DEF TaskType
    <3>2. /\ task[t].at = "calling" /\ task[t].round < MaxRounds
          /\ UNCHANGED <<conv, titles, summaries, overlapped, crashes>>
      BY <1>3 DEF CallTools
    <3>. QED BY <3>1, <3>2, ChatConstants
  <2>3. Message("call", t, task[t].round + 1) \in MessageType /\ n \in Nat
    BY <2>2, ChatConstants, MessageTypes
  <2>7. PICK r \in 0..MaxRounds, tr \in Seq(MessageType) :
          r = task[t].round + 1 /\ tr = Append(task[t].transcript, Message("call", t, r))
    <3>1. task[t].transcript \in Seq(MessageType)
      BY <1>1 DEF TaskType
    <3>2. Append(task[t].transcript, Message("call", t, task[t].round + 1)) \in Seq(MessageType)
      BY <2>3, <3>1
    <3>. QED BY <2>2, <3>2
  <2> DEFINE x == [task[t] EXCEPT !.at = "running", !.round = r, !.left = n, !.transcript = tr]
  <2>4. /\ x \in TaskType /\ x.at = "running" /\ x.session = task[t].session
        /\ x.conv = task[t].conv /\ x.start = task[t].start /\ x.transcript = tr
    BY <1>1, <2>3 DEF TaskType, Active
  <2>5. task' = [task EXCEPT ![t] = x]
    BY <2>1, <2>7
  <2>. HIDE DEF x
  <2>6. x.start \in 0..Len(x.transcript) /\ x.start >= 1
    BY <1>1, <2>2, <2>3, <2>4, <2>7 DEF Pre, TaskType
  <2>. QED BY <1>2, <2>2, <2>4, <2>5, <2>6, SameConv, GoOnTInv DEF Begun, Active
<1>4. CASE RunQueries(t)
  <2>3. PICK r \in Nat : r = task[t].ran + task[t].left
    BY <1>1 DEF TaskType
  <2> DEFINE x == [task[t] EXCEPT !.at = "logging", !.ran = r]
  <2>1. /\ task[t].at = "running" /\ task' = [task EXCEPT ![t] = x]
        /\ UNCHANGED <<conv, titles, summaries, overlapped, crashes>>
    BY <1>4, <2>3 DEF RunQueries
  <2>2. /\ x \in TaskType /\ x.session = task[t].session /\ x.at = "logging"
        /\ x.conv = task[t].conv /\ x.start = task[t].start /\ x.transcript = task[t].transcript
    BY <1>1 DEF TaskType, Active
  <2>. HIDE DEF x
  <2>. QED BY <1>1, <1>2, <2>1, <2>2, SameConv, GoOnTInv DEF Begun, Active, Pre
<1>5. CASE LogQuery(t)
  <2>8. task[t].left >= 1
    BY <1>5 DEF AInv, AuditOf, LogQuery
  <2>10. PICK n \in {0, 1} : task' = [task EXCEPT ![t] = Told(t, n)]
    BY <1>5, LogQueryIs
  <2>3. PICK l, g \in Nat : l = task[t].left - 1 /\ g = task[t].logged + n
    <3>1. task[t].left - 1 \in Nat /\ task[t].logged + n \in Nat
      BY <1>1, <2>8 DEF TaskType
    <3>. QED BY <3>1
  <2> DEFINE told == [task[t] EXCEPT !.logged = g, !.left = l]
             x == IF told.left > 0 THEN told
                  ELSE [told EXCEPT !.at = "calling",
                                    !.transcript = Append(@, Message("result", t, task[t].round))]
  <2>1. /\ task[t].at = "logging" /\ task' = [task EXCEPT ![t] = x]
        /\ UNCHANGED <<conv, titles, summaries, overlapped, crashes>>
    <3>1. task[t].at = "logging" /\ UNCHANGED <<conv, titles, summaries, overlapped, crashes>>
      BY <1>5, LogQueryIs
    <3>2. told = [task[t] EXCEPT !.logged = @ + n, !.left = @ - 1]
      BY <2>3, Zenon
    <3>3. Told(t, n) = x
      BY <3>2, Zenon DEF Told
    <3>. QED BY <2>10, <3>1, <3>3, Zenon
  <2>2. Message("result", t, task[t].round) \in MessageType
    BY <1>1, MessageTypes DEF TaskType
  <2>4. /\ told \in TaskType /\ told.session = task[t].session /\ told.at = "logging"
        /\ told.conv = task[t].conv /\ told.start = task[t].start
        /\ told.transcript = task[t].transcript
    BY <1>1, <2>1 DEF TaskType
  <2>. HIDE DEF told
  <2>7. PICK tr \in Seq(MessageType) :
          tr = Append(task[t].transcript, Message("result", t, task[t].round))
    <3>1. task[t].transcript \in Seq(MessageType)
      BY <1>1 DEF TaskType
    <3>2. Append(task[t].transcript, Message("result", t, task[t].round)) \in Seq(MessageType)
      BY <2>2, <3>1
    <3>. QED BY <3>2
  <2>9. x = IF told.left > 0 THEN told ELSE [told EXCEPT !.at = "calling", !.transcript = tr]
    BY <2>4, <2>7
  <2>. HIDE DEF x
  <2>5. /\ x \in TaskType /\ x.session = task[t].session /\ x.at \in {"logging", "calling"}
        /\ x.conv = task[t].conv /\ x.start = task[t].start
        /\ x.transcript \in {task[t].transcript,
                             Append(task[t].transcript, Message("result", t, task[t].round))}
    BY <2>4, <2>7, <2>9 DEF TaskType, Active
  <2>6. x.start \in 0..Len(x.transcript) /\ x.start >= 1
    BY <1>1, <2>1, <2>2, <2>5 DEF Pre, TaskType
  <2>. QED BY <1>2, <2>1, <2>5, <2>6, SameConv, GoOnTInv DEF Begun, Active
<1>6. CASE Answer(t)
  <2>1. PICK parsed \in BOOLEAN :
           task' = [task EXCEPT ![t] = [task[t] EXCEPT !.at = "answering", !.parsed = parsed,
                                          !.transcript = Append(@, Message("answer", t, 0))]]
    BY <1>6, Zenon DEF Answer
  <2>2. task[t].at = "calling" /\ UNCHANGED <<conv, titles, summaries, overlapped, crashes>>
    BY <1>6 DEF Answer
  <2>3. Message("answer", t, 0) \in MessageType
    BY ChatConstants, MessageTypes
  <2>7. PICK tr \in Seq(MessageType) : tr = Append(task[t].transcript, Message("answer", t, 0))
    <3>1. task[t].transcript \in Seq(MessageType)
      BY <1>1 DEF TaskType
    <3>2. Append(task[t].transcript, Message("answer", t, 0)) \in Seq(MessageType)
      BY <2>3, <3>1
    <3>. QED BY <3>2
  <2> DEFINE x == [task[t] EXCEPT !.at = "answering", !.parsed = parsed, !.transcript = tr]
  <2>4. /\ x \in TaskType /\ x.at = "answering" /\ x.session = task[t].session
        /\ x.conv = task[t].conv /\ x.start = task[t].start /\ x.transcript = tr
    BY <1>1 DEF TaskType, Active
  <2>5. task' = [task EXCEPT ![t] = x]
    BY <2>1, <2>7
  <2>. HIDE DEF x
  <2>6. x.start \in 0..Len(x.transcript) /\ x.start >= 1
    BY <1>1, <2>2, <2>3, <2>4, <2>7 DEF Pre, TaskType
  <2>. QED BY <1>2, <2>2, <2>4, <2>5, <2>6, SameConv, GoOnTInv DEF Begun, Active
<1>7. CASE Truncate(t)
  <2> DEFINE x == [task[t] EXCEPT !.at = "truncated", !.status = "error"]
  <2>1. /\ task[t].at = "calling" /\ task' = [task EXCEPT ![t] = x]
        /\ UNCHANGED <<conv, titles, summaries, overlapped, crashes>>
    BY <1>7 DEF Truncate
  <2>2. /\ x \in TaskType /\ x.session = task[t].session /\ x.at = "truncated"
        /\ x.conv = task[t].conv /\ x.start = task[t].start /\ x.transcript = task[t].transcript
    BY <1>1 DEF TaskType, Active, Status
  <2>. HIDE DEF x
  <2>. QED BY <1>1, <1>2, <2>1, <2>2, SameConv, GoOnTInv DEF Begun, Active, Pre
<1>8. ASSUME NEW st \in Status, ConvStep, task[t].at \in Begun,
             task' = [task EXCEPT ![t] = [task[t] EXCEPT !.at = "leaving", !.status = st]],
             titles' \subseteq Turn, UNCHANGED <<summaries, overlapped, crashes>>
      PROVE  TInv'
  <2> DEFINE x == [task[t] EXCEPT !.at = "leaving", !.status = st]
  <2>1. /\ x \in TaskType /\ x.session = task[t].session /\ x.at = "leaving"
        /\ x.conv = task[t].conv /\ x.start = task[t].start /\ x.transcript = task[t].transcript
    BY <1>1 DEF TaskType, Active
  <2>2. task' = [task EXCEPT ![t] = x]
    BY <1>8
  <2>. HIDE DEF x
  <2>. QED BY <1>1, <1>2, <1>8, <2>1, <2>2, GoOnTInv DEF Pre
<1>9. CASE StoreAnswer(t)
  <2>1. task[t].at = "answering" /\ conv' = Stored(t, task[t].transcript)
    BY <1>9 DEF StoreAnswer
  <2>2. ConvStep
    BY <1>1, <2>1, StoredConv DEF Pre, TaskType
  <2>3. PICK st \in Status :
          task' = [task EXCEPT ![t] = [task[t] EXCEPT !.at = "leaving", !.status = st]]
    BY <1>9 DEF StoreAnswer, Status
  <2>4. titles' \subseteq Turn /\ UNCHANGED <<summaries, overlapped, crashes>>
    BY <1>9 DEF StoreAnswer, TInv
  <2>. QED BY <1>8, <2>1, <2>2, <2>3, <2>4 DEF Begun, Active
<1>10. CASE StoreQuestion(t)
  <2> DEFINE tr == SubSeq(task[t].transcript, 1, task[t].start)
  <2>1. task[t].at = "truncated" /\ conv' = Stored(t, tr)
    BY <1>10 DEF StoreQuestion
  <2>2. tr \in Seq(MessageType)
    BY <1>1 DEF TaskType
  <2>. HIDE DEF tr
  <2>3. ConvStep
    BY <2>1, <2>2, StoredConv DEF Pre
  <2>4. task' = [task EXCEPT ![t] = [task[t] EXCEPT !.at = "leaving"]]
    BY <1>10 DEF StoreQuestion
  <2>5. [task[t] EXCEPT !.at = "leaving"] =
          [task[t] EXCEPT !.at = "leaving", !.status = task[t].status]
        /\ task[t].status \in Status
    BY <1>1 DEF TaskType
  <2>6. titles' \subseteq Turn /\ UNCHANGED <<summaries, overlapped, crashes>>
    BY <1>10 DEF StoreQuestion, TInv
  <2>. QED BY <1>8, <2>1, <2>3, <2>4, <2>5, <2>6 DEF Begun, Active
<1>11. CASE Exception(t)
  <2>1. /\ task[t].at \in Begun /\ UNCHANGED <<conv, titles, summaries, overlapped, crashes>>
        /\ task' = [task EXCEPT ![t] = [task[t] EXCEPT !.at = "leaving", !.status = "error"]]
    BY <1>11 DEF Exception, Begun, Active
  <2>. QED BY <1>2, <1>8, <2>1, SameConv DEF Status
<1>12. ASSUME NEW x \in TaskType, task[t].at \in Begun, task' = [task EXCEPT ![t] = x],
              x.at = "done", x.session = task[t].session, x.conv = task[t].conv,
              x.transcript = <<>>, x.start = 0, UNCHANGED <<conv, titles, overlapped, crashes>>,
              WriteSummary(t)
       PROVE  TInv'
  <2>1. summaries' \in [Turn -> Seq(Status)]
    <3>1. task[t].status \in Status
      BY <1>1 DEF TaskType
    <3>2. Append(summaries[t], task[t].status) \in Seq(Status)
      BY <3>1 DEF TInv
    <3>. QED BY <1>12, <3>2 DEF TInv, WriteSummary
  <2>2. x.start \in 0..Len(x.transcript) /\ x.at \notin Pre
    BY <1>12 DEF Pre
  <2>. QED BY <1>2, <1>12, <2>1, <2>2, SameConv, GoOnTInv
<1>13. CASE Leave(t)
  <2>1. /\ task[t].at \in Begun /\ task' = [task EXCEPT ![t] = Over(t, "done")]
        /\ UNCHANGED <<conv, titles, overlapped, crashes>>
        /\ WriteSummary(t)
    BY <1>13 DEF Leave, Begun, Active
  <2>. QED BY <1>1, <1>12, <2>1, OverFacts
<1>14. CASE Disconnect(t)
  <2>1. PICK k \in {0, task[t].left} :
          task' = [task EXCEPT ![t] = [Over(t, "done") EXCEPT !.ran = @ + k]]
    BY <1>14 DEF Disconnect
  <2>2. /\ task[t].at \in Begun /\ UNCHANGED <<conv, titles, overlapped, crashes>>
        /\ WriteSummary(t)
    BY <1>14 DEF Disconnect, Begun
  <2>3. PICK r \in Nat : r = Over(t, "done").ran + k
    BY <1>1, <2>1, OverFacts DEF TaskType
  <2> DEFINE x == [Over(t, "done") EXCEPT !.ran = r]
  <2>4. /\ x \in TaskType /\ x.at = "done" /\ x.session = task[t].session
        /\ x.conv = task[t].conv /\ x.transcript = <<>> /\ x.start = 0
    BY <1>1, OverFacts DEF TaskType
  <2>5. task' = [task EXCEPT ![t] = x]
    BY <2>1, <2>3
  <2>. HIDE DEF x
  <2>. QED BY <1>12, <2>2, <2>4, <2>5
<1>. QED BY <1>3, <1>4, <1>5, <1>6, <1>7, <1>9, <1>10, <1>11, <1>13, <1>14

LEMMA OtherTInv ==
  ASSUME TInv,
         \/ \E s \in Session, t \in Turn, c \in Conv : Refuse(s, t, c)
         \/ \E t \in Turn : Title(t)
         \/ Crash \/ UNCHANGED vars
  PROVE  TInv'
<1>1. CASE \E s \in Session, t \in Turn, c \in Conv : Refuse(s, t, c)
  <2>1. PICK t \in Turn : /\ task[t].at = "idle"
                          /\ task' = [task EXCEPT ![t] = [task[t] EXCEPT !.at = "refused"]]
                          /\ UNCHANGED <<conv, titles, summaries, overlapped, crashes>>
    BY <1>1 DEF Refuse
  <2> DEFINE x == [task[t] EXCEPT !.at = "refused"]
  <2>2. x \in TaskType /\ x.at = "refused" /\ x.start = task[t].start
        /\ x.transcript = task[t].transcript
    BY TaskFacts DEF TaskType
  <2>3. task' = [task EXCEPT ![t] = x]
    BY <2>1
  <2>. HIDE DEF x
  <2>4. x.start \in 0..Len(x.transcript)
    BY <2>2, TaskFacts
  <2>5. /\ titles' \subseteq Turn /\ overlapped' \subseteq Conv /\ crashes' \in 0..MaxCrashes
        /\ summaries' \in [Turn -> Seq(Status)]
    BY <2>1 DEF TInv
  <2>6. x.at \notin Pre \cup Begun
    BY <2>2 DEF Pre, Begun, Active
  <2>7. ConvStep
    BY <2>1, SameConv
  <2>. QED BY <2>2, <2>3, <2>4, <2>5, <2>6, <2>7, TaskFrame
<1>2. CASE \E t \in Turn : Title(t)
  <2>1. PICK t \in Turn :
          /\ titles' = titles \ {t} /\ UNCHANGED <<task, summaries, overlapped, crashes>>
          /\ \/ Found(task[t].session, task[t].conv) /\ conv' = [conv EXCEPT ![task[t].conv].title = t]
             \/ conv' = conv
    BY <1>2 DEF Title
  <2>2. CASE conv' = conv
    BY <2>1, <2>2 DEF TInv
  <2>3. CASE Found(task[t].session, task[t].conv) /\ conv' = [conv EXCEPT ![task[t].conv].title = t]
    <3>1. ASSUME NEW d \in Conv
          PROVE  /\ conv'[d] \in ConvType
                 /\ conv'[d].state # "live" => conv'[d].turns = <<>> /\ conv'[d].title = Nobody
                 /\ conv'[d].state = conv[d].state /\ conv'[d].owner = conv[d].owner
      <4>1. conv[d] \in ConvType /\ conv \in [Conv -> ConvType]
        BY DEF TInv
      <4>2. CASE d # task[t].conv
        BY <2>3, <4>1, <4>2 DEF TInv
      <4>3. CASE d = task[t].conv
        <5>1. conv'[d] = [conv[d] EXCEPT !.title = t] /\ conv[d].state = "live"
          BY <2>3, <4>1, <4>3 DEF Found
        <5>. QED BY <4>1, <5>1 DEF ConvType
      <4>. QED BY <4>2, <4>3
    <3>2. conv' \in [Conv -> ConvType]
      <4>1. conv' = [d \in Conv |-> conv'[d]]
        BY <2>3 DEF TInv
      <4>. QED BY <3>1, <4>1
    <3>. QED BY <2>1, <3>1, <3>2 DEF TInv
  <2>. QED BY <2>1, <2>2, <2>3
<1>3. CASE Crash
  <2>1. /\ task' = [t \in Turn |-> IF task[t].at \in Active THEN Over(t, "lost") ELSE task[t]]
        /\ titles' = {} /\ UNCHANGED <<conv, summaries, overlapped>>
        /\ crashes' \in 0..MaxCrashes
    BY <1>3, ChatConstants DEF Crash, TInv
  <2>2. ASSUME NEW t \in Turn
        PROVE  /\ task'[t] \in TaskType /\ task'[t].start \in 0..Len(task'[t].transcript)
               /\ task'[t].at \in Pre => task'[t].start >= 1
               /\ task'[t].at \in Begun =>
                    /\ task'[t].session \in Session /\ task'[t].conv \in Conv
                    /\ conv[task'[t].conv].state # "none"
                    /\ conv[task'[t].conv].owner = task'[t].session
    <3>1. CASE task[t].at \in Active
      <4>1. task'[t] = Over(t, "lost") /\ task[t].at \in Begun
        BY <2>1, <3>1 DEF Begun
      <4>2. "lost" \notin Pre
        BY DEF Pre
      <4>3. task'[t] \in TaskType /\ task'[t].start = 0 /\ task'[t].transcript = <<>>
            /\ task'[t].at = "lost" /\ task'[t].session = task[t].session
            /\ task'[t].conv = task[t].conv
        BY <4>1, OverFacts, TaskFacts
      <4>. QED BY <4>1, <4>2, <4>3, TaskFacts
    <3>2. CASE task[t].at \notin Active
      <4>1. task'[t] = task[t]
        BY <2>1, <3>2
      <4>. QED BY <4>1, TaskFacts
    <3>. QED BY <3>1, <3>2
  <2>3. task' \in [Turn -> TaskType]
    BY <2>1, <2>2
  <2>. QED BY <2>1, <2>2, <2>3 DEF TInv
<1>4. CASE UNCHANGED vars
  BY <1>4 DEF vars, TInv
<1>. QED BY <1>1, <1>2, <1>3, <1>4

LEMMA TInvStep == TInv /\ AInv /\ [Next]_vars => TInv'
<1> SUFFICES ASSUME TInv, AInv, [Next]_vars PROVE TInv'
  OBVIOUS
<1>1. CASE \E s \in Session, c \in Conv : Create(s, c) \/ Delete(s, c)
  BY <1>1, CreateTInv
<1>2. CASE \E s \in Session, t \in Turn, c \in Conv : Ask(s, t, c)
  BY <1>2, AskTInv
<1>. QED BY <1>1, <1>2, TurnTInv, OtherTInv DEF Next

(* ------------------------ audit lines and summaries --------------------- *)

LEMMA InitAInv == Init => AInv
<1>1. NoTask.logged = 0 /\ NoTask.ran = 0 /\ NoTask.at = "idle" /\ NoTask.status = "aborted"
  BY DEF NoTask
<1>. QED BY <1>1 DEF Init, AInv, AuditOf

LEMMA AuditFrame ==
  ASSUME TInv, AInv, NEW t \in Turn, NEW x, NEW y, task' = [task EXCEPT ![t] = x],
         summaries' = [summaries EXCEPT ![t] = y],
         unlogged' = unlogged \/ unlogged' = unlogged \cup {t}, AuditOf(t, x, y, unlogged')
  PROVE  AInv'
<1>1. /\ task'[t] = x /\ summaries'[t] = y
      /\ \A u \in Turn \ {t} : task'[u] = task[u] /\ summaries'[u] = summaries[u]
  BY DEF TInv
<1>2. ASSUME NEW u \in Turn  PROVE AuditOf(u, task'[u], summaries'[u], unlogged')
  <2>1. CASE u = t
    BY <1>1, <2>1
  <2>2. CASE u # t
    <3>1. u \in unlogged' <=> u \in unlogged
      BY <2>2
    <3>2. AuditOf(u, task'[u], summaries'[u], unlogged)
      BY <1>1, <2>2 DEF AInv
    <3>. QED BY <3>1, <3>2 DEF AuditOf
  <2>. QED BY <2>1, <2>2
<1>3. unlogged' \subseteq Turn
  BY DEF AInv
<1>. QED BY <1>2, <1>3 DEF AInv, AuditOf

LEMMA AInvStep == TInv /\ AInv /\ [Next]_vars => AInv'
<1> SUFFICES ASSUME TInv, AInv, [Next]_vars PROVE AInv'
  OBVIOUS
<1>1. ASSUME NEW t \in Turn
      PROVE  /\ AuditOf(t, task[t], summaries[t], unlogged) /\ task[t] \in TaskType
             /\ {task[t].logged, task[t].ran, task[t].left} \subseteq Nat
             /\ UNCHANGED summaries => summaries' = [summaries EXCEPT ![t] = summaries[t]]
  BY DEF AInv, TInv, TaskType
<1>2. CASE UNCHANGED <<task, summaries, unlogged>>
  BY <1>2 DEF AInv
<1>3. ASSUME NEW s \in Session, NEW t \in Turn, NEW c \in Conv, Ask(s, t, c) \/ Refuse(s, t, c)
      PROVE  AInv'
  <2>1. task[t].at = "idle" /\ summaries[t] = <<>> /\ UNCHANGED <<summaries, unlogged>>
    BY <1>1, <1>3 DEF AuditOf, Ask, Refuse
  <2>2. /\ NoTask.logged = 0 /\ NoTask.ran = 0 /\ NoTask.status = "aborted"
        /\ NoTask \in TaskType
    BY NoTaskType DEF NoTask
  <2>3. CASE Ask(s, t, c)
    <3>1. PICK tr : task' = [task EXCEPT ![t] = [NoTask EXCEPT !.at = "calling", !.session = s,
                                         !.conv = c, !.transcript = tr, !.start = Len(tr)]]
      BY <2>3, Zenon DEF Ask
    <3> DEFINE x == [NoTask EXCEPT !.at = "calling", !.session = s,
                                   !.conv = c, !.transcript = tr, !.start = Len(tr)]
    <3>2. x.at = "calling" /\ x.logged = 0 /\ x.ran = 0 /\ x.status = "aborted"
      BY <2>2 DEF TaskType
    <3>3. task' = [task EXCEPT ![t] = x]
      BY <3>1
    <3>. HIDE DEF x
    <3>4. AuditOf(t, x, summaries[t], unlogged)
      BY <2>1, <3>2 DEF AuditOf
    <3>. QED BY <1>1, <2>1, <3>3, <3>4, AuditFrame
  <2>4. CASE Refuse(s, t, c)
    <3> DEFINE x == [task[t] EXCEPT !.at = "refused"]
    <3>1. task' = [task EXCEPT ![t] = x]
      BY <2>4 DEF Refuse
    <3>2. x.at = "refused" /\ x.logged = task[t].logged /\ x.ran = task[t].ran
          /\ x.status = task[t].status
      BY <1>1 DEF TaskType
    <3>. HIDE DEF x
    <3>3. AuditOf(t, x, summaries[t], unlogged)
      BY <1>1, <2>1, <3>2 DEF AuditOf
    <3>. QED BY <1>1, <2>1, <3>1, <3>3, AuditFrame
  <2>. QED BY <1>3, <2>3, <2>4
<1>4. ASSUME NEW t \in Turn, CallTools(t) \/ RunQueries(t) \/ Answer(t) \/ Truncate(t) \/ StoreAnswer(t)
                             \/ StoreQuestion(t) \/ Exception(t)
      PROVE  AInv'
  <2>1. UNCHANGED <<summaries, unlogged>>
    BY <1>4 DEF CallTools, RunQueries, Answer, Truncate, StoreAnswer, StoreQuestion, Exception
  <2>2. PICK x : /\ task' = [task EXCEPT ![t] = x] /\ AuditOf(t, x, summaries[t], unlogged)
    <3>1. CASE CallTools(t)
      <4>1. PICK n, r, tr : n >= 1 /\ task' = [task EXCEPT ![t] = [task[t] EXCEPT !.at = "running",
                                        !.round = r, !.left = n, !.transcript = tr]]
        <5>1. PICK n \in 1..MaxQueries :
                task' = [task EXCEPT ![t] =
                          [task[t] EXCEPT !.at = "running", !.round = @ + 1, !.left = n,
                             !.transcript = Append(@, Message("call", t, task[t].round + 1))]]
          BY <3>1, Zenon DEF CallTools
        <5>2. n >= 1
          BY ChatConstants
        <5>. QED BY <5>1, <5>2
      <4> DEFINE x == [task[t] EXCEPT !.at = "running", !.round = r, !.left = n, !.transcript = tr]
      <4>2. x.at = "running" /\ x.logged = task[t].logged /\ x.ran = task[t].ran
            /\ x.status = task[t].status /\ x.left = n
        BY <1>1 DEF TaskType
      <4>3. task[t].at = "calling" /\ task' = [task EXCEPT ![t] = x]
        BY <3>1, <4>1 DEF CallTools
      <4>. HIDE DEF x
      <4>4. AuditOf(t, x, summaries[t], unlogged)
        BY <1>1, <4>1, <4>2, <4>3 DEF AuditOf
      <4>. QED BY <4>3, <4>4
    <3>2. CASE RunQueries(t)
      <4> DEFINE x == [task[t] EXCEPT !.at = "logging", !.ran = @ + task[t].left]
      <4>1. task[t].at = "running" /\ task' = [task EXCEPT ![t] = x]
        BY <3>2, Zenon DEF RunQueries
      <4>2. x.at = "logging" /\ x.logged = task[t].logged /\ x.ran = task[t].ran + task[t].left
            /\ x.left = task[t].left /\ x.status = task[t].status
        BY <1>1 DEF TaskType
      <4>. HIDE DEF x
      <4>4. AuditOf(t, x, summaries[t], unlogged)
        <5>1. /\ task[t].ran \in Nat /\ task[t].logged \in Nat /\ task[t].left \in Nat
              /\ task[t].logged <= task[t].ran /\ task[t].left >= 1
              /\ t \notin unlogged => task[t].logged = task[t].ran
              /\ task[t].status = "aborted" /\ summaries[t] = <<>>
          BY <1>1, <4>1 DEF AuditOf
        <5>. QED BY <4>2, <5>1 DEF AuditOf
      <4>. QED BY <4>1, <4>4
    <3>3. CASE Answer(t) \/ Truncate(t)
      <4>1. PICK at, p, tr, st :
              /\ task' = [task EXCEPT ![t] = [task[t] EXCEPT !.at = at, !.parsed = p,
                                                             !.transcript = tr, !.status = st]]
              /\ \/ at = "answering" /\ st = task[t].status
                 \/ at = "truncated" /\ st = "error"
        <5>1. CASE Answer(t)
          <6>1. PICK p, tr : task' = [task EXCEPT ![t] = [task[t] EXCEPT !.at = "answering",
                                                          !.parsed = p, !.transcript = tr]]
            BY <5>1, Zenon DEF Answer
          <6>2. [task[t] EXCEPT !.at = "answering", !.parsed = p, !.transcript = tr] =
                [task[t] EXCEPT !.at = "answering", !.parsed = p, !.transcript = tr,
                                !.status = task[t].status]
            BY <1>1 DEF TaskType
          <6>. QED BY <6>1, <6>2, Zenon
        <5>2. CASE Truncate(t)
          <6>1. task' = [task EXCEPT ![t] = [task[t] EXCEPT !.at = "truncated", !.status = "error"]]
            BY <5>2 DEF Truncate
          <6>2. [task[t] EXCEPT !.at = "truncated", !.status = "error"] =
                [task[t] EXCEPT !.at = "truncated", !.parsed = task[t].parsed,
                                !.transcript = task[t].transcript, !.status = "error"]
            BY <1>1 DEF TaskType
          <6>. QED BY <6>1, <6>2, Zenon
        <5>. QED BY <3>3, <5>1, <5>2
      <4> DEFINE x == [task[t] EXCEPT !.at = at, !.parsed = p, !.transcript = tr, !.status = st]
      <4>2. x.at = at /\ x.logged = task[t].logged /\ x.ran = task[t].ran /\ x.status = st
        BY <1>1 DEF TaskType
      <4>3. task[t].at = "calling" /\ task' = [task EXCEPT ![t] = x]
        BY <3>3, <4>1 DEF Answer, Truncate
      <4>. HIDE DEF x
      <4>4. AuditOf(t, x, summaries[t], unlogged)
        BY <1>1, <4>1, <4>2, <4>3 DEF AuditOf
      <4>. QED BY <4>3, <4>4
    <3>4. CASE StoreAnswer(t) \/ StoreQuestion(t) \/ Exception(t)
      <4>1. PICK st :
              /\ st \in {"ok", "error"}
              /\ task' = [task EXCEPT ![t] = [task[t] EXCEPT !.at = "leaving", !.status = st]]
        <5>1. CASE StoreAnswer(t) \/ Exception(t)
          BY <5>1 DEF StoreAnswer, Exception
        <5>2. CASE StoreQuestion(t)
          <6>1. task[t].status \in {"ok", "error"}
                /\ task' = [task EXCEPT ![t] = [task[t] EXCEPT !.at = "leaving"]]
            BY <1>1, <5>2 DEF StoreQuestion, AuditOf
          <6>2. [task[t] EXCEPT !.at = "leaving"] =
                [task[t] EXCEPT !.at = "leaving", !.status = task[t].status]
            BY <1>1 DEF TaskType
          <6>. QED BY <6>1, <6>2, Zenon
        <5>. QED BY <3>4, <5>1, <5>2
      <4> DEFINE x == [task[t] EXCEPT !.at = "leaving", !.status = st]
      <4>2. x.at = "leaving" /\ x.logged = task[t].logged /\ x.ran = task[t].ran /\ x.status = st
        BY <1>1 DEF TaskType
      <4>3. task[t].at \in {"calling", "answering", "truncated"} /\ task' = [task EXCEPT ![t] = x]
        BY <3>4, <4>1 DEF StoreAnswer, StoreQuestion, Exception
      <4>. HIDE DEF x
      <4>4. AuditOf(t, x, summaries[t], unlogged)
        BY <1>1, <4>1, <4>2, <4>3 DEF AuditOf
      <4>. QED BY <4>3, <4>4
    <3>. QED BY <1>4, <3>1, <3>2, <3>3, <3>4
  <2>. QED BY <1>1, <2>1, <2>2, AuditFrame
<1>5. ASSUME NEW t \in Turn, LogQuery(t)
      PROVE  AInv'
  <2>5. PICK n \in {0, 1} : /\ task' = [task EXCEPT ![t] = Told(t, n)]
                            /\ unlogged' = IF n = 1 THEN unlogged ELSE unlogged \cup {t}
    BY <1>5, LogQueryIs
  <2> DEFINE told == [task[t] EXCEPT !.logged = @ + n, !.left = @ - 1]
             x == IF told.left > 0 THEN told
                  ELSE [told EXCEPT !.at = "calling",
                                    !.transcript = Append(@, Message("result", t, task[t].round))]
  <2>1. /\ task[t].at = "logging" /\ task' = [task EXCEPT ![t] = x] /\ UNCHANGED summaries
    BY <1>5, <2>5, LogQueryIs, Zenon DEF Told
  <2>2. /\ told.at = "logging" /\ told.logged = task[t].logged + n /\ told.left = task[t].left - 1
        /\ told.ran = task[t].ran /\ told.status = task[t].status
        /\ told = [f \in DOMAIN task[t] |-> told[f]]
    BY <1>1, <2>1 DEF TaskType
  <2>3. /\ x.at = IF told.left > 0 THEN "logging" ELSE "calling"
        /\ x.logged = told.logged /\ x.left = told.left /\ x.ran = told.ran
        /\ x.status = told.status
    <3>1. DOMAIN task[t] = {"at", "session", "conv", "transcript", "start", "round", "left", "ran",
                            "logged", "parsed", "status"}
      BY <1>1 DEF TaskType
    <3>. HIDE DEF told
    <3>. QED BY <2>2, <3>1
  <2>. HIDE DEF x, told
  <2>4. AuditOf(t, x, summaries[t], unlogged')
    <3>1. /\ task[t].left \in Nat /\ task[t].left >= 1 /\ task[t].ran \in Nat
          /\ task[t].ran >= task[t].logged + task[t].left
          /\ t \notin unlogged => task[t].ran = task[t].logged + task[t].left
          /\ task[t].logged \in Nat /\ task[t].status = "aborted" /\ summaries[t] = <<>>
      BY <1>1, <2>1 DEF AuditOf
    <3>2. t \notin unlogged' => n = 1 /\ t \notin unlogged
      BY <2>5
    <3>3. /\ x.logged + x.left <= x.ran
          /\ t \notin unlogged' => x.ran = x.logged + x.left
          /\ x.left \in Nat /\ x.logged \in Nat
      BY <2>2, <2>3, <3>1, <3>2
    <3>4. CASE x.left > 0
      BY <2>2, <2>3, <3>1, <3>3, <3>4 DEF AuditOf
    <3>5. CASE x.left = 0
      BY <2>2, <2>3, <3>1, <3>3, <3>5 DEF AuditOf
    <3>. QED BY <3>3, <3>4, <3>5
  <2>. QED BY <1>1, <2>1, <2>4, <2>5, AuditFrame
<1>6. ASSUME NEW t \in Turn, Leave(t) \/ Disconnect(t)
      PROVE  AInv'
  <2>1. PICK k \in Nat :
          /\ task' = [task EXCEPT ![t] = [Over(t, "done") EXCEPT !.ran = @ + k]]
          /\ k # 0 => task[t].at = "running"
    <3>1. CASE Leave(t)
      <4>1. Over(t, "done") = [Over(t, "done") EXCEPT !.ran = @ + 0]
        BY <1>1, OverFacts DEF TaskType
      <4>. QED BY <3>1, <4>1 DEF Leave
    <3>2. CASE Disconnect(t)
      BY <1>1, <3>2 DEF Disconnect
    <3>. QED BY <1>6, <3>1, <3>2
  <2> DEFINE x == [Over(t, "done") EXCEPT !.ran = @ + k]
  <2>2. task[t].at \in Active /\ WriteSummary(t)
    BY <1>6 DEF Leave, Disconnect, Active
  <2>3. PICK y : /\ summaries' = [summaries EXCEPT ![t] = y]
                 /\ \/ y = <<task[t].status>> /\ unlogged' = unlogged
                    \/ y = <<>> /\ unlogged' = unlogged \cup {t}
    <3>1. summaries[t] = <<>>
      BY <1>1, <2>2 DEF AuditOf, Active
    <3>2. Append(<<>>, task[t].status) = <<task[t].status>>
      OBVIOUS
    <3>3. CASE /\ summaries' = [summaries EXCEPT ![t] = Append(@, task[t].status)]
               /\ UNCHANGED unlogged
      <4>1. summaries' = [summaries EXCEPT ![t] = <<task[t].status>>]
        BY <3>1, <3>2, <3>3
      <4>. QED BY <3>3, <4>1
    <3>4. CASE unlogged' = unlogged \cup {t} /\ UNCHANGED summaries
      <4>1. summaries' = [summaries EXCEPT ![t] = <<>>]
        BY <1>1, <3>1, <3>4
      <4>. QED BY <3>4, <4>1
    <3>. QED BY <2>2, <3>3, <3>4 DEF WriteSummary
  <2>4. /\ x.at = "done" /\ x.status = task[t].status /\ x.logged = task[t].logged
        /\ x.ran = task[t].ran + k
    BY <1>1, OverFacts DEF TaskType
  <2>5. task' = [task EXCEPT ![t] = x]
    BY <2>1
  <2>. HIDE DEF x
  <2>6. AuditOf(t, x, y, unlogged')
    <3>1. /\ task[t].ran \in Nat /\ task[t].logged \in Nat /\ task[t].logged <= task[t].ran
          /\ task[t].status # "aborted" => task[t].at # "running"
          /\ task[t].status # "aborted" /\ t \notin unlogged => task[t].logged = task[t].ran
      BY <1>1, <2>2 DEF AuditOf, Active
    <3>2. /\ x.logged <= x.ran
          /\ x.status # "aborted" /\ t \notin unlogged => x.logged = x.ran
      BY <2>1, <2>4, <3>1
    <3>. QED BY <2>3, <2>4, <3>2 DEF AuditOf
  <2>. QED BY <2>3, <2>5, <2>6, AuditFrame
<1>7. CASE Crash
  <2>1. /\ task' = [t \in Turn |-> IF task[t].at \in Active THEN Over(t, "lost") ELSE task[t]]
        /\ UNCHANGED <<summaries, unlogged>>
    BY <1>7 DEF Crash
  <2>2. ASSUME NEW t \in Turn PROVE AuditOf(t, task'[t], summaries[t], unlogged)
    <3>1. CASE task[t].at \in Active
      <4>1. task'[t] = Over(t, "lost")
        BY <2>1, <3>1
      <4>2. /\ task'[t].at = "lost" /\ task'[t].status = task[t].status
            /\ task'[t].logged = task[t].logged /\ task'[t].ran = task[t].ran
        BY <1>1, <4>1, OverFacts
      <4>. QED BY <1>1, <3>1, <4>2 DEF AuditOf, Active
    <3>2. CASE task[t].at \notin Active
      BY <1>1, <2>1, <3>2
    <3>. QED BY <3>1, <3>2
  <2>. QED BY <2>1, <2>2 DEF AInv, AuditOf
<1>8. CASE \/ \E s \in Session, c \in Conv : Create(s, c) \/ Delete(s, c)
           \/ \E t \in Turn : Title(t)
           \/ UNCHANGED vars
  BY <1>2, <1>8 DEF Create, Delete, Title, vars
<1>. QED BY <1>3, <1>4, <1>5, <1>6, <1>7, <1>8 DEF Next

LEMMA AlwaysAInv == Spec => [](TInv /\ AInv)
  BY InitTInv, InitAInv, TInvStep, AInvStep, PTL DEF Spec

(* Every variable keeps its shape, and only live conversations have turns and *)
(* titles (history.py: ON DELETE CASCADE).                                    *)
THEOREM TypeCorrect == Spec => []TypeOK
<1>1. TInv /\ AInv => TypeOK
  <2> SUFFICES ASSUME TInv, AInv PROVE TypeOK
    OBVIOUS
  <2>1. \A c \in Conv : conv[c] \in ConvType
    BY DEF TInv
  <2>2. \A t \in Turn : task[t] \in TaskType
    BY DEF TInv
  <2>3. \A c \in Conv : /\ conv[c].state \in {"none", "live", "gone"}
                        /\ conv[c].owner \in Session \cup {Nobody}
                        /\ conv[c].title \in Turn \cup {Nobody}
                        /\ conv[c].turns \in Seq(StoredType)
    BY <2>1 DEF ConvType
  <2>4. \A t \in Turn : /\ task[t].at \in Active \cup {"idle", "refused", "done", "lost"}
                        /\ task[t].transcript \in Seq(MessageType)
                        /\ {task[t].left, task[t].ran, task[t].logged} \subseteq Nat
                        /\ task[t].status \in {"aborted", "ok", "error"}
    BY <2>2 DEF TaskType, Status
  <2>. QED BY <2>3, <2>4 DEF TInv, AInv, TypeOK, Status
<1>. QED BY <1>1, AlwaysAInv, PTL

(* A turn that was not cut short has an audit line for each of its queries,   *)
(* unless a line of it could not be written, and no turn has one for a query  *)
(* that was not run, wherever it is abandoned (service.py, stream_turn(): the *)
(* line is written before the step event; AuditLog.append swallows failures). *)
THEOREM QueriesAudited == Spec => []AnswersAudited
<1>1. TInv /\ AInv => AnswersAudited
  <2> SUFFICES ASSUME AInv, NEW t \in Turn
               PROVE  /\ task[t].logged <= task[t].ran
                      /\ task[t].at = "done" /\ task[t].status # "aborted"
                         /\ t \notin unlogged => task[t].logged = task[t].ran
    BY DEF AnswersAudited
  <2>1. AuditOf(t, task[t], summaries[t], unlogged)
    BY DEF AInv
  <2>. QED BY <2>1 DEF AuditOf
<1>. QED BY <1>1, AlwaysAInv, PTL

(* ----------------------- what Claude is sent ----------------------------- *)

LEMMA TurnsFacts ==
  ASSUME TInv, NEW c \in Conv
  PROVE  /\ conv[c].turns \in Seq(StoredType) /\ Len(conv[c].turns) \in Nat
         /\ \A i \in 1..Len(conv[c].turns) :
              /\ conv[c].turns[i] \in StoredType /\ conv[c].turns[i].turn \in Turn
              /\ conv[c].turns[i].own \in Seq(MessageType)
              /\ conv[c].turns[i].transcript \in Seq(MessageType)
<1>1. conv[c].turns \in Seq(StoredType)
  BY DEF TInv, ConvType
<1>2. \A i \in 1..Len(conv[c].turns) : conv[c].turns[i] \in StoredType
  BY <1>1
<1>. QED BY <1>1, <1>2 DEF StoredType

(* get_transcript gives the last stored transcript as it is: none of them     *)
(* needs healing.                                                             *)
LEMMA LastTranscriptFacts ==
  ASSUME TInv, NEW c \in Conv, ConvWell(c)
  PROVE  /\ LastTranscript(c) = IF conv[c].turns = <<>> THEN <<>>
                                ELSE conv[c].turns[Len(conv[c].turns)].transcript
         /\ Well(LastTranscript(c)) /\ LastTranscript(c) \in Seq(MessageType)
         /\ conv[c].turns # <<>> => LastTranscript(c) # <<>>
<1>1. CASE conv[c].turns = <<>>
  <2>1. LastTranscript(c) = <<>>
    BY <1>1 DEF LastTranscript
  <2>. QED BY <1>1, <2>1 DEF Well
<1>2. CASE conv[c].turns # <<>>
  <2> DEFINE n == Len(conv[c].turns)
  <2>1. n \in 1..n /\ Last(conv[c].turns) = conv[c].turns[n]
    BY <1>2, TurnsFacts DEF Last
  <2>2. PICK tr : tr = conv[c].turns[n].transcript
    OBVIOUS
  <2>3. tr \in Seq(MessageType) /\ Well(tr) /\ tr # <<>>
    BY <2>1, <2>2, TurnsFacts DEF ConvWell
  <2>4. LastTranscript(c) = Sanitize(tr)
    BY <1>2, <2>1, <2>2 DEF LastTranscript
  <2>. QED BY <1>2, <2>2, <2>3, <2>4, SanitizeWell
<1>. QED BY <1>1, <1>2

(* Whatever is stored is well, and stays so when it is cut. *)
LEMMA CapWell ==
  ASSUME NEW tr \in Seq(MessageType), tr # <<>>, Well(tr)
  PROVE  Well(Cap(tr)) /\ Cap(tr) # <<>>
<1>1. PICK k \in 1..Len(tr) : Cap(tr) = From(tr, k) /\ IsAsk(tr[k])
  BY CapFacts
<1>. QED BY <1>1, FromWell

LEMMA OwnAppend ==
  ASSUME NEW t \in Turn, NEW k, NEW x, k.transcript \in Seq(MessageType), OwnPart(k, t),
         NEW m \in MessageType, ~ IsAsk(m), x.start = k.start,
         x.transcript = Append(k.transcript, m)
  PROVE  OwnPart(x, t)
<1>1. PICK tr \in Seq(MessageType), n \in Nat : tr = k.transcript /\ n = Len(tr)
  OBVIOUS
<1>2. /\ Len(Append(tr, m)) = n + 1 /\ Append(tr, m)[n + 1] = m
      /\ \A i \in 1..n : Append(tr, m)[i] = tr[i]
  BY <1>1
<1>3. PICK s \in 1..n : s = k.start
  BY <1>1 DEF OwnPart
<1>4. s \in 1..(n + 1) /\ x.transcript[s] = Message("ask", t, 0)
  BY <1>1, <1>2, <1>3 DEF OwnPart
<1>5. ASSUME NEW i \in (s + 1)..(n + 1) PROVE ~ IsAsk(x.transcript[i])
  <2>1. CASE i = n + 1
    BY <1>1, <1>2, <2>1
  <2>2. CASE i # n + 1
    <3>1. i \in 1..n /\ i \in (s + 1)..n
      BY <2>2
    <3>. QED BY <1>1, <1>2, <1>3, <3>1 DEF OwnPart
  <2>. QED BY <2>1, <2>2
<1>. QED BY <1>1, <1>2, <1>3, <1>4, <1>5 DEF OwnPart

LEMMA InitWInv == Init => WInv
<1> SUFFICES ASSUME Init PROVE WInv
  OBVIOUS
<1>1. \A c \in Conv : conv[c].turns = <<>>
  BY DEF Init, NoConv
<1>2. \A t \in Turn : task[t].at = "idle"
  BY DEF Init, NoTask
<1>3. \A c \in Conv : Len(conv[c].turns) = 0
  BY <1>1
<1>. QED BY <1>2, <1>3 DEF WInv, ConvWell, TurnWell, Pre

LEMMA WellFrame ==
  ASSUME TInv, WInv, NEW t \in Turn, NEW x, task' = [task EXCEPT ![t] = x], TurnWell(x, t),
         \A c \in Conv : ConvWell(c)'
  PROVE  WInv'
<1>1. task'[t] = x /\ \A u \in Turn \ {t} : task'[u] = task[u]
  BY DEF TInv
<1>2. \A u \in Turn : TurnWell(task'[u], u)
  BY <1>1 DEF WInv
<1>. QED BY <1>2 DEF WInv, TurnWell, OwnPart

LEMMA SameTurnsWell == WInv /\ (\A c \in Conv : conv'[c].turns \in {conv[c].turns, <<>>})
                         => \A c \in Conv : ConvWell(c)'
<1> SUFFICES ASSUME WInv, NEW c \in Conv, conv'[c].turns \in {conv[c].turns, <<>>}
             PROVE  ConvWell(c)'
  OBVIOUS
<1>1. CASE conv'[c].turns = <<>>
  <2>1. Len(conv'[c].turns) = 0
    BY <1>1
  <2>. QED BY <2>1 DEF ConvWell
<1>2. CASE conv'[c].turns = conv[c].turns
  BY <1>2 DEF ConvWell, WInv
<1>. QED BY <1>1, <1>2

LEMMA AskWInv ==
  ASSUME TInv, WInv, NEW s \in Session, NEW t \in Turn, NEW c \in Conv, Ask(s, t, c)
  PROVE  WInv'
<1>1. PICK w, m, tr : /\ w = LastTranscript(c) /\ m = Message("ask", t, 0) /\ tr = Append(w, m)
                      /\ task' = [task EXCEPT ![t] = [NoTask EXCEPT !.at = "calling",
                             !.session = s, !.conv = c, !.transcript = tr, !.start = Len(tr)]]
  BY Zenon DEF Ask
<1>2. w \in Seq(MessageType) /\ Well(w)
  BY <1>1, LastTranscriptFacts DEF WInv
<1>3. m \in MessageType /\ m.kind = "ask" /\ IsAsk(m)
  BY <1>1, ChatConstants DEF Message, MessageType, IsAsk
<1>4. Well(tr)
  BY <1>1, <1>2, <1>3, AppendWell
<1>5. Len(tr) \in Nat /\ Len(tr) >= 1 /\ tr[Len(tr)] = m /\ tr \in Seq(MessageType)
  BY <1>1, <1>2, <1>3
<1> DEFINE x == [NoTask EXCEPT !.at = "calling", !.session = s, !.conv = c, !.transcript = tr,
                               !.start = Len(tr)]
<1>6. x.at = "calling" /\ x.transcript = tr /\ x.start = Len(tr)
  BY NoTaskType DEF TaskType
<1>7. task' = [task EXCEPT ![t] = x]
  BY <1>1
<1>. HIDE DEF x
<1>8. TurnWell(x, t)
  <2>1. OwnPart(x, t)
    BY <1>1, <1>5, <1>6 DEF OwnPart
  <2>. QED BY <1>3, <1>4, <1>5, <1>6, <2>1 DEF TurnWell
<1>9. UNCHANGED conv
  BY DEF Ask
<1>. QED BY <1>7, <1>8, <1>9, SameTurnsWell, WellFrame

LEMMA TurnWInv ==
  ASSUME TInv, AInv, WInv, NEW t \in Turn,
         \/ CallTools(t) \/ RunQueries(t) \/ LogQuery(t) \/ Answer(t) \/ Truncate(t)
  PROVE  WInv'
<1>1. task[t] \in TaskType /\ TurnWell(task[t], t)
  BY TaskFacts DEF WInv
<1>2. UNCHANGED conv
  BY DEF CallTools, RunQueries, LogQuery, Answer, Truncate
<1>3. \A c \in Conv : ConvWell(c)'
  BY <1>2, SameTurnsWell
<1>4. task[t].transcript \in Seq(MessageType) /\ task[t].round \in 0..MaxRounds
  BY <1>1 DEF TaskType
<1>5. PICK x : task' = [task EXCEPT ![t] = x] /\ TurnWell(x, t)
  <2>1. CASE CallTools(t)
    <3>1. PICK n \in 1..MaxQueries :
            task' = [task EXCEPT ![t] =
                       [task[t] EXCEPT !.at = "running", !.round = @ + 1, !.left = n,
                          !.transcript = Append(@, Message("call", t, task[t].round + 1))]]
      BY <2>1, Zenon DEF CallTools
    <3>2. PICK m, r, tr : /\ r = task[t].round + 1 /\ m = Message("call", t, r)
                          /\ tr = Append(task[t].transcript, m)
      OBVIOUS
    <3> DEFINE x == [task[t] EXCEPT !.at = "running", !.round = r, !.left = n, !.transcript = tr]
    <3>3. x.at = "running" /\ x.round = r /\ x.transcript = tr /\ x.start = task[t].start
      BY <1>1 DEF TaskType
    <3>4. task' = [task EXCEPT ![t] = x]
      BY <3>1, <3>2
    <3>. HIDE DEF x
    <3>5. task[t].at = "calling" /\ r \in 0..MaxRounds
      <4>1. task[t].at = "calling" /\ task[t].round < MaxRounds
        BY <2>1 DEF CallTools
      <4>. QED BY <1>4, <3>2, <4>1, ChatConstants
    <3>6. m \in MessageType /\ ~ IsAsk(m)
      BY <3>2, <3>5 DEF Message, MessageType, IsAsk
    <3>7. OwnPart(task[t], t) /\ Well(task[t].transcript) /\ task[t].transcript # <<>>
      BY <1>1, <1>4, <3>5 DEF TurnWell, Pre, OwnPart
    <3>8. OwnPart(x, t)
      BY <1>4, <3>2, <3>3, <3>6, <3>7, OwnAppend
    <3>9. TurnWell(x, t)
      BY <1>4, <3>2, <3>3, <3>7, <3>8 DEF TurnWell
    <3>. QED BY <3>4, <3>9
  <2>2. CASE RunQueries(t)
    <3> DEFINE x == [task[t] EXCEPT !.at = "logging", !.ran = @ + task[t].left]
    <3>1. task[t].at = "running" /\ task' = [task EXCEPT ![t] = x]
      BY <2>2, Zenon DEF RunQueries
    <3>2. x.at = "logging" /\ x.round = task[t].round /\ x.start = task[t].start
          /\ x.transcript = task[t].transcript
      BY <1>1 DEF TaskType
    <3>. HIDE DEF x
    <3>3. TurnWell(x, t)
      BY <1>1, <3>1, <3>2 DEF TurnWell, Pre, OwnPart
    <3>. QED BY <3>1, <3>3
  <2>3. CASE LogQuery(t)
    <3>1. PICK m, tr : m = Message("result", t, task[t].round) /\ tr = Append(task[t].transcript, m)
      OBVIOUS
    <3>8. PICK n \in {0, 1} : task' = [task EXCEPT ![t] = Told(t, n)]
      BY <2>3, LogQueryIs
    <3> DEFINE told == [task[t] EXCEPT !.logged = @ + n, !.left = @ - 1]
               last == [told EXCEPT !.at = "calling", !.transcript = tr]
               x == IF told.left > 0 THEN told ELSE last
    <3>2. task[t].at = "logging"
      BY <2>3 DEF LogQuery
    <3>3. told.transcript = task[t].transcript
      BY <1>1 DEF TaskType
    <3>4. task' = [task EXCEPT ![t] = x]
      <4>. HIDE DEF told
      <4>1. task' = [task EXCEPT ![t] = IF told.left > 0 THEN told
                       ELSE [told EXCEPT !.at = "calling",
                               !.transcript = Append(@, Message("result", t, task[t].round))]]
        BY <3>8, Zenon DEF Told, told
      <4>. QED BY <3>1, <3>3, <4>1
    <3>5. /\ told.at = "logging" /\ told.round = task[t].round /\ told.start = task[t].start
          /\ last.at = "calling" /\ last.transcript = tr /\ last.start = task[t].start
      BY <1>1, <3>2 DEF TaskType
    <3>. HIDE DEF told, last
    <3>6. TurnWell(told, t)
      BY <1>1, <3>2, <3>3, <3>5 DEF TurnWell, Pre, OwnPart
    <3>7. TurnWell(last, t)
      <4>1. m \in MessageType /\ ~ IsAsk(m) /\ m.kind = "result"
        BY <1>4, <3>1 DEF Message, MessageType, IsAsk
      <4>2. OwnPart(task[t], t)
        BY <1>1, <3>2 DEF TurnWell, Pre
      <4>3. OwnPart(last, t)
        BY <1>4, <3>1, <3>5, <4>1, <4>2, OwnAppend
      <4>4. PICK w \in Seq(MessageType) :
              /\ Well(w) /\ w # <<>>
              /\ task[t].transcript = Append(w, Message("call", t, task[t].round))
        BY <1>1, <3>2 DEF TurnWell
      <4>5. Well(tr)
        BY <1>4, <3>1, <4>4, RoundWell
      <4>6. tr[Len(tr)] = m
        BY <1>4, <3>1, <4>1
      <4>. QED BY <3>5, <4>1, <4>3, <4>5, <4>6 DEF TurnWell
    <3>. QED BY <3>4, <3>6, <3>7
  <2>4. CASE Answer(t)
    <3>1. PICK p \in BOOLEAN :
            task' = [task EXCEPT ![t] = [task[t] EXCEPT !.at = "answering", !.parsed = p,
                                           !.transcript = Append(@, Message("answer", t, 0))]]
      BY <2>4, Zenon DEF Answer
    <3>2. PICK m, tr : m = Message("answer", t, 0) /\ tr = Append(task[t].transcript, m)
      OBVIOUS
    <3> DEFINE x == [task[t] EXCEPT !.at = "answering", !.parsed = p, !.transcript = tr]
    <3>3. x.at = "answering" /\ x.transcript = tr /\ x.start = task[t].start
      BY <1>1 DEF TaskType
    <3>4. task' = [task EXCEPT ![t] = x]
      BY <3>1, <3>2
    <3>. HIDE DEF x
    <3>5. task[t].at = "calling"
      BY <2>4 DEF Answer
    <3>6. m \in MessageType /\ ~ IsAsk(m) /\ m.kind = "answer"
      BY <3>2, ChatConstants DEF Message, MessageType, IsAsk
    <3>7. OwnPart(task[t], t) /\ Well(task[t].transcript) /\ task[t].transcript # <<>>
      BY <1>1, <1>4, <3>5 DEF TurnWell, Pre, OwnPart
    <3>8. OwnPart(x, t)
      BY <1>4, <3>2, <3>3, <3>6, <3>7, OwnAppend
    <3>9. Well(tr)
      BY <1>4, <3>2, <3>6, <3>7, AppendWell
    <3>. QED BY <3>3, <3>4, <3>8, <3>9 DEF TurnWell
  <2>5. CASE Truncate(t)
    <3> DEFINE x == [task[t] EXCEPT !.at = "truncated", !.status = "error"]
    <3>1. task[t].at = "calling" /\ task' = [task EXCEPT ![t] = x]
      BY <2>5 DEF Truncate
    <3>2. x.at = "truncated" /\ x.start = task[t].start /\ x.transcript = task[t].transcript
      BY <1>1 DEF TaskType
    <3>. HIDE DEF x
    <3>3. TurnWell(x, t)
      BY <1>1, <3>1, <3>2 DEF TurnWell, Pre, OwnPart
    <3>. QED BY <3>1, <3>3
  <2>. QED BY <2>1, <2>2, <2>3, <2>4, <2>5
<1>. QED BY <1>3, <1>5, WellFrame

(* What StoreAnswer and StoreQuestion write. *)
Written(t, tr) == [turn |-> t, own |-> From(tr, task[t].start), transcript |-> Cap(tr)]

(* The step of a turn that stores the transcript tr, if its conversation is   *)
(* there.                                                                     *)
Stores(t, tr) ==
  /\ task[t].at \in {"answering", "truncated"} /\ conv' = Stored(t, tr)
  /\ tr \in Seq(MessageType) /\ Well(tr) /\ task[t].start \in 1..Len(tr)
  /\ SubSeq(tr, 1, task[t].start - 1) = SubSeq(task[t].transcript, 1, task[t].start - 1)
  /\ tr[task[t].start] = Message("ask", t, 0)
  /\ \A i \in (task[t].start + 1)..Len(tr) : ~ IsAsk(tr[i])

LEMMA StoresFacts ==
  ASSUME TInv, WInv, NEW t \in Turn, StoreAnswer(t) \/ StoreQuestion(t)
  PROVE  \E tr : Stores(t, tr)
<1>1. /\ TurnWell(task[t], t) /\ task[t].transcript \in Seq(MessageType)
      /\ task[t].at \in {"answering", "truncated"}
  BY TaskFacts DEF WInv, TaskType, StoreAnswer, StoreQuestion
<1>2. /\ Well(task[t].transcript) /\ OwnPart(task[t], t)
  BY <1>1 DEF TurnWell, Pre
<1>3. CASE StoreAnswer(t)
  <2>1. conv' = Stored(t, task[t].transcript)
    BY <1>3 DEF StoreAnswer
  <2>2. Stores(t, task[t].transcript)
    BY <1>1, <1>2, <2>1 DEF Stores, OwnPart
  <2>. QED BY <2>2
<1>4. CASE StoreQuestion(t)
  <2>1. PICK full, n, tr :
          full = task[t].transcript /\ n = task[t].start /\ tr = SubSeq(full, 1, n)
    OBVIOUS
  <2>7. full \in Seq(MessageType) /\ n \in 1..Len(full)
    BY <1>1, <1>2, <2>1 DEF OwnPart
  <2>2. conv' = Stored(t, tr)
    BY <1>4, <2>1 DEF StoreQuestion
  <2>3. full[n] = Message("ask", t, 0) /\ IsAsk(full[n]) /\ Well(full)
    BY <1>2, <2>1 DEF OwnPart, Message, IsAsk
  <2>4. Well(tr)
    BY <2>7, <2>1, <2>3, PrefixWell
  <2>5. /\ tr \in Seq(MessageType) /\ Len(tr) = n /\ tr[n] = full[n]
        /\ SubSeq(tr, 1, n - 1) = SubSeq(full, 1, n - 1)
    BY <2>7, <2>1
  <2>6. Stores(t, tr)
    BY <1>1, <2>7, <2>1, <2>2, <2>3, <2>4, <2>5 DEF Stores
  <2>. QED BY <2>6
<1>. QED BY <1>3, <1>4

(* A stored turn comes after the others. *)
LEMMA StoresTurns ==
  ASSUME TInv, NEW t \in Turn, NEW tr, Stores(t, tr)
  PROVE  /\ task[t].conv \in Conv
         /\ conv[task[t].conv].state = "live" =>
              conv'[task[t].conv].turns = Append(conv[task[t].conv].turns, Written(t, tr))
         /\ conv[task[t].conv].state # "live" => conv' = conv
         /\ \A d \in Conv \ {task[t].conv} : conv'[d] = conv[d]
         /\ \A d \in Conv : /\ conv'[d].state = conv[d].state /\ conv'[d].owner = conv[d].owner
                            /\ conv'[d].title = conv[d].title
         /\ Written(t, tr) \in StoredType
<1> DEFINE c == task[t].conv
<1>1. task[t].at \in Pre /\ c \in Conv
  BY TaskFacts DEF Stores, Pre, Begun, Active
<1>2. /\ conv[c].state = "live" => conv'[c] = [conv[c] EXCEPT !.turns = Append(@, Written(t, tr))]
      /\ conv[c].state # "live" => conv' = conv
      /\ \A d \in Conv \ {c} : conv'[d] = conv[d]
  BY <1>1, StoredConv DEF Stores, Written
<1>3. conv[c] \in ConvType
  BY <1>1 DEF TInv
<1>. HIDE DEF c
<1>4. conv[c].state = "live" => /\ conv'[c].turns = Append(conv[c].turns, Written(t, tr))
                                /\ conv'[c].state = conv[c].state /\ conv'[c].owner = conv[c].owner
                                /\ conv'[c].title = conv[c].title
  BY <1>2, <1>3 DEF ConvType
<1>5. Written(t, tr) \in StoredType
  <2>1. tr \in Seq(MessageType) /\ task[t].start \in 1..Len(tr)
    BY DEF Stores
  <2>. QED BY <2>1, FromFacts, TranscriptTypes DEF Written, StoredType
<1>. QED BY <1>1, <1>2, <1>4, <1>5 DEF c

LEMMA StoreWInv ==
  ASSUME TInv, WInv, NEW t \in Turn, StoreAnswer(t) \/ StoreQuestion(t)
  PROVE  WInv'
<1>1. PICK tr : Stores(t, tr)
  BY StoresFacts
<1>2. tr \in Seq(MessageType) /\ Well(tr) /\ tr # <<>>
  BY <1>1 DEF Stores
<1>3. ASSUME NEW c \in Conv PROVE ConvWell(c)'
  <2>1. CASE conv'[c].turns = conv[c].turns
    BY <2>1 DEF ConvWell, WInv
  <2>2. CASE conv'[c].turns = Append(conv[c].turns, Written(t, tr))
    <3>1. PICK n \in Nat : n = Len(conv[c].turns)
      BY TurnsFacts
    <3>2. /\ Len(conv'[c].turns) = n + 1 /\ conv'[c].turns[n + 1] = Written(t, tr)
          /\ \A i \in 1..n : conv'[c].turns[i] = conv[c].turns[i]
      BY <2>2, <3>1, TurnsFacts
    <3>3. Well(Written(t, tr).transcript) /\ Written(t, tr).transcript # <<>>
      BY <1>2, CapWell DEF Written
    <3>4. ASSUME NEW i \in 1..(n + 1)
          PROVE  Well(conv'[c].turns[i].transcript) /\ conv'[c].turns[i].transcript # <<>>
      <4>1. CASE i = n + 1
        BY <3>2, <3>3, <4>1
      <4>2. CASE i \in 1..n
        BY <3>1, <3>2, <4>2 DEF WInv, ConvWell
      <4>. QED BY <3>1, <4>1, <4>2
    <3>. QED BY <3>2, <3>4 DEF ConvWell, Well
  <2>. QED BY <1>1, <2>1, <2>2, StoresTurns
<1>4. PICK st : task' = [task EXCEPT ![t] = [task[t] EXCEPT !.at = "leaving", !.status = st]]
  <2>1. CASE StoreAnswer(t)
    BY <2>1 DEF StoreAnswer
  <2>2. CASE StoreQuestion(t)
    <3>1. task' = [task EXCEPT ![t] = [task[t] EXCEPT !.at = "leaving"]]
      BY <2>2 DEF StoreQuestion
    <3>2. [task[t] EXCEPT !.at = "leaving"] =
          [task[t] EXCEPT !.at = "leaving", !.status = task[t].status]
      BY TaskFacts DEF TaskType
    <3>. QED BY <3>1, <3>2, Zenon
  <2>. QED BY <2>1, <2>2
<1> DEFINE x == [task[t] EXCEPT !.at = "leaving", !.status = st]
<1>5. x.at = "leaving" /\ task' = [task EXCEPT ![t] = x]
  BY <1>4, TaskFacts DEF TaskType
<1>. HIDE DEF x
<1>6. TurnWell(x, t)
  BY <1>5 DEF TurnWell, Pre
<1>. QED BY <1>3, <1>5, <1>6, WellFrame

(* A turn that is over, or that never began, has no transcript. *)
LEMMA OtherWInv ==
  ASSUME TInv, WInv, NEW t \in Turn,
         \/ \E s \in Session, c \in Conv : Refuse(s, t, c)
         \/ Exception(t) \/ Leave(t) \/ Disconnect(t) \/ Title(t)
  PROVE  WInv'
<1>1. task[t] \in TaskType
  BY TaskFacts
<1>2. CASE Title(t)
  <2>1. UNCHANGED task
    BY <1>2 DEF Title
  <2>2. \A c \in Conv : conv'[c].turns = conv[c].turns
    <3>1. \/ conv' = conv
          \/ conv' = [conv EXCEPT ![task[t].conv].title = t]
      BY <1>2 DEF Title
    <3>2. ASSUME NEW c \in Conv PROVE [conv[c] EXCEPT !.title = t].turns = conv[c].turns
      BY DEF TInv, ConvType
    <3>3. conv \in [Conv -> ConvType]
      BY DEF TInv
    <3>. QED BY <3>1, <3>2, <3>3
  <2>3. \A c \in Conv : ConvWell(c)'
    BY <2>2, SameTurnsWell
  <2>. QED BY <2>1, <2>3 DEF WInv, TurnWell, OwnPart
<1>3. CASE ~ Title(t)
  <2>1. UNCHANGED conv
    BY <1>3 DEF Refuse, Exception, Leave, Disconnect
  <2>2. \A c \in Conv : ConvWell(c)'
    BY <2>1, SameTurnsWell
  <2>3. PICK x : task' = [task EXCEPT ![t] = x] /\ x.at \in {"refused", "leaving", "done"}
    <3>1. CASE \E s \in Session, c \in Conv : Refuse(s, t, c)
      <4>1. task' = [task EXCEPT ![t] = [task[t] EXCEPT !.at = "refused"]]
        BY <3>1 DEF Refuse
      <4>2. [task[t] EXCEPT !.at = "refused"].at = "refused"
        BY <1>1 DEF TaskType
      <4>. QED BY <4>1, <4>2
    <3>2. CASE Exception(t)
      <4>1. task' = [task EXCEPT ![t] = [task[t] EXCEPT !.at = "leaving", !.status = "error"]]
        BY <3>2 DEF Exception
      <4>2. [task[t] EXCEPT !.at = "leaving", !.status = "error"].at = "leaving"
        BY <1>1 DEF TaskType
      <4>. QED BY <4>1, <4>2
    <3>3. CASE Leave(t)
      BY <3>3, <1>1, OverFacts DEF Leave
    <3>4. CASE Disconnect(t)
      <4>1. PICK n : task' = [task EXCEPT ![t] = [Over(t, "done") EXCEPT !.ran = @ + n]]
        BY <3>4, Zenon DEF Disconnect
      <4>2. [Over(t, "done") EXCEPT !.ran = @ + n].at = "done"
        BY <1>1, OverFacts DEF TaskType
      <4>. QED BY <4>1, <4>2
    <3>. QED BY <1>3, <3>1, <3>2, <3>3, <3>4
  <2>4. TurnWell(x, t)
    BY <2>3 DEF TurnWell, Pre
  <2>. QED BY <2>2, <2>3, <2>4, WellFrame
<1>. QED BY <1>2, <1>3

LEMMA WInvStep == TInv /\ AInv /\ WInv /\ [Next]_vars => WInv'
<1> SUFFICES ASSUME TInv, AInv, WInv, [Next]_vars PROVE WInv'
  OBVIOUS
<1>1. ASSUME NEW s \in Session, NEW c \in Conv, Create(s, c) \/ Delete(s, c) PROVE WInv'
  <2>1. UNCHANGED task
    BY <1>1 DEF Create, Delete
  <2>2. ASSUME NEW d \in Conv PROVE conv'[d].turns \in {conv[d].turns, <<>>}
    <3>1. CASE Create(s, c)
      BY <3>1, <2>2 DEF Create, TInv, NoConv
    <3>2. CASE Delete(s, c)
      BY <3>2, <2>2 DEF Delete, TInv, ConvType
    <3>. QED BY <1>1, <3>1, <3>2
  <2>3. \A d \in Conv : ConvWell(d)'
    BY <2>2, SameTurnsWell
  <2>. QED BY <2>1, <2>3 DEF WInv, TurnWell, OwnPart
<1>2. CASE Crash
  <2>1. UNCHANGED conv
    BY <1>2 DEF Crash
  <2>2. \A c \in Conv : ConvWell(c)'
    BY <2>1, SameTurnsWell
  <2>3. ASSUME NEW t \in Turn PROVE TurnWell(task'[t], t)
    <3>1. task'[t] = IF task[t].at \in Active THEN Over(t, "lost") ELSE task[t]
      BY <1>2 DEF Crash
    <3>2. CASE task[t].at \in Active
      <4>1. task'[t].at = "lost"
        BY <3>1, <3>2, TaskFacts, OverFacts
      <4>. QED BY <4>1 DEF TurnWell, Pre
    <3>3. CASE task[t].at \notin Active
      BY <3>1, <3>3 DEF WInv
    <3>. QED BY <3>2, <3>3
  <2>. QED BY <2>2, <2>3 DEF WInv, TurnWell, OwnPart
<1>3. CASE UNCHANGED vars
  <2>1. UNCHANGED <<conv, task>>
    BY <1>3 DEF vars
  <2>2. \A c \in Conv : ConvWell(c)'
    BY <2>1, SameTurnsWell
  <2>. QED BY <2>1, <2>2 DEF WInv, TurnWell, OwnPart
<1>. QED BY <1>1, <1>2, <1>3, AskWInv, TurnWInv, StoreWInv, OtherWInv DEF Next

LEMMA AlwaysWInv == Spec => [](TInv /\ AInv /\ WInv)
<1>1. Init => TInv /\ AInv /\ WInv
  BY InitTInv, InitAInv, InitWInv
<1>2. TInv /\ AInv /\ WInv /\ [Next]_vars => (TInv /\ AInv /\ WInv)'
  BY TInvStep, AInvStep, WInvStep
<1>. QED BY <1>1, <1>2, PTL DEF Spec

(* Claude is always sent what has the form of a conversation: whatever was    *)
(* stored, cut at the cap, healed and compressed (service.py stream_turn,     *)
(* _compress_past_turns_for_claude), it begins with a question, ends with a   *)
(* user message, and every tool call is followed by its own results.  The     *)
(* texts are not modelled: a stored answer without one would still be refused.*)
THEOREM RequestsCorrect == Spec => []RequestsValid
<1>1. TInv /\ WInv => RequestsValid
  <2> SUFFICES ASSUME TInv, WInv, NEW t \in Turn, task[t].at = "calling"
               PROVE  ValidRequest(Compress(task[t].transcript))
    BY DEF RequestsValid, ValidRequest
  <2>1. task[t].transcript \in Seq(MessageType) /\ TurnWell(task[t], t)
    BY TaskFacts DEF TaskType, WInv
  <2>2. /\ Well(task[t].transcript) /\ task[t].transcript # <<>>
        /\ task[t].transcript[Len(task[t].transcript)].kind \in {"ask", "result"}
    BY <2>1 DEF TurnWell, Pre, OwnPart
  <2>. QED BY <2>1, <2>2, CompressWell
<1>. QED BY <1>1, AlwaysWInv, PTL

(* --------------------------- what is stored ------------------------------ *)

(* How a step may move turn t: not at all, before its end, or to its end.     *)
Moves(t) ==
  \/ task'[t] = task[t]
  \/ /\ task[t].at \notin {"leaving", "done", "lost"}
     /\ task'[t].at = "truncated" => task'[t].status = "error"
     /\ ~ (task'[t].at \in {"leaving", "done"} /\ task'[t].status = "ok")
  \/ /\ task[t].at = "leaving" /\ task'[t].at \in {"done", "lost"}
     /\ task'[t].conv = task[t].conv /\ task'[t].status = task[t].status
     /\ task'[t].at = "done" \/ t \notin titles'

(* How a step that stores nothing may change conversation c. *)
Settles(c) ==
  /\ conv'[c].title \in {conv[c].title, Nobody} \/ StoredFirst(conv'[c].title, c)
  /\ \/ /\ conv'[c].turns = conv[c].turns
        /\ conv'[c].state = "live" => conv[c].state \in {"live", "none"}
     \/ conv'[c].turns = <<>> /\ conv'[c].title = Nobody /\ conv'[c].state # "live"

LEMMA ConvHoldsStep ==
  ASSUME TInv, HInv, \A t \in Turn : Moves(t), NEW c \in Conv, Settles(c)
  PROVE  ConvHolds(c)'
<1>1. CASE conv'[c].turns = <<>> /\ conv'[c].title = Nobody
  <2>1. Len(conv'[c].turns) = 0
    BY <1>1
  <2>. QED BY <1>1, <2>1 DEF ConvHolds
<1>2. CASE conv'[c].turns = conv[c].turns
  <2>1. ConvHolds(c)
    BY DEF HInv
  <2>2. ASSUME NEW i \in 1..Len(conv[c].turns), NEW u, u = conv[c].turns[i].turn
        PROVE  /\ task'[u].conv = c /\ task'[u].at \in {"leaving", "done", "lost"}
               /\ task'[u].status # "aborted"
    <3>1. u \in Turn /\ Moves(u)
      BY <2>2, TurnsFacts
    <3>. QED BY <2>1, <2>2, <3>1 DEF ConvHolds, Moves
  <2>3. conv'[c].title # Nobody => StoredFirst(conv'[c].title, c)
    BY <2>1 DEF ConvHolds, Settles
  <2>4. StoredFirst(conv'[c].title, c) => StoredFirst(conv[c].title, c)'
    BY <1>2 DEF StoredFirst
  <2>. QED BY <1>2, <2>1, <2>2, <2>3, <2>4 DEF ConvHolds
<1>. QED BY <1>1, <1>2 DEF Settles

LEMMA TurnHeldStep ==
  ASSUME TInv, HInv, titles' \subseteq titles, NEW t \in Turn, Moves(t),
         \A c \in Conv : Settles(c)
  PROVE  TurnHeld(t)'
<1>1. TurnHeld(t)
  BY DEF HInv
<1>2. CASE task[t].at \notin {"leaving", "done", "lost"}
  <2>1. t \notin titles'
    BY <1>1, <1>2 DEF TurnHeld
  <2>2. CASE task'[t] = task[t]
    BY <1>1, <1>2, <2>1, <2>2 DEF TurnHeld
  <2>. QED BY <1>2, <2>1, <2>2 DEF TurnHeld, Moves
<1>3. CASE task[t].at \in {"leaving", "done", "lost"}
  <2>1. /\ task'[t].conv = task[t].conv /\ task'[t].status = task[t].status
        /\ task'[t].at \in {"leaving", "done", "lost"}
        /\ task'[t].at \in {"leaving", "done"} => task[t].at \in {"leaving", "done"}
        /\ t \in titles' => task'[t].at \in {"leaving", "done"}
    BY <1>1, <1>3 DEF Moves, TurnHeld
  <2>2. PICK c : c = task[t].conv
    OBVIOUS
  <2>3. c \in Conv /\ conv[c].state # "none"
    BY <1>3, <2>2, TaskFacts DEF Begun, Active
  <2>4. conv'[c].state = "live" => conv[c].state = "live" /\ conv'[c].turns = conv[c].turns
    BY <2>3 DEF Settles
  <2>5. conv'[c].state = "live" => /\ Keeps(c, t) => Keeps(c, t)'
                                   /\ StoredFirst(t, c) => StoredFirst(t, c)'
    BY <2>4 DEF Keeps, StoredFirst
  <2>6. task'[t].conv = c
    BY <2>1, <2>2
  <2>7. /\ task'[t].at \in {"leaving", "done"} /\ task'[t].status = "ok"
             /\ conv'[c].state = "live" => Keeps(c, t)'
        /\ t \in titles' => /\ task'[t].at \in {"leaving", "done"}
                            /\ conv'[c].state = "live" => StoredFirst(t, c)'
    BY <1>1, <2>1, <2>2, <2>4, <2>5 DEF TurnHeld
  <2>. QED BY <2>1, <2>6, <2>7 DEF TurnHeld, Keeps, StoredFirst
<1>. QED BY <1>2, <1>3

LEMMA HoldsFrame ==
  ASSUME TInv, HInv, titles' \subseteq titles, \A t \in Turn : Moves(t),
         \A c \in Conv : Settles(c)
  PROVE  HInv'
BY ConvHoldsStep, TurnHeldStep DEF HInv

LEMMA SameConvSettles == UNCHANGED conv => \A c \in Conv : Settles(c)
<1> SUFFICES ASSUME UNCHANGED conv, NEW c \in Conv PROVE Settles(c)
  OBVIOUS
<1>1. conv'[c] = conv[c]
  OBVIOUS
<1>. QED BY <1>1 DEF Settles

LEMMA TurnHInv ==
  ASSUME TInv, AInv, HInv, NEW t \in Turn,
         \/ \E s \in Session, c \in Conv : Ask(s, t, c) \/ Refuse(s, t, c)
         \/ CallTools(t) \/ RunQueries(t) \/ LogQuery(t) \/ Answer(t) \/ Truncate(t)
         \/ Exception(t) \/ Leave(t) \/ Disconnect(t)
  PROVE  HInv'
<1>1. UNCHANGED <<conv, titles>>
  BY DEF Ask, Refuse, CallTools, RunQueries, LogQuery, Answer, Truncate, Exception, Leave,
         Disconnect
<1>2. task[t] \in TaskType /\ TurnHeld(t) /\ AuditOf(t, task[t], summaries[t], unlogged)
  BY TaskFacts DEF HInv, AInv
<1>3. PICK x : task' = [task EXCEPT ![t] = x]
               /\ \/ /\ task[t].at \notin {"leaving", "done", "lost"}
                     /\ x.at = "truncated" => x.status = "error"
                     /\ ~ (x.at \in {"leaving", "done"} /\ x.status = "ok")
                  \/ /\ task[t].at = "leaving" /\ x.at = "done"
                     /\ x.conv = task[t].conv /\ x.status = task[t].status
  <2>1. CASE \E s \in Session, c \in Conv : Ask(s, t, c)
    <3>1. PICK s, c, tr : /\ task[t].at = "idle"
                          /\ task' = [task EXCEPT ![t] = [NoTask EXCEPT !.at = "calling",
                             !.session = s, !.conv = c, !.transcript = tr, !.start = Len(tr)]]
      BY <2>1, Zenon DEF Ask
    <3>2. [NoTask EXCEPT !.at = "calling", !.session = s, !.conv = c, !.transcript = tr,
                         !.start = Len(tr)].at = "calling"
      BY DEF NoTask
    <3>. QED BY <3>1, <3>2
  <2>2. CASE \E s \in Session, c \in Conv : Refuse(s, t, c)
    <3>1. task[t].at = "idle" /\ task' = [task EXCEPT ![t] = [task[t] EXCEPT !.at = "refused"]]
      BY <2>2 DEF Refuse
    <3>2. [task[t] EXCEPT !.at = "refused"].at = "refused"
      BY <1>2 DEF TaskType
    <3>. QED BY <3>1, <3>2
  <2>3. CASE CallTools(t)
    <3>1. PICK n, m :
            task' = [task EXCEPT ![t] = [task[t] EXCEPT !.at = "running", !.round = @ + 1,
                                           !.left = n, !.transcript = Append(@, m)]]
      BY <2>3, Zenon DEF CallTools
    <3>2. [task[t] EXCEPT !.at = "running", !.round = @ + 1, !.left = n,
                          !.transcript = Append(@, m)].at = "running"
      BY <1>2 DEF TaskType
    <3>3. task[t].at = "calling"
      BY <2>3 DEF CallTools
    <3>. QED BY <3>1, <3>2, <3>3
  <2>4. CASE RunQueries(t)
    <3>1. task[t].at = "running" /\ task' = [task EXCEPT ![t] = [task[t] EXCEPT !.at = "logging",
                                                !.ran = @ + task[t].left]]
      BY <2>4, Zenon DEF RunQueries
    <3>2. [task[t] EXCEPT !.at = "logging", !.ran = @ + task[t].left].at = "logging"
      BY <1>2 DEF TaskType
    <3>. QED BY <3>1, <3>2
  <2>5. CASE LogQuery(t)
    <3>5. PICK n \in {0, 1} : task' = [task EXCEPT ![t] = Told(t, n)]
      BY <2>5, LogQueryIs
    <3> DEFINE told == [task[t] EXCEPT !.logged = @ + n, !.left = @ - 1]
               tr == Append(told.transcript, Message("result", t, task[t].round))
               last == [told EXCEPT !.at = "calling", !.transcript = tr]
    <3>1. task[t].at = "logging"
      BY <2>5 DEF LogQuery
    <3>2. task' = [task EXCEPT ![t] = IF told.left > 0 THEN told
                     ELSE [told EXCEPT !.at = "calling",
                             !.transcript = Append(@, Message("result", t, task[t].round))]]
      BY <3>5, Zenon DEF Told
    <3>3. told.at = "logging" /\ last.at = "calling"
      BY <1>2, <3>1 DEF TaskType
    <3>4. \/ task' = [task EXCEPT ![t] = told]
          \/ task' = [task EXCEPT ![t] = last]
      BY <3>2
    <3>. HIDE DEF told, last
    <3>. QED BY <3>1, <3>3, <3>4
  <2>6. CASE Answer(t)
    <3>1. PICK p, m : task' = [task EXCEPT ![t] = [task[t] EXCEPT !.at = "answering",
                                                     !.parsed = p, !.transcript = Append(@, m)]]
      BY <2>6, Zenon DEF Answer
    <3>2. [task[t] EXCEPT !.at = "answering", !.parsed = p,
                          !.transcript = Append(@, m)].at = "answering"
      BY <1>2 DEF TaskType
    <3>3. task[t].at = "calling"
      BY <2>6 DEF Answer
    <3>. QED BY <3>1, <3>2, <3>3
  <2>7. CASE Truncate(t) \/ Exception(t)
    <3>1. PICK at \in {"truncated", "leaving"} :
            task' = [task EXCEPT ![t] = [task[t] EXCEPT !.at = at, !.status = "error"]]
      BY <2>7, Zenon DEF Truncate, Exception
    <3>2. [task[t] EXCEPT !.at = at, !.status = "error"].status = "error"
      BY <1>2 DEF TaskType
    <3>3. task[t].at \in {"calling", "answering", "truncated"}
      BY <2>7 DEF Truncate, Exception
    <3>. QED BY <3>1, <3>2, <3>3
  <2>8. CASE Leave(t)
    BY <1>2, <2>8, OverFacts DEF Leave
  <2>9. CASE Disconnect(t)
    <3>1. PICK n : task' = [task EXCEPT ![t] = [Over(t, "done") EXCEPT !.ran = @ + n]]
      BY <2>9, Zenon DEF Disconnect
    <3> DEFINE x == [Over(t, "done") EXCEPT !.ran = @ + n]
    <3>2. x.at = "done" /\ x.conv = task[t].conv /\ x.status = task[t].status
      BY <1>2, OverFacts DEF TaskType
    <3>3. task[t].at \in Active /\ task' = [task EXCEPT ![t] = x]
      BY <2>9, <3>1 DEF Disconnect
    <3>. HIDE DEF x
    <3>4. task[t].at = "leaving" \/ task[t].status \in {"aborted", "error"}
      BY <1>2, <3>3 DEF TurnHeld, AuditOf, Active
    <3>. QED BY <3>2, <3>3, <3>4 DEF Active
  <2>. QED BY <2>1, <2>2, <2>3, <2>4, <2>5, <2>6, <2>7, <2>8, <2>9
<1>4. task'[t] = x /\ \A u \in Turn \ {t} : task'[u] = task[u]
  BY <1>3 DEF TInv
<1>5. \A u \in Turn : Moves(u)
  BY <1>3, <1>4 DEF Moves
<1>. QED BY <1>1, <1>5, SameConvSettles, HoldsFrame

(* Creating, deleting and titling conversations. *)
LEMMA EditsSettle ==
  ASSUME TInv, HInv,
         \/ \E s \in Session, c \in Conv : Create(s, c) \/ Delete(s, c)
         \/ \E t \in Turn : Title(t)
  PROVE  /\ \A c \in Conv : Settles(c)
         /\ UNCHANGED <<task, overlapped>> /\ titles' \subseteq titles
<1>1. CASE \E s \in Session, c \in Conv : Create(s, c) \/ Delete(s, c)
  <2>1. PICK s \in Session, c \in Conv : Create(s, c) \/ Delete(s, c)
    BY <1>1
  <2>2. UNCHANGED <<task, titles, overlapped>>
    BY <2>1 DEF Create, Delete
  <2>3. ASSUME NEW d \in Conv PROVE Settles(d)
    <3>1. CASE Create(s, c)
      <4>1. conv[c].state = "none" /\ conv[c].turns = <<>>
        BY <3>1 DEF Create, TInv
      <4>2. conv'[c].turns = <<>> /\ conv'[c].title = Nobody /\ conv'[c].state = "live"
        BY <3>1 DEF Create, TInv, NoConv
      <4>3. d # c => conv'[d] = conv[d]
        BY <3>1 DEF Create, TInv
      <4>. QED BY <4>1, <4>2, <4>3 DEF Settles
    <3>2. CASE Delete(s, c)
      <4>1. conv'[c].turns = <<>> /\ conv'[c].title = Nobody /\ conv'[c].state # "live"
        BY <3>2 DEF Delete, TInv, ConvType
      <4>2. d # c => conv'[d] = conv[d]
        BY <3>2 DEF Delete, TInv
      <4>. QED BY <4>1, <4>2 DEF Settles
    <3>. QED BY <2>1, <3>1, <3>2
  <2>. QED BY <2>2, <2>3
<1>2. CASE \E t \in Turn : Title(t)
  <2>1. PICK t \in Turn : Title(t)
    BY <1>2
  <2>2. UNCHANGED <<task, overlapped>> /\ titles' \subseteq titles /\ t \in titles
    BY <2>1 DEF Title
  <2>3. PICK c : c = task[t].conv
    OBVIOUS
  <2>4. c \in Conv /\ TurnHeld(t)
    BY <2>2, <2>3, TaskFacts DEF HInv, TurnHeld, Begun, Active
  <2>5. CASE conv' = conv
    BY <2>2, <2>5, SameConvSettles
  <2>6. CASE conv' # conv
    <3>1. conv[c].state = "live" /\ conv' = [conv EXCEPT ![c].title = t]
      BY <2>1, <2>3, <2>6 DEF Title, Found
    <3>2. /\ conv'[c].title = t /\ conv'[c].turns = conv[c].turns
          /\ conv'[c].state = conv[c].state
      BY <2>4, <3>1 DEF TInv, ConvType
    <3>3. \A d \in Conv \ {c} : conv'[d] = conv[d]
      BY <3>1 DEF TInv
    <3>4. StoredFirst(t, c)
      BY <2>2, <2>3, <2>4, <3>1 DEF TurnHeld
    <3>5. \A d \in Conv : Settles(d)
      BY <3>1, <3>2, <3>3, <3>4 DEF Settles
    <3>. QED BY <2>2, <3>5
  <2>. QED BY <2>5, <2>6
<1>. QED BY <1>1, <1>2

LEMMA OtherHInv ==
  ASSUME TInv, HInv,
         \/ \E s \in Session, c \in Conv : Create(s, c) \/ Delete(s, c)
         \/ \E t \in Turn : Title(t)
         \/ Crash \/ UNCHANGED vars
  PROVE  HInv'
<1>1. CASE \/ \E s \in Session, c \in Conv : Create(s, c) \/ Delete(s, c)
           \/ \E t \in Turn : Title(t)
  BY <1>1, EditsSettle, HoldsFrame DEF Moves
<1>2. CASE Crash
  <2>1. UNCHANGED conv /\ titles' = {}
    BY <1>2 DEF Crash
  <2>2. ASSUME NEW t \in Turn PROVE Moves(t)
    <3>1. task'[t] = IF task[t].at \in Active THEN Over(t, "lost") ELSE task[t]
      BY <1>2 DEF Crash
    <3>2. CASE task[t].at \in Active
      <4>1. /\ task'[t].at = "lost" /\ task'[t].conv = task[t].conv
            /\ task'[t].status = task[t].status
        BY <3>1, <3>2, TaskFacts, OverFacts
      <4>. QED BY <2>1, <3>2, <4>1 DEF Moves, Active
    <3>3. CASE task[t].at \notin Active
      BY <3>1, <3>3 DEF Moves
    <3>. QED BY <3>2, <3>3
  <2>. QED BY <2>1, <2>2, SameConvSettles, HoldsFrame
<1>3. CASE UNCHANGED vars
  <2>1. UNCHANGED <<conv, task, titles>>
    BY <1>3 DEF vars
  <2>. QED BY <2>1, SameConvSettles, HoldsFrame DEF Moves
<1>. QED BY <1>1, <1>2, <1>3

(* The first turn of a conversation is stored from its own question on. *)
LEMMA FirstCap ==
  ASSUME NEW t \in Turn, NEW tr, Stores(t, tr), task[t].start = 1
  PROVE  IsAsk(Cap(tr)[1]) /\ Cap(tr)[1].turn = t
<1>1. /\ tr \in Seq(MessageType) /\ Well(tr) /\ tr # <<>> /\ tr[1] = Message("ask", t, 0)
      /\ \A i \in 2..Len(tr) : ~ IsAsk(tr[i])
  BY DEF Stores
<1>2. PICK k \in 1..Len(tr) : Cap(tr) = From(tr, k) /\ IsAsk(tr[k])
  BY <1>1, CapFacts
<1>3. k = 1
  BY <1>1, <1>2
<1>4. Cap(tr)[1] = tr[1]
  BY <1>1, <1>2, <1>3, FromFacts
<1>. QED BY <1>1, <1>4 DEF Message, IsAsk

LEMMA StoreHInv ==
  ASSUME TInv, AInv, HInv, NEW t \in Turn, StoreAnswer(t) \/ StoreQuestion(t),
         NEW tr, Stores(t, tr)
  PROVE  HInv'
<1>13. PICK c : c = task[t].conv
  OBVIOUS
<1>1. task[t] \in TaskType /\ task[t].at \in {"answering", "truncated"} /\ c \in Conv
  BY <1>13, TaskFacts, StoresTurns DEF Stores
<1>2. PICK st \in {"ok", "error"} :
        task' = [task EXCEPT ![t] = [task[t] EXCEPT !.at = "leaving", !.status = st]]
  <2>1. CASE StoreAnswer(t)
    BY <2>1 DEF StoreAnswer
  <2>2. CASE StoreQuestion(t)
    <3>1. task' = [task EXCEPT ![t] = [task[t] EXCEPT !.at = "leaving"]]
          /\ task[t].status = "error"
      BY <2>2 DEF StoreQuestion, HInv, TurnHeld
    <3>2. [task[t] EXCEPT !.at = "leaving"] =
          [task[t] EXCEPT !.at = "leaving", !.status = "error"]
      BY <1>1, <3>1 DEF TaskType
    <3>. QED BY <3>1, <3>2, Zenon
  <2>. QED BY <2>1, <2>2
<1>3. /\ task'[t].at = "leaving" /\ task'[t].status = st /\ task'[t].conv = c
      /\ \A u \in Turn \ {t} : task'[u] = task[u]
  BY <1>13, <1>1, <1>2 DEF TInv, TaskType
<1>4. t \notin titles /\ \A d \in Conv : \A i \in 1..Len(conv[d].turns) : conv[d].turns[i].turn # t
  BY <1>1 DEF HInv, TurnHeld, ConvHolds
<1>5. titles' \in {titles, titles \cup {t}} /\ (titles' # titles => task[t].start = 1)
  BY DEF StoreAnswer, StoreQuestion
<1> DEFINE w == Written(t, tr)
<1>6. w.turn = t /\ w.transcript = Cap(tr)
  BY DEF Written
<1>7. conv[c].state = "live" =>
        /\ Len(conv'[c].turns) = Len(conv[c].turns) + 1
        /\ conv'[c].turns[Len(conv[c].turns) + 1] = w
        /\ \A i \in 1..Len(conv[c].turns) : conv'[c].turns[i] = conv[c].turns[i]
  BY <1>13, <1>1, StoresTurns, TurnsFacts
<1>8. \A d \in Conv : /\ conv'[d].state = conv[d].state /\ conv'[d].title = conv[d].title
                      /\ d # c => conv'[d] = conv[d]
                      /\ d = c /\ conv[c].state # "live" => conv'[d] = conv[d]
  BY <1>13, StoresTurns
<1>. HIDE DEF w
<1>9. ASSUME NEW d \in Conv, NEW u
      PROVE  (Keeps(d, u) => Keeps(d, u)') /\ (StoredFirst(u, d) => StoredFirst(u, d)')
  <2>1. CASE conv'[d] = conv[d]
    BY <2>1 DEF Keeps, StoredFirst
  <2>2. CASE conv'[d] # conv[d]
    <3>1. PICK n \in Nat : n = Len(conv[d].turns)
      BY TurnsFacts
    <3>2. Len(conv'[d].turns) = n + 1 /\ \A i \in 1..n : conv'[d].turns[i] = conv[d].turns[i]
      BY <1>7, <1>8, <2>2, <3>1
    <3>3. \A i \in 1..n : i \in 1..(n + 1)
      OBVIOUS
    <3>. QED BY <3>1, <3>2, <3>3 DEF Keeps, StoredFirst
  <2>. QED BY <2>1, <2>2
<1>10. ASSUME conv[c].state = "live"
       PROVE  Keeps(c, t)' /\ (task[t].start = 1 => StoredFirst(t, c)')
  <2>1. PICK n \in Nat : n = Len(conv[c].turns)
    BY <1>1, TurnsFacts
  <2>2. Len(conv'[c].turns) = n + 1 /\ conv'[c].turns[n + 1] = w /\ n + 1 \in 1..(n + 1)
    BY <1>7, <1>10, <2>1
  <2>3. Keeps(c, t)'
    BY <1>6, <2>2 DEF Keeps
  <2>4. task[t].start = 1 => StoredFirst(t, c)'
    BY <1>6, <2>2, FirstCap DEF StoredFirst
  <2>. QED BY <2>3, <2>4
<1>11. ASSUME NEW d \in Conv PROVE ConvHolds(d)'
  <2>1. ConvHolds(d)
    BY DEF HInv
  <2>2. \A i \in 1..Len(conv[d].turns) : LET u == conv[d].turns[i].turn
           IN  /\ task'[u].conv = d /\ task'[u].at \in {"leaving", "done", "lost"}
               /\ task'[u].status # "aborted"
    <3> SUFFICES ASSUME NEW i \in 1..Len(conv[d].turns), NEW u, u = conv[d].turns[i].turn
                 PROVE  /\ task'[u].conv = d /\ task'[u].at \in {"leaving", "done", "lost"}
                        /\ task'[u].status # "aborted"
      OBVIOUS
    <3>1. u \in Turn /\ u # t
      BY <1>4, TurnsFacts
    <3>2. task'[u] = task[u]
      BY <1>3, <3>1
    <3>. QED BY <2>1, <3>2 DEF ConvHolds
  <2>4. conv[d].title # Nobody => StoredFirst(conv[d].title, d)'
    BY <1>8, <1>9, <2>1 DEF ConvHolds
  <2>5. CASE conv'[d] = conv[d]
    BY <2>1, <2>2, <2>5, <2>4, <1>8 DEF ConvHolds, StoredFirst
  <2>6. CASE conv'[d] # conv[d]
    <3>1. PICK n \in Nat : n = Len(conv[d].turns)
      BY TurnsFacts
    <3>2. /\ Len(conv'[d].turns) = n + 1 /\ conv'[d].turns[n + 1] = w /\ d = c
          /\ \A i \in 1..n : conv'[d].turns[i] = conv[d].turns[i]
      BY <1>7, <1>8, <2>6, <3>1
    <3>3. \A i \in 1..(n + 1) : i = n + 1 \/ i \in 1..n
      OBVIOUS
    <3>4. ASSUME NEW i \in 1..(n + 1), NEW u, u = conv'[d].turns[i].turn
          PROVE  /\ task'[u].conv = d /\ task'[u].at \in {"leaving", "done", "lost"}
                 /\ task'[u].status # "aborted"
      <4>1. CASE i = n + 1
        BY <1>2, <1>3, <1>6, <3>2, <3>4, <4>1
      <4>2. CASE i \in 1..n
        BY <2>2, <3>1, <3>2, <3>4, <4>2
      <4>. QED BY <3>3, <4>1, <4>2
    <3>5. ASSUME NEW i \in 1..(n + 1), NEW j \in 1..(n + 1),
                 conv'[d].turns[i].turn = conv'[d].turns[j].turn
          PROVE  i = j
      <4>1. \A k \in 1..n : conv'[d].turns[k].turn # t
        BY <1>4, <3>1, <3>2
      <4>2. conv'[d].turns[n + 1].turn = t
        BY <1>6, <3>2
      <4>3. i \in 1..n /\ j \in 1..n => i = j
        BY <2>1, <3>1, <3>2, <3>5 DEF ConvHolds
      <4>. QED BY <3>3, <3>5, <4>1, <4>2, <4>3
    <3>. QED BY <3>2, <3>4, <3>5, <2>4, <1>8 DEF ConvHolds, StoredFirst
  <2>. QED BY <2>5, <2>6
<1>12. ASSUME NEW u \in Turn PROVE TurnHeld(u)'
  <2>1. TurnHeld(u)
    BY DEF HInv
  <2>2. CASE u = t
    <3>1. conv'[c].state = conv[c].state /\ task'[t].conv = c
      BY <1>1, <1>3, <1>8
    <3>2. conv[c].state = "live" => Keeps(c, t)' /\ (t \in titles' => StoredFirst(t, c)')
      BY <1>4, <1>5, <1>10
    <3>. QED BY <1>3, <2>2, <3>1, <3>2 DEF TurnHeld, Keeps, StoredFirst
  <2>3. CASE u # t
    <3>1. task'[u] = task[u] /\ (u \in titles' => u \in titles)
      BY <1>3, <1>5, <2>3
    <3>2. CASE task[u].at \in {"leaving", "done"}
      <4>1. PICK d : d = task[u].conv
        OBVIOUS
      <4>2. d \in Conv /\ conv'[d].state = conv[d].state
        BY <1>8, <3>2, <4>1, TaskFacts DEF Begun, Active
      <4>3. (Keeps(d, u) => Keeps(d, u)') /\ (StoredFirst(u, d) => StoredFirst(u, d)')
        BY <1>9, <4>2
      <4>4. task'[u].conv = d
        BY <3>1, <4>1
      <4>5. /\ task'[u].status = "ok" /\ conv'[d].state = "live" => Keeps(d, u)'
            /\ u \in titles' /\ conv'[d].state = "live" => StoredFirst(u, d)'
        BY <2>1, <3>1, <3>2, <4>1, <4>2, <4>3 DEF TurnHeld
      <4>. QED BY <3>1, <3>2, <4>4, <4>5 DEF TurnHeld, Keeps, StoredFirst
    <3>3. CASE task[u].at \notin {"leaving", "done"}
      BY <2>1, <3>1, <3>3 DEF TurnHeld
    <3>. QED BY <3>2, <3>3
  <2>. QED BY <2>2, <2>3
<1>. QED BY <1>11, <1>12 DEF HInv

LEMMA InitHInv == Init => HInv
<1> SUFFICES ASSUME Init PROVE HInv
  OBVIOUS
<1>1. \A c \in Conv : conv[c].turns = <<>> /\ conv[c].title = Nobody
  BY DEF Init, NoConv
<1>2. \A c \in Conv : Len(conv[c].turns) = 0
  BY <1>1
<1>3. \A t \in Turn : task[t].at = "idle" /\ t \notin titles
  BY DEF Init, NoTask
<1>. QED BY <1>1, <1>2, <1>3 DEF HInv, ConvHolds, TurnHeld

LEMMA HInvStep == TInv /\ AInv /\ WInv /\ HInv /\ [Next]_vars => HInv'
<1> SUFFICES ASSUME TInv, AInv, WInv, HInv, [Next]_vars PROVE HInv'
  OBVIOUS
<1>1. ASSUME NEW t \in Turn, StoreAnswer(t) \/ StoreQuestion(t) PROVE HInv'
  BY <1>1, StoresFacts, StoreHInv
<1>. QED BY <1>1, TurnHInv, OtherHInv DEF Next

LEMMA AlwaysHInv == Spec => [](TInv /\ AInv /\ WInv /\ HInv)
<1>1. Init => TInv /\ AInv /\ WInv /\ HInv
  BY InitTInv, InitAInv, InitWInv, InitHInv
<1>2. TInv /\ AInv /\ WInv /\ HInv /\ [Next]_vars => (TInv /\ AInv /\ WInv /\ HInv)'
  BY TInvStep, AInvStep, WInvStep, HInvStep
<1>. QED BY <1>1, <1>2, PTL DEF Spec

(* The log of turns can be believed where it has a line, and a turn that ended *)
(* has one unless the log failed to take a line of it (AuditLog.append raises  *)
(* nothing): "ok" names a turn a reload of a live conversation will show,      *)
(* "aborted" one that left nothing (service.py stream_turn: append_turn comes  *)
(* before the status, the line is written by finally).                         *)
THEOREM SummariesBelieved == Spec => []SummariesTell
<1>1. TInv /\ AInv /\ HInv => SummariesTell
  <2> SUFFICES ASSUME TInv, AInv, HInv, NEW t \in Turn, NEW c, c = task[t].conv
               PROVE  /\ task[t].at # "done" => summaries[t] = <<>>
                      /\ Len(summaries[t]) <= 1
                      /\ task[t].at = "done" /\ t \notin unlogged => summaries[t] # <<>>
                      /\ task[t].at = "done" /\ conv[c].state = "live" =>
                           /\ summaries[t] = <<"ok">> =>
                                \E i \in DOMAIN conv[c].turns : conv[c].turns[i].turn = t
                           /\ summaries[t] = <<"aborted">> =>
                                ~ \E i \in DOMAIN conv[c].turns : conv[c].turns[i].turn = t
    BY DEF SummariesTell
  <2>1. /\ task[t].at # "done" => summaries[t] = <<>>
        /\ task[t].at = "done" =>
             summaries[t] = <<task[t].status>> \/ (t \in unlogged /\ summaries[t] = <<>>)
    BY DEF AInv, AuditOf
  <2>2. /\ Len(summaries[t]) <= 1
        /\ task[t].at = "done" /\ t \notin unlogged => summaries[t] # <<>>
    <3>1. PICK a : a = <<task[t].status>>
      OBVIOUS
    <3>2. a # <<>> /\ Len(a) = 1
      <4>1. \A b : <<b>> # <<>> /\ Len(<<b>>) = 1
        OBVIOUS
      <4>. QED BY <3>1, <4>1, Zenon
    <3>3. Len(<<>>) = 0
      OBVIOUS
    <3>4. summaries[t] = a \/ ((task[t].at = "done" => t \in unlogged) /\ summaries[t] = <<>>)
      BY <2>1, <3>1
    <3>5. CASE summaries[t] = a
      <4>1. Len(summaries[t]) = 1 /\ summaries[t] # <<>>
        BY <3>2, <3>5, Zenon
      <4>. QED BY <4>1
    <3>6. CASE (task[t].at = "done" => t \in unlogged) /\ summaries[t] = <<>>
      <4>1. Len(summaries[t]) = 0
        BY <3>3, <3>6, Zenon
      <4>. QED BY <3>6, <4>1
    <3>. QED BY <3>4, <3>5, <3>6
  <2>3. ASSUME task[t].at = "done", conv[c].state = "live"
        PROVE  /\ summaries[t] = <<"ok">> =>
                    \E i \in DOMAIN conv[c].turns : conv[c].turns[i].turn = t
               /\ summaries[t] = <<"aborted">> =>
                    ~ \E i \in DOMAIN conv[c].turns : conv[c].turns[i].turn = t
    <3>1. c \in Conv
      BY <2>3, TaskFacts DEF Begun, Active
    <3>2. DOMAIN conv[c].turns = 1..Len(conv[c].turns)
      BY <3>1, TurnsFacts
    <3>3. summaries[t] = <<task[t].status>> \/ summaries[t] = <<>>
      BY <2>1, <2>3
    <3>4. task[t].status = "ok" => \E i \in 1..Len(conv[c].turns) : conv[c].turns[i].turn = t
      BY <2>3 DEF HInv, TurnHeld, Keeps
    <3>5. task[t].status = "aborted" =>
            ~ \E i \in 1..Len(conv[c].turns) : conv[c].turns[i].turn = t
      BY <3>1 DEF HInv, ConvHolds
    <3>6. \A a, b : <<a>> # <<>> /\ (<<a>> = <<b>> => a = b)
      OBVIOUS
    <3>. QED BY <3>2, <3>3, <3>4, <3>5, <3>6
  <2>. QED BY <2>1, <2>2, <2>3
<1>. QED BY <1>1, AlwaysHInv, PTL

(* Conversations hold turns of their owners only, each once, and a title comes *)
(* from a turn that was answered first (history.py append_turn, service.py     *)
(* _generate_title).                                                          *)
THEOREM TurnsOwned == Spec => []TurnsBelong
<1>1. TInv /\ HInv => TurnsBelong
  <2> SUFFICES ASSUME TInv, HInv, NEW c \in Conv
               PROVE  LET turns == conv[c].turns IN
                      /\ \A i \in DOMAIN turns : task[turns[i].turn].session = conv[c].owner
                      /\ \A i, j \in DOMAIN turns : turns[i].turn = turns[j].turn => i = j
                      /\ conv[c].title # Nobody =>
                           \E i \in DOMAIN turns :
                             /\ turns[i].turn = conv[c].title /\ IsAsk(turns[i].transcript[1])
                             /\ turns[i].transcript[1].turn = conv[c].title
    BY DEF TurnsBelong
  <2>1. ConvHolds(c) /\ DOMAIN conv[c].turns = 1..Len(conv[c].turns)
    BY TurnsFacts DEF HInv
  <2>2. ASSUME NEW i \in 1..Len(conv[c].turns)
        PROVE  task[conv[c].turns[i].turn].session = conv[c].owner
    <3>1. PICK u : u = conv[c].turns[i].turn
      OBVIOUS
    <3>2. u \in Turn /\ task[u].conv = c /\ task[u].at \in Begun
      BY <2>1, <3>1, TurnsFacts DEF ConvHolds, Begun, Active
    <3>. QED BY <3>1, <3>2, TaskFacts
  <2>. QED BY <2>1, <2>2 DEF ConvHolds, StoredFirst
<1>. QED BY <1>1, AlwaysHInv, PTL

(* ---------------------------- what is kept ------------------------------- *)

(* The sequences s[1] \o ... \o s[n], the last of which FlattenSeq gives. *)
LEMMA FlattenExists ==
  ASSUME NEW s, NEW k \in Nat
  PROVE  \E g : g = [n \in 1..k |-> IF n = 1 THEN s[n] ELSE g[n - 1] \o s[n]]
<1> DEFINE Fits(g, m) == g = [n \in 1..m |-> IF n = 1 THEN s[n] ELSE g[n - 1] \o s[n]]
           Bad == {m \in Nat : ~ \E g : Fits(g, m)}
<1>1. SUFFICES ASSUME Bad # {} PROVE FALSE
  OBVIOUS
<1>2. PICK m \in Bad : \A j \in Bad : m <= j
  <2>1. Bad \subseteq Nat
    OBVIOUS
  <2>. HIDE DEF Bad
  <2>. QED BY <1>1, <2>1, LeastNat
<1>3. CASE m = 0
  <2>1. Fits([n \in 1..0 |-> <<>>], 0)
    OBVIOUS
  <2>. QED BY <1>2, <1>3, <2>1
<1>4. CASE m # 0
  <2>1. m - 1 \in Nat /\ ~ (m <= m - 1)
    BY <1>2, <1>4
  <2>2. PICK h : Fits(h, m - 1)
    BY <1>2, <2>1
  <2> DEFINE g == [n \in 1..m |-> IF n = m THEN IF m = 1 THEN s[m] ELSE h[m - 1] \o s[m]
                                  ELSE h[n]]
  <2>3. \A n \in 1..(m - 1) : h[n] = IF n = 1 THEN s[n] ELSE h[n - 1] \o s[n]
    BY <2>2
  <2>4. ASSUME NEW n \in 1..m
        PROVE  g[n] = IF n = 1 THEN s[n] ELSE g[n - 1] \o s[n]
    <3>1. CASE n = m
      <4>1. m # 1 => m - 1 \in 1..m /\ m - 1 # m
        BY <2>1
      <4>2. m # 1 => g[n - 1] = h[m - 1]
        BY <3>1, <4>1
      <4>. QED BY <3>1, <4>2
    <3>2. CASE n # m
      <4>1. n \in 1..(m - 1) /\ g[n] = h[n]
        BY <1>2, <3>2
      <4>2. n # 1 => n - 1 \in 1..m /\ n - 1 # m /\ g[n - 1] = h[n - 1]
        BY <1>2, <4>1
      <4>. QED BY <2>3, <4>1, <4>2
    <3>. QED BY <3>1, <3>2
  <2>5. g = [n \in 1..m |-> g[n]]
    OBVIOUS
  <2>6. Fits(g, m)
    <3>. HIDE DEF g
    <3>1. [n \in 1..m |-> g[n]] = [n \in 1..m |-> IF n = 1 THEN s[n] ELSE g[n - 1] \o s[n]]
      BY <2>4
    <3>. QED BY <2>5, <3>1, Zenon
  <2>. HIDE DEF Fits, g
  <2>. QED BY <1>2, <2>6
<1>. QED BY <1>3, <1>4

LEMMA FlattenTells ==
  ASSUME NEW s, Len(s) \in Nat, Len(s) # 0
  PROVE  \E g : /\ g[1] = s[1] /\ \A n \in 2..Len(s) : g[n] = g[n - 1] \o s[n]
                /\ FlattenSeq(s) = g[Len(s)]
<1> DEFINE flat == CHOOSE g : g = [n \in 1..Len(s) |-> IF n = 1 THEN s[n] ELSE g[n - 1] \o s[n]]
<1>1. flat = [n \in 1..Len(s) |-> IF n = 1 THEN s[n] ELSE flat[n - 1] \o s[n]]
  BY FlattenExists, Zenon
<1>2. FlattenSeq(s) = flat[Len(s)]
  BY Zenon DEF FlattenSeq
<1>. HIDE DEF flat
<1>3. \A n \in 1..Len(s) : flat[n] = IF n = 1 THEN s[n] ELSE flat[n - 1] \o s[n]
  BY <1>1, Zenon
<1>4. 1 \in 1..Len(s) /\ \A n \in 2..Len(s) : n \in 1..Len(s) /\ n # 1
  OBVIOUS
<1>. QED BY <1>2, <1>3, <1>4, Zenon

(* One more sequence comes at the end. *)
LEMMA FlattenGrows ==
  ASSUME NEW n \in Nat, NEW s, NEW r, Len(s) = n, Len(r) = n + 1, n = 0 => s = <<>>,
         \A i \in 1..n : s[i] = r[i] /\ s[i] \in Seq(MessageType), r[n + 1] \in Seq(MessageType)
  PROVE  FlattenSeq(s) \in Seq(MessageType) /\ FlattenSeq(r) = FlattenSeq(s) \o r[n + 1]
<1>1. PICK h : /\ h[1] = r[1] /\ \A k \in 2..(n + 1) : h[k] = h[k - 1] \o r[k]
               /\ FlattenSeq(r) = h[n + 1]
  <2>1. Len(r) \in Nat /\ Len(r) # 0
    OBVIOUS
  <2>2. \E h : /\ h[1] = r[1] /\ \A k \in 2..Len(r) : h[k] = h[k - 1] \o r[k]
               /\ FlattenSeq(r) = h[Len(r)]
    BY <2>1, FlattenTells, Zenon
  <2>. QED BY <2>2, Zenon
<1>2. CASE n = 0
  <2>1. s = <<>> /\ FlattenSeq(s) = <<>>
    BY <1>2, Zenon DEF FlattenSeq
  <2>2. FlattenSeq(r) = r[1] /\ r[1] \in Seq(MessageType) /\ n + 1 = 1
    BY <1>1, <1>2
  <2>3. \A x \in Seq(MessageType) : <<>> \o x = x /\ <<>> \in Seq(MessageType)
    OBVIOUS
  <2>. QED BY <2>1, <2>2, <2>3, Zenon
<1>3. CASE n # 0
  <2>1. PICK g : /\ g[1] = s[1] /\ \A k \in 2..n : g[k] = g[k - 1] \o s[k]
                 /\ FlattenSeq(s) = g[n]
    BY <1>3, FlattenTells
  <2> DEFINE Bad == {k \in 1..n : ~ (g[k] = h[k] /\ g[k] \in Seq(MessageType))}
  <2>2. Bad = {}
    <3>1. SUFFICES ASSUME Bad # {} PROVE FALSE
      OBVIOUS
    <3>2. Bad \subseteq Nat
      OBVIOUS
    <3>3. PICK k \in Bad : \A j \in Bad : k <= j
      <4>. HIDE DEF Bad
      <4>. QED BY <3>1, <3>2, LeastNat
    <3>4. CASE k = 1
      BY <1>1, <1>3, <2>1, <3>3, <3>4
    <3>5. CASE k # 1
      <4>1. k \in 2..n /\ k \in 2..(n + 1) /\ k - 1 \in 1..n /\ ~ (k <= k - 1)
        BY <3>3, <3>5
      <4>2. g[k - 1] = h[k - 1] /\ g[k - 1] \in Seq(MessageType)
        BY <3>3, <4>1
      <4>3. g[k] = g[k - 1] \o s[k] /\ h[k] = h[k - 1] \o r[k] /\ s[k] = r[k] /\ s[k] \in Seq(MessageType)
        BY <1>1, <2>1, <3>3, <4>1
      <4>4. \A x, y \in Seq(MessageType) : x \o y \in Seq(MessageType)
        OBVIOUS
      <4>5. g[k] = h[k] /\ g[k] \in Seq(MessageType)
        BY <4>2, <4>3, <4>4, Zenon
      <4>. QED BY <3>3, <4>5
    <3>. QED BY <3>4, <3>5
  <2>3. n \in 1..n /\ n + 1 \in 2..(n + 1) /\ (n + 1) - 1 = n
    BY <1>3
  <2>4. g[n] = h[n] /\ g[n] \in Seq(MessageType)
    BY <2>2, <2>3
  <2>5. h[n + 1] = h[n] \o r[n + 1]
    BY <1>1, <2>3
  <2>. QED BY <1>1, <2>1, <2>4, <2>5, Zenon
<1>. QED BY <1>2, <1>3

(* What FlattenSeq gives for the messages of some turns, in order. *)
Messages(turns) == FlattenSeq([i \in DOMAIN turns |-> turns[i].own])

LEMMA MessagesGrow ==
  ASSUME NEW turns \in Seq(StoredType), NEW w \in StoredType
  PROVE  /\ Messages(turns) \in Seq(MessageType)
         /\ Messages(Append(turns, w)) = Messages(turns) \o w.own
<1>1. PICK n \in Nat : n = Len(turns)
  OBVIOUS
<1>2. DOMAIN turns = 1..n /\ \A i \in 1..n : turns[i] \in StoredType
  BY <1>1
<1>3. PICK more : more = Append(turns, w)
  OBVIOUS
<1>4. /\ DOMAIN more = 1..(n + 1) /\ more[n + 1] = w
      /\ \A i \in 1..n : more[i] = turns[i]
  BY <1>1, <1>3
<1>5. PICK s, r : s = [i \in 1..n |-> turns[i].own] /\ r = [i \in 1..(n + 1) |-> more[i].own]
  OBVIOUS
<1>6. w.own \in Seq(MessageType) /\ \A i \in 1..n : turns[i].own \in Seq(MessageType)
  BY <1>2 DEF StoredType
<1>7. s \in Seq(Seq(MessageType)) /\ Len(s) = n /\ (n = 0 => s = <<>>)
  BY <1>5, <1>6
<1>8. r \in Seq(Seq(MessageType)) /\ Len(r) = n + 1
  <2>1. ASSUME NEW i \in 1..(n + 1) PROVE more[i].own \in Seq(MessageType)
    <3>1. i = n + 1 \/ i \in 1..n
      OBVIOUS
    <3>. QED BY <1>4, <1>6, <3>1
  <2>. QED BY <1>5, <2>1
<1>9. /\ \A i \in 1..n : s[i] = r[i] /\ s[i] \in Seq(MessageType)
      /\ r[n + 1] \in Seq(MessageType) /\ r[n + 1] = w.own
  BY <1>4, <1>5, <1>6
<1>10. FlattenSeq(s) \in Seq(MessageType) /\ FlattenSeq(r) = FlattenSeq(s) \o w.own
  <2>1. FlattenSeq(s) \in Seq(MessageType) /\ FlattenSeq(r) = FlattenSeq(s) \o r[n + 1]
    BY <1>7, <1>8, <1>9, FlattenGrows
  <2>. QED BY <1>9, <2>1
<1>11. Messages(turns) = FlattenSeq(s)
  BY <1>2, <1>5 DEF Messages
<1>12. Messages(Append(turns, w)) = FlattenSeq(r)
  BY <1>3, <1>4, <1>5 DEF Messages
<1>. QED BY <1>10, <1>11, <1>12

LEMMA NoMessages == Messages(<<>>) = <<>>
<1>1. [i \in DOMAIN <<>> |-> <<>>[i].own] = <<>>
  OBVIOUS
<1>2. FlattenSeq(<<>>) = <<>>
  BY Zenon DEF FlattenSeq
<1>. QED BY <1>1, <1>2 DEF Messages

LEMMA SubSeqConcat ==
  ASSUME NEW M, NEW s \in Seq(M), NEW r \in Seq(M), NEW i \in 1..(Len(s) + 1)
  PROVE  SubSeq(s \o r, i, Len(s \o r)) = SubSeq(s, i, Len(s)) \o r
OBVIOUS

LEMMA SubSeqSplit ==
  ASSUME NEW M, NEW s \in Seq(M), NEW i \in 1..Len(s)
  PROVE  /\ SubSeq(s, 1, i - 1) \o SubSeq(s, i, Len(s)) = s
         /\ SubSeq(s, i, Len(s)) # <<>>
<1>1. SubSeq(s, 1, i - 1) \o SubSeq(s, i, Len(s)) = s
  OBVIOUS
<1>2. Len(SubSeq(s, i, Len(s))) = Len(s) - i + 1
  OBVIOUS
<1>. QED BY <1>1, <1>2

LEMMA FromConcat ==
  ASSUME NEW s \in Seq(MessageType), NEW r \in Seq(MessageType), NEW i \in 1..(Len(s) + 1)
  PROVE  From(s, i) \o r = From(s \o r, i)
BY SubSeqConcat DEF From

(* Cutting the context and the new messages at a question gives the longest   *)
(* context of whole turns that fits.                                          *)
LEMMA ContextGrows ==
  ASSUME NEW all \in Seq(MessageType), NEW own \in Seq(MessageType), own # <<>>,
         NEW base \in Seq(MessageType), Well(base \o own),
         (all = <<>> /\ base = <<>>) \/ KeepsContext(all, base)
  PROVE  KeepsContext(all \o own, Cap(base \o own))
<1>1. PICK n \in Nat : n = Len(all)
  OBVIOUS
<1>2. PICK i \in 1..(n + 1) :
        /\ base = From(all, i)
        /\ \A j \in 1..(i - 1) : IsAsk(all[j]) => Len(From(all, j)) > MaxMessages
  <2>1. CASE all = <<>> /\ base = <<>>
    <3>1. From(all, 1) = <<>> /\ 1 \in 1..(n + 1) /\ 1..(1 - 1) = {}
      BY <2>1, <1>1 DEF From
    <3>. QED BY <2>1, <3>1
  <2>2. CASE KeepsContext(all, base)
    <3>1. PICK i \in DOMAIN all :
            /\ base = From(all, i)
            /\ \A j \in 1..(i - 1) : IsAsk(all[j]) => Len(From(all, j)) > MaxMessages
      BY <2>2 DEF KeepsContext
    <3>2. i \in 1..(n + 1)
      BY <1>1
    <3>. QED BY <3>1, <3>2
  <2>. QED BY <2>1, <2>2
<1>3. PICK tr, big : tr = base \o own /\ big = all \o own
  OBVIOUS
<1>4. tr \in Seq(MessageType) /\ big \in Seq(MessageType) /\ tr # <<>> /\ Well(tr)
  BY <1>3
<1>5. PICK m \in Nat, p \in Nat : m = Len(tr) /\ p = Len(own)
  BY <1>4
<1>6. tr = From(big, i) /\ Len(big) = n + p /\ m = n + p - i + 1 /\ i \in 1..(n + p) /\ p >= 1
  <2>1. tr = From(big, i)
    BY <1>1, <1>2, <1>3, FromConcat
  <2>2. Len(big) = n + p /\ p >= 1
    BY <1>1, <1>3, <1>5
  <2>3. i \in 1..(n + p)
    BY <2>2
  <2>. QED BY <1>4, <1>5, <2>1, <2>2, <2>3, FromFacts
<1>16. ASSUME NEW j \in 1..(n + p)
       PROVE  /\ From(big, j) \in Seq(MessageType) /\ Len(From(big, j)) = n + p - j + 1
              /\ \A x \in 1..(n + p - j + 1) : From(big, j)[x] = big[x + j - 1]
  <2>1. j \in 1..Len(big)
    BY <1>6
  <2>2. /\ From(big, j) \in Seq(MessageType) /\ Len(From(big, j)) = Len(big) - j + 1
        /\ \A x \in 1..(Len(big) - j + 1) : From(big, j)[x] = big[x + j - 1]
    BY <1>4, <2>1, FromFacts
  <2>. QED BY <1>6, <2>2
<1>7. \A x \in 1..m : tr[x] = big[x + i - 1]
  BY <1>6, <1>16
<1>8. PICK k \in 1..m :
        /\ Cap(tr) = From(tr, k) /\ IsAsk(tr[k])
        /\ \/ Len(From(tr, k)) <= MaxMessages
           \/ \A x \in 1..m : IsAsk(tr[x]) => x <= k
        /\ \A j \in 1..(k - 1) : IsAsk(tr[j]) => Len(From(tr, j)) > MaxMessages
  BY <1>4, <1>5, CapFacts
<1>9. PICK q : q = i + k - 1
  OBVIOUS
<1>10. q \in 1..(n + p)
  BY <1>6, <1>9
<1>11. From(tr, k) = From(big, q)
  <2>1. /\ From(tr, k) \in Seq(MessageType) /\ Len(From(tr, k)) = m - k + 1
        /\ \A x \in 1..(m - k + 1) : From(tr, k)[x] = tr[x + k - 1]
    BY <1>4, <1>5, FromFacts
  <2>2. /\ From(big, q) \in Seq(MessageType) /\ Len(From(big, q)) = n + p - q + 1
        /\ \A x \in 1..(n + p - q + 1) : From(big, q)[x] = big[x + q - 1]
    BY <1>10, <1>16
  <2>3. n + p - q + 1 = m - k + 1
    BY <1>6, <1>9
  <2>4. ASSUME NEW x \in 1..(m - k + 1) PROVE From(tr, k)[x] = From(big, q)[x]
    <3>1. x + k - 1 \in 1..m /\ (x + k - 1) + i - 1 = x + q - 1
      BY <1>9
    <3>. QED BY <1>7, <2>1, <2>2, <2>3, <3>1
  <2>. QED BY <2>1, <2>2, <2>3, <2>4
<1>12. IsAsk(big[q])
  <2>1. k + i - 1 = q
    BY <1>9
  <2>. QED BY <1>7, <1>8, <2>1
<1>13. Len(From(tr, k)) <= MaxMessages \/ Cardinality(Asks(From(tr, k))) = 1
  <2>1. CASE \A x \in 1..m : IsAsk(tr[x]) => x <= k
    <3>1. /\ From(tr, k) \in Seq(MessageType) /\ Len(From(tr, k)) = m - k + 1
          /\ \A x \in 1..(m - k + 1) : From(tr, k)[x] = tr[x + k - 1]
      BY <1>4, <1>5, FromFacts
    <3>2. 1 \in 1..(m - k + 1) /\ 1 + k - 1 = k
      OBVIOUS
    <3>3. IsAsk(From(tr, k)[1])
      BY <1>8, <3>1, <3>2
    <3>4. ASSUME NEW x \in 1..(m - k + 1), IsAsk(From(tr, k)[x]) PROVE x = 1
      <4>1. x + k - 1 \in 1..m /\ IsAsk(tr[x + k - 1])
        BY <3>1, <3>4
      <4>2. x + k - 1 <= k
        BY <2>1, <4>1
      <4>. QED BY <4>2
    <3>5. Asks(From(tr, k)) = {1}
      BY <3>1, <3>2, <3>3, <3>4 DEF Asks
    <3>. QED BY <3>5, FS_Singleton
  <2>. QED BY <1>8, <2>1
<1>14. ASSUME NEW j \in 1..(q - 1), IsAsk(big[j]) PROVE Len(From(big, j)) > MaxMessages
  <2>1. j \in 1..(n + p) /\ j \in Nat
    BY <1>10
  <2>2. Len(From(big, j)) = n + p - j + 1
    BY <1>16, <2>1
  <2>3. CASE j >= i
    <3>1. PICK x : x = j - i + 1
      OBVIOUS
    <3>2. x \in 1..(k - 1) /\ x \in 1..m /\ x + i - 1 = j /\ m - x + 1 = n + p - j + 1
      BY <1>6, <1>9, <2>3, <3>1
    <3>3. IsAsk(tr[x])
      BY <1>7, <1>14, <3>2
    <3>4. Len(From(tr, x)) > MaxMessages
      BY <1>8, <3>2, <3>3
    <3>5. Len(From(tr, x)) = m - x + 1
      BY <1>4, <1>5, <3>2, FromFacts
    <3>. QED BY <2>2, <3>2, <3>4, <3>5
  <2>4. CASE j < i
    <3>1. j \in 1..(i - 1) /\ j \in 1..n /\ all[j] = big[j]
      <4>1. j \in 1..(i - 1) /\ j \in 1..n
        BY <2>1, <2>4
      <4>. QED BY <1>1, <1>3, <4>1
    <3>2. Len(From(all, j)) > MaxMessages
      BY <1>2, <1>14, <3>1
    <3>3. Len(From(all, j)) = n - j + 1
      BY <1>1, <3>1, FromFacts
    <3>. QED BY <1>6, <2>1, <2>2, <3>2, <3>3, ChatConstants
  <2>. QED BY <2>1, <2>3, <2>4
<1>15. /\ q \in DOMAIN big /\ Cap(tr) = From(big, q)
       /\ Len(Cap(tr)) <= MaxMessages \/ Cardinality(Asks(Cap(tr))) = 1
  BY <1>4, <1>6, <1>8, <1>10, <1>11, <1>13
<1>. QED BY <1>3, <1>12, <1>14, <1>15 DEF KeepsContext

LEMMA ContextOfMessages ==
  ASSUME NEW c \in Conv
  PROVE  ContextOf(c) <=> (conv[c].turns # <<>> =>
           KeepsContext(Messages(conv[c].turns), Last(conv[c].turns).transcript))
BY Zenon DEF ContextOf, Messages

(* How a step that is not the beginning of a turn moves turn t: what its      *)
(* transcript continues stays as it was read.                                 *)
Follows(t) ==
  task'[t].at \in Active =>
    /\ task[t].at \in Active /\ task'[t].conv = task[t].conv
    /\ task'[t].at \in Pre =>
         /\ task[t].at \in Pre
         /\ SubSeq(task'[t].transcript, 1, task'[t].start - 1) =
            SubSeq(task[t].transcript, 1, task[t].start - 1)

LEMMA SameContext ==
  ASSUME NEW c \in Conv, ContextOf(c), Settles(c)
  PROVE  ContextOf(c)'
<1>1. CASE conv'[c].turns = <<>>
  BY <1>1 DEF ContextOf
<1>2. CASE conv'[c].turns = conv[c].turns
  <2>1. conv[c].turns # <<>> =>
           KeepsContext(Messages(conv[c].turns), Last(conv[c].turns).transcript)
    BY ContextOfMessages
  <2>2. conv'[c].turns # <<>> =>
           KeepsContext(Messages(conv'[c].turns), Last(conv'[c].turns).transcript)
    BY <1>2, <2>1, Zenon
  <2>. QED BY <2>2, Zenon DEF ContextOf, Messages
<1>. QED BY <1>1, <1>2 DEF Settles

LEMMA FollowsFrame ==
  ASSUME TInv, XInv, UNCHANGED overlapped, \A t \in Turn : Follows(t), \A c \in Conv : Settles(c)
  PROVE  XInv'
<1>1. ContextPreservedInTurn'
  BY SameContext DEF XInv, ContextPreservedInTurn
<1>2. ASSUME NEW t \in Turn PROVE Continues(t)'
  <2>1. CASE task'[t].at \in Active /\ task'[t].conv \notin overlapped
    <3>1. PICK c : c = task[t].conv
      OBVIOUS
    <3>2. task[t].at \in Active /\ task'[t].conv = c /\ Continues(t)
      BY <2>1, <3>1 DEF Follows, XInv
    <3>3. c \in Conv /\ conv[c].state # "none" /\ Settles(c)
      BY <3>1, <3>2, TaskFacts DEF Begun
    <3>4. ASSUME NEW u \in Turn, task'[u].at \in Active, task'[u].conv = c PROVE u = t
      <4>1. task[u].at \in Active /\ task[u].conv = c
        BY <3>4 DEF Follows
      <4>. QED BY <2>1, <3>1, <3>2, <4>1 DEF Continues
    <3>5. ASSUME task'[t].at \in Pre, conv'[c].state = "live"
          PROVE  SubSeq(task'[t].transcript, 1, task'[t].start - 1) = LastTranscript(c)'
      <4>1. conv'[c].turns = conv[c].turns /\ conv[c].state = "live"
        BY <3>3, <3>5 DEF Settles
      <4>2. task[t].at \in Pre
            /\ SubSeq(task'[t].transcript, 1, task'[t].start - 1) =
               SubSeq(task[t].transcript, 1, task[t].start - 1)
        BY <2>1, <3>5 DEF Follows
      <4>3. SubSeq(task[t].transcript, 1, task[t].start - 1) = LastTranscript(c)
        BY <2>1, <3>1, <3>2, <4>1, <4>2 DEF Continues
      <4>. QED BY <4>1, <4>2, <4>3, Zenon DEF LastTranscript
    <3>. QED BY <3>2, <3>4, <3>5, Zenon DEF Continues, LastTranscript
  <2>2. CASE ~ (task'[t].at \in Active /\ task'[t].conv \notin overlapped)
    BY <2>2 DEF Continues
  <2>. QED BY <2>1, <2>2
<1>. QED BY <1>1, <1>2 DEF XInv

LEMMA AppendPrefix ==
  ASSUME NEW tr \in Seq(MessageType), NEW m, NEW s \in 1..Len(tr)
  PROVE  SubSeq(Append(tr, m), 1, s - 1) = SubSeq(tr, 1, s - 1)
OBVIOUS

LEMMA TurnFollows ==
  ASSUME TInv, AInv, WInv, NEW t \in Turn,
         \/ \E s \in Session, c \in Conv : Refuse(s, t, c)
         \/ CallTools(t) \/ RunQueries(t) \/ LogQuery(t) \/ Answer(t) \/ Truncate(t)
         \/ StoreAnswer(t) \/ StoreQuestion(t) \/ Exception(t) \/ Leave(t) \/ Disconnect(t)
  PROVE  \A u \in Turn : Follows(u)
<1>1. task[t] \in TaskType /\ TurnWell(task[t], t)
  BY TaskFacts DEF WInv
<1>2. PICK p : p = SubSeq(task[t].transcript, 1, task[t].start - 1)
  OBVIOUS
<1>3. task[t].at \in Pre =>
        \A m : SubSeq(Append(task[t].transcript, m), 1, task[t].start - 1) = p
  BY <1>1, <1>2, AppendPrefix DEF TurnWell, OwnPart, TaskType
<1>4. PICK x : /\ task' = [task EXCEPT ![t] = x]
               /\ \/ /\ task[t].at \in Pre /\ x.conv = task[t].conv
                     /\ x.at \in Active
                     /\ x.at \in Pre => SubSeq(x.transcript, 1, x.start - 1) = p
                  \/ x.at \notin Active
  <2>1. CASE \E s \in Session, c \in Conv : Refuse(s, t, c)
    <3>1. task' = [task EXCEPT ![t] = [task[t] EXCEPT !.at = "refused"]]
      BY <2>1 DEF Refuse
    <3>2. [task[t] EXCEPT !.at = "refused"].at = "refused"
      BY <1>1 DEF TaskType
    <3>. QED BY <3>1, <3>2 DEF Active
  <2>2. CASE CallTools(t)
    <3>1. PICK n, m :
            task' = [task EXCEPT ![t] = [task[t] EXCEPT !.at = "running", !.round = @ + 1,
                                           !.left = n, !.transcript = Append(@, m)]]
      BY <2>2, Zenon DEF CallTools
    <3> DEFINE x == [task[t] EXCEPT !.at = "running", !.round = @ + 1, !.left = n,
                                    !.transcript = Append(@, m)]
    <3>2. /\ x.at = "running" /\ x.conv = task[t].conv /\ x.start = task[t].start
          /\ x.transcript = Append(task[t].transcript, m)
      BY <1>1 DEF TaskType
    <3>3. task[t].at = "calling" /\ task' = [task EXCEPT ![t] = x]
      BY <2>2, <3>1 DEF CallTools
    <3>. HIDE DEF x
    <3>. QED BY <1>3, <3>2, <3>3 DEF Pre, Active
  <2>3. CASE RunQueries(t)
    <3> DEFINE x == [task[t] EXCEPT !.at = "logging", !.ran = @ + task[t].left]
    <3>1. task[t].at = "running" /\ task' = [task EXCEPT ![t] = x]
      BY <2>3, Zenon DEF RunQueries
    <3>2. /\ x.at = "logging" /\ x.conv = task[t].conv /\ x.start = task[t].start
          /\ x.transcript = task[t].transcript
      BY <1>1 DEF TaskType
    <3>. HIDE DEF x
    <3>. QED BY <1>2, <3>1, <3>2 DEF Pre, Active
  <2>4. CASE LogQuery(t)
    <3>8. PICK n \in {0, 1} : task' = [task EXCEPT ![t] = Told(t, n)]
      BY <2>4, LogQueryIs
    <3> DEFINE m == Message("result", t, task[t].round)
               told == [task[t] EXCEPT !.logged = @ + n, !.left = @ - 1]
               last == [told EXCEPT !.at = "calling", !.transcript = Append(@, m)]
    <3>1. task[t].at = "logging"
      BY <2>4 DEF LogQuery
    <3>2. /\ told.at = "logging" /\ told.conv = task[t].conv /\ told.start = task[t].start
          /\ told.transcript = task[t].transcript
          /\ last.at = "calling" /\ last.conv = task[t].conv /\ last.start = task[t].start
          /\ last.transcript = Append(task[t].transcript, m)
      BY <1>1, <3>1 DEF TaskType
    <3>3. task' = [task EXCEPT ![t] = IF told.left > 0 THEN told ELSE last]
      BY <3>8, Zenon DEF Told
    <3>4. \/ task' = [task EXCEPT ![t] = told]
          \/ task' = [task EXCEPT ![t] = last]
      BY <3>3
    <3>. HIDE DEF m, told, last
    <3>5. SubSeq(told.transcript, 1, told.start - 1) = p
      BY <1>2, <3>2
    <3>6. SubSeq(last.transcript, 1, last.start - 1) = p
      BY <1>3, <3>1, <3>2 DEF Pre
    <3>7. /\ task[t].at \in Pre /\ told.at \in Active /\ last.at \in Active
      BY <3>1, <3>2 DEF Pre, Active
    <3>. QED BY <3>2, <3>4, <3>5, <3>6, <3>7
  <2>5. CASE Answer(t)
    <3>1. PICK b, m : task' = [task EXCEPT ![t] = [task[t] EXCEPT !.at = "answering",
                                                     !.parsed = b, !.transcript = Append(@, m)]]
      BY <2>5, Zenon DEF Answer
    <3> DEFINE x == [task[t] EXCEPT !.at = "answering", !.parsed = b,
                                    !.transcript = Append(@, m)]
    <3>2. /\ x.at = "answering" /\ x.conv = task[t].conv /\ x.start = task[t].start
          /\ x.transcript = Append(task[t].transcript, m)
      BY <1>1 DEF TaskType
    <3>3. task[t].at = "calling" /\ task' = [task EXCEPT ![t] = x]
      BY <2>5, <3>1 DEF Answer
    <3>. HIDE DEF x
    <3>. QED BY <1>3, <3>2, <3>3 DEF Pre, Active
  <2>6. CASE Truncate(t) \/ Exception(t) \/ StoreAnswer(t)
    <3>1. PICK at, st : /\ at \in {"truncated", "leaving"}
            /\ task' = [task EXCEPT ![t] = [task[t] EXCEPT !.at = at, !.status = st]]
      <4> DEFINE X(at, st) == [task EXCEPT ![t] = [task[t] EXCEPT !.at = at, !.status = st]]
      <4>1. Truncate(t) => task' = X("truncated", "error")
        BY Zenon DEF Truncate
      <4>2. Exception(t) => task' = X("leaving", "error")
        BY Zenon DEF Exception
      <4>3. StoreAnswer(t) => \E st : task' = X("leaving", st)
        BY Zenon DEF StoreAnswer
      <4>. HIDE DEF X
      <4>4. \E at, st : at \in {"truncated", "leaving"} /\ task' = X(at, st)
        BY <2>6, <4>1, <4>2, <4>3
      <4>. QED BY <4>4 DEF X
    <3> DEFINE x == [task[t] EXCEPT !.at = at, !.status = st]
    <3>2. /\ x.at = at /\ x.conv = task[t].conv /\ x.start = task[t].start
          /\ x.transcript = task[t].transcript
      BY <1>1 DEF TaskType
    <3>3. task[t].at \in Pre /\ task' = [task EXCEPT ![t] = x]
      BY <2>6, <3>1 DEF Truncate, Exception, StoreAnswer, Pre
    <3>. HIDE DEF x
    <3>. QED BY <1>2, <3>2, <3>3 DEF Active
  <2>7. CASE StoreQuestion(t)
    <3> DEFINE x == [task[t] EXCEPT !.at = "leaving"]
    <3>1. task[t].at = "truncated" /\ task' = [task EXCEPT ![t] = x]
      BY <2>7 DEF StoreQuestion
    <3>2. x.at = "leaving" /\ x.conv = task[t].conv
      BY <1>1 DEF TaskType
    <3>. HIDE DEF x
    <3>. QED BY <3>1, <3>2 DEF Pre, Active
  <2>8. CASE Leave(t)
    BY <1>1, <2>8, OverFacts DEF Leave, Active
  <2>9. CASE Disconnect(t)
    <3>1. PICK n : task' = [task EXCEPT ![t] = [Over(t, "done") EXCEPT !.ran = @ + n]]
      BY <2>9, Zenon DEF Disconnect
    <3>2. [Over(t, "done") EXCEPT !.ran = @ + n].at = "done"
      BY <1>1, OverFacts DEF TaskType
    <3>. QED BY <3>1, <3>2 DEF Active
  <2>. QED BY <2>1, <2>2, <2>3, <2>4, <2>5, <2>6, <2>7, <2>8, <2>9
<1>5. task'[t] = x /\ \A u \in Turn \ {t} : task'[u] = task[u]
  BY <1>4 DEF TInv
<1>6. Follows(t)
  BY <1>2, <1>4, <1>5 DEF Follows, Pre, Active
<1>7. \A u \in Turn \ {t} : Follows(u)
  BY <1>5 DEF Follows
<1>. QED BY <1>6, <1>7

LEMMA OtherXInv ==
  ASSUME TInv, AInv, WInv, HInv, XInv,
         \/ \E s \in Session, c \in Conv : Create(s, c) \/ Delete(s, c)
         \/ \E t \in Turn : Title(t)
         \/ \E s \in Session, t \in Turn, c \in Conv : Refuse(s, t, c)
         \/ \E t \in Turn : \/ CallTools(t) \/ RunQueries(t) \/ LogQuery(t) \/ Answer(t)
                            \/ Truncate(t) \/ Exception(t) \/ Leave(t) \/ Disconnect(t)
         \/ Crash \/ UNCHANGED vars
  PROVE  XInv'
<1>1. CASE \/ \E s \in Session, c \in Conv : Create(s, c) \/ Delete(s, c)
           \/ \E t \in Turn : Title(t)
  <2>1. (\A c \in Conv : Settles(c)) /\ UNCHANGED <<task, overlapped>>
    BY <1>1, EditsSettle
  <2>2. \A t \in Turn : Follows(t)
    BY <2>1 DEF Follows
  <2>. QED BY <2>1, <2>2, FollowsFrame
<1>2. CASE \/ \E s \in Session, t \in Turn, c \in Conv : Refuse(s, t, c)
           \/ \E t \in Turn : \/ CallTools(t) \/ RunQueries(t) \/ LogQuery(t) \/ Answer(t)
                              \/ Truncate(t) \/ Exception(t) \/ Leave(t) \/ Disconnect(t)
  <2>1. UNCHANGED <<conv, overlapped>>
    BY <1>2 DEF Refuse, CallTools, RunQueries, LogQuery, Answer, Truncate, Exception, Leave,
                Disconnect
  <2>2. \A u \in Turn : Follows(u)
    BY <1>2, TurnFollows
  <2>. QED BY <2>1, <2>2, SameConvSettles, FollowsFrame
<1>3. CASE Crash
  <2>1. UNCHANGED <<conv, overlapped>>
    BY <1>3 DEF Crash
  <2>2. ASSUME NEW t \in Turn PROVE Follows(t)
    <3>1. task'[t] = IF task[t].at \in Active THEN Over(t, "lost") ELSE task[t]
      BY <1>3 DEF Crash
    <3>2. task[t].at \in Active => task'[t].at = "lost"
      BY <3>1, TaskFacts, OverFacts
    <3>. QED BY <3>1, <3>2 DEF Follows, Active
  <2>. QED BY <2>1, <2>2, SameConvSettles, FollowsFrame
<1>4. CASE UNCHANGED vars
  <2>1. UNCHANGED <<conv, task, overlapped>>
    BY <1>4 DEF vars
  <2>2. \A t \in Turn : Follows(t)
    BY <2>1 DEF Follows
  <2>. QED BY <2>1, <2>2, SameConvSettles, FollowsFrame
<1>. QED BY <1>1, <1>2, <1>3, <1>4

(* A turn that begins alone continues from the last stored transcript. *)
LEMMA AskXInv ==
  ASSUME TInv, WInv, XInv, NEW s \in Session, NEW t \in Turn, NEW c \in Conv, Ask(s, t, c)
  PROVE  XInv'
<1>1. PICK w, m, tr : /\ w = LastTranscript(c) /\ m = Message("ask", t, 0) /\ tr = Append(w, m)
                      /\ task' = [task EXCEPT ![t] = [NoTask EXCEPT !.at = "calling",
                             !.session = s, !.conv = c, !.transcript = tr, !.start = Len(tr)]]
  BY Zenon DEF Ask
<1>2. w \in Seq(MessageType)
  BY <1>1, LastTranscriptFacts DEF WInv
<1>3. SubSeq(tr, 1, Len(tr) - 1) = w
  <2>1. Len(tr) = Len(w) + 1 /\ \A i \in 1..Len(w) : tr[i] = w[i]
    BY <1>1, <1>2
  <2>. QED BY <1>1, <1>2, <2>1
<1> DEFINE x == [NoTask EXCEPT !.at = "calling", !.session = s, !.conv = c, !.transcript = tr,
                               !.start = Len(tr)]
<1>4. x.conv = c /\ x.transcript = tr /\ x.start = Len(tr)
  BY NoTaskType DEF TaskType
<1>5. task' = [task EXCEPT ![t] = x]
  BY <1>1
<1>. HIDE DEF x
<1>6. task'[t] = x /\ \A u \in Turn \ {t} : task'[u] = task[u]
  BY <1>5 DEF TInv
<1>7. /\ UNCHANGED conv /\ task[t].at = "idle"
      /\ overlapped' = IF \E u \in Turn : task[u].at \in Active /\ task[u].conv = c
                       THEN overlapped \cup {c} ELSE overlapped
  BY DEF Ask
<1>8. ContextPreservedInTurn'
  <2>1. \A d \in Conv : Settles(d)
    BY <1>7, SameConvSettles
  <2>. QED BY <1>7, <2>1, SameContext DEF XInv, ContextPreservedInTurn
<1>9. ASSUME NEW u \in Turn PROVE Continues(u)'
  <2>1. CASE u = t
    <3>1. CASE c \in overlapped'
      BY <1>4, <1>6, <2>1, <3>1 DEF Continues
    <3>2. CASE c \notin overlapped'
      <4>1. \A v \in Turn : task'[v].at \in Active /\ task'[v].conv = c => v = t
        BY <1>6, <1>7, <3>2
      <4>2. SubSeq(x.transcript, 1, x.start - 1) = LastTranscript(c)
        BY <1>1, <1>3, <1>4
      <4>3. LastTranscript(c)' = LastTranscript(c)
        BY <1>7 DEF LastTranscript
      <4>4. SubSeq(task'[t].transcript, 1, task'[t].start - 1) = LastTranscript(c)'
        BY <1>6, <4>2, <4>3, Zenon
      <4>5. task'[t].conv = c
        BY <1>4, <1>6
      <4>. QED BY <2>1, <4>1, <4>4, <4>5, Zenon DEF Continues, LastTranscript
    <3>. QED BY <3>1, <3>2
  <2>2. CASE u # t
    <3>1. PICK d : d = task[u].conv
      OBVIOUS
    <3>2. CASE task[u].at \in Active /\ d \notin overlapped'
      <4>1. d # c /\ d \notin overlapped /\ Continues(u)
        BY <1>7, <3>1, <3>2 DEF XInv
      <4>2. \A v \in Turn : task'[v].at \in Active /\ task'[v].conv = d => v = u
        BY <1>4, <1>6, <3>1, <3>2, <4>1 DEF Continues
      <4>3. LastTranscript(d)' = LastTranscript(d)
        BY <1>7 DEF LastTranscript
      <4>4. task'[u] = task[u]
        BY <1>6, <2>2
      <4>5. task[u].at \in Pre /\ conv[d].state = "live" =>
              SubSeq(task[u].transcript, 1, task[u].start - 1) = LastTranscript(d)
        BY <3>1, <3>2, <4>1 DEF Continues
      <4>. QED BY <1>7, <3>1, <3>2, <4>2, <4>3, <4>4, <4>5, Zenon DEF Continues, LastTranscript
    <3>3. CASE ~ (task[u].at \in Active /\ d \notin overlapped')
      BY <1>6, <2>2, <3>1, <3>3 DEF Continues
    <3>. QED BY <3>2, <3>3
  <2>. QED BY <2>1, <2>2
<1>. QED BY <1>8, <1>9 DEF XInv

(* A turn that had its conversation for itself stores its own messages after   *)
(* the others, and the longest context of whole turns that fits.               *)
LEMMA StoreXInv ==
  ASSUME TInv, AInv, WInv, XInv, NEW t \in Turn, StoreAnswer(t) \/ StoreQuestion(t),
         NEW tr, Stores(t, tr)
  PROVE  XInv'
<1>1. PICK c : c = task[t].conv
  OBVIOUS
<1>2. c \in Conv /\ task[t].at \in Pre /\ UNCHANGED overlapped
  BY <1>1, StoresTurns DEF Stores, Pre, StoreAnswer, StoreQuestion
<1>3. /\ \A u \in Turn : Follows(u)
      /\ \A u \in Turn \ {t} : task'[u] = task[u]
      /\ task'[t].at = "leaving"
  <2>1. \A u \in Turn : Follows(u)
    BY TurnFollows
  <2>2. PICK x : task' = [task EXCEPT ![t] = x] /\ x.at = "leaving"
    <3>1. CASE StoreAnswer(t)
      <4>1. PICK st : task' = [task EXCEPT ![t] = [task[t] EXCEPT !.at = "leaving",
                                                                  !.status = st]]
        BY <3>1, Zenon DEF StoreAnswer
      <4>2. [task[t] EXCEPT !.at = "leaving", !.status = st].at = "leaving"
        BY TaskFacts DEF TaskType
      <4>. QED BY <4>1, <4>2
    <3>2. CASE StoreQuestion(t)
      <4>1. task' = [task EXCEPT ![t] = [task[t] EXCEPT !.at = "leaving"]]
        BY <3>2 DEF StoreQuestion
      <4>2. [task[t] EXCEPT !.at = "leaving"].at = "leaving"
        BY TaskFacts DEF TaskType
      <4>. QED BY <4>1, <4>2
    <3>. QED BY <3>1, <3>2
  <2>. QED BY <2>1, <2>2 DEF TInv
<1>4. PICK w : w = Written(t, tr)
  OBVIOUS
<1>5. /\ w \in StoredType /\ w.own = From(tr, task[t].start) /\ w.transcript = Cap(tr)
      /\ conv[c].state = "live" => conv'[c].turns = Append(conv[c].turns, w)
      /\ conv[c].state # "live" => conv' = conv
      /\ \A d \in Conv \ {c} : conv'[d] = conv[d]
      /\ \A d \in Conv : conv'[d].state = conv[d].state
  BY <1>1, <1>4, StoresTurns DEF Written
<1>6. CASE conv[c].state # "live"
  BY <1>2, <1>3, <1>5, <1>6, SameConvSettles, FollowsFrame
<1>7. CASE conv[c].state = "live"
  <2>1. ASSUME NEW d \in Conv \ overlapped' PROVE ContextOf(d)'
    <3>1. ContextOf(d)
      BY <1>2, <2>1 DEF XInv, ContextPreservedInTurn
    <3>2. CASE d # c
      <4>1. Settles(d)
        BY <1>5, <3>2 DEF Settles
      <4>. QED BY <3>1, <4>1, SameContext
    <3>3. CASE d = c
      <4>1. PICK turns \in Seq(StoredType) : turns = conv[c].turns
        BY <1>2, TurnsFacts
      <4>2. PICK all \in Seq(MessageType), own \in Seq(MessageType), base \in Seq(MessageType) :
              /\ all = Messages(turns) /\ own = From(tr, task[t].start)
              /\ base = SubSeq(tr, 1, task[t].start - 1)
        <5>1. tr \in Seq(MessageType) /\ task[t].start \in 1..Len(tr)
          BY DEF Stores
        <5>2. SubSeq(tr, 1, task[t].start - 1) \in Seq(MessageType)
          BY <5>1
        <5>. QED BY <4>1, <5>1, <5>2, <1>5, MessagesGrow, FromFacts
      <4>3. base \o own = tr /\ own # <<>>
        <5>1. PICK n : n = task[t].start
          OBVIOUS
        <5>2. tr \in Seq(MessageType) /\ n \in 1..Len(tr)
          BY <5>1 DEF Stores
        <5>3. SubSeq(tr, 1, n - 1) \o SubSeq(tr, n, Len(tr)) = tr /\ SubSeq(tr, n, Len(tr)) # <<>>
          BY <5>2, SubSeqSplit
        <5>. QED BY <4>2, <5>1, <5>3 DEF From
      <4>4. base = LastTranscript(c)
        <5>1. Continues(t) /\ task[t].at \in Active
          BY <1>2 DEF XInv, Pre, Active
        <5>2. SubSeq(task[t].transcript, 1, task[t].start - 1) = LastTranscript(c)
          BY <1>1, <1>2, <1>7, <2>1, <3>3, <5>1 DEF Continues
        <5>. QED BY <4>2, <5>2 DEF Stores
      <4>5. (all = <<>> /\ base = <<>>) \/ KeepsContext(all, base)
        <5>1. CASE turns = <<>>
          <6>1. all = <<>> /\ LastTranscript(c) = <<>>
            BY <4>1, <4>2, <5>1, NoMessages DEF LastTranscript
          <6>. QED BY <4>4, <6>1
        <5>2. CASE turns # <<>>
          <6>1. Last(turns).transcript = LastTranscript(c)
            BY <1>2, <4>1, <5>2, LastTranscriptFacts DEF WInv, Last
          <6>2. KeepsContext(Messages(turns), Last(turns).transcript)
            BY <1>2, <3>1, <3>3, <4>1, <5>2, ContextOfMessages
          <6>. QED BY <4>2, <4>4, <6>1, <6>2
        <5>. QED BY <5>1, <5>2
      <4>6. Well(base \o own)
        BY <4>3 DEF Stores
      <4>7. KeepsContext(all \o own, Cap(tr))
        BY <4>3, <4>5, <4>6, ContextGrows
      <4>8. PICK more : more = Append(turns, w)
        OBVIOUS
      <4>9. Last(more) = w
        BY <1>5, <4>1, <4>8 DEF Last
      <4>10. Messages(more) = all \o own
        BY <1>5, <4>1, <4>2, <4>8, MessagesGrow
      <4>11. KeepsContext(Messages(more), Last(more).transcript)
        BY <1>5, <4>7, <4>9, <4>10
      <4>12. conv'[d].turns = more
        BY <1>5, <1>7, <3>3, <4>1, <4>8
      <4>13. KeepsContext(Messages(conv'[d].turns), Last(conv'[d].turns).transcript)
        BY <4>11, <4>12, Zenon
      <4>. QED BY <4>13, Zenon DEF ContextOf, Messages
    <3>. QED BY <3>2, <3>3
  <2>2. ASSUME NEW u \in Turn PROVE Continues(u)'
    <3>1. CASE u = t
      <4>1. task'[t].at \in Active => task[t].at \in Active /\ task'[t].conv = c
        BY <1>1, <1>3 DEF Follows
      <4>2. task'[t].at \notin Pre
        BY <1>3 DEF Pre
      <4>3. ASSUME NEW v \in Turn, task'[v].at \in Active, task'[v].conv = c,
                   task'[t].at \in Active, c \notin overlapped
            PROVE  v = t
        <5>1. task[v].at \in Active /\ task[v].conv = c
          BY <1>3, <4>3 DEF Follows
        <5>2. Continues(t)
          BY DEF XInv
        <5>. QED BY <1>1, <4>1, <4>3, <5>1, <5>2 DEF Continues
      <4>. QED BY <1>2, <3>1, <4>1, <4>2, <4>3 DEF Continues
    <3>2. CASE u # t
      <4>1. PICK d : d = task[u].conv
        OBVIOUS
      <4>2. task'[u] = task[u] /\ Continues(u)
        BY <1>3, <3>2 DEF XInv
      <4>3. CASE task[u].at \in Active /\ d \notin overlapped
        <5>1. d # c /\ d \in Conv
          BY <1>1, <1>2, <3>2, <4>1, <4>2, <4>3, TaskFacts DEF Continues, Pre, Active, Begun
        <5>2. conv'[d] = conv[d]
          BY <1>5, <5>1
        <5>3. \A v \in Turn : task'[v].at \in Active /\ task'[v].conv = d => v = u
          BY <1>3, <4>1, <4>2, <4>3 DEF Continues, Follows
        <5>4. task[u].at \in Pre /\ conv[d].state = "live" =>
                SubSeq(task[u].transcript, 1, task[u].start - 1) = LastTranscript(d)
          BY <4>1, <4>2, <4>3 DEF Continues
        <5>. QED BY <1>2, <4>1, <4>2, <4>3, <5>2, <5>3, <5>4, Zenon DEF Continues, LastTranscript
      <4>4. CASE ~ (task[u].at \in Active /\ d \notin overlapped)
        BY <1>2, <4>1, <4>2, <4>4 DEF Continues
      <4>. QED BY <4>3, <4>4
    <3>. QED BY <3>1, <3>2
  <2>. QED BY <2>1, <2>2 DEF XInv, ContextPreservedInTurn
<1>. QED BY <1>6, <1>7

LEMMA InitXInv == Init => XInv
<1> SUFFICES ASSUME Init PROVE XInv
  OBVIOUS
<1>1. \A c \in Conv : conv[c].turns = <<>>
  BY DEF Init, NoConv
<1>2. \A t \in Turn : task[t].at = "idle"
  BY DEF Init, NoTask
<1>. QED BY <1>1, <1>2 DEF XInv, ContextPreservedInTurn, ContextOf, Continues, Active

LEMMA XInvStep == TInv /\ AInv /\ WInv /\ HInv /\ XInv /\ [Next]_vars => XInv'
<1> SUFFICES ASSUME TInv, AInv, WInv, HInv, XInv, [Next]_vars PROVE XInv'
  OBVIOUS
<1>1. ASSUME NEW t \in Turn, StoreAnswer(t) \/ StoreQuestion(t) PROVE XInv'
  BY <1>1, StoresFacts, StoreXInv
<1>. QED BY <1>1, AskXInv, OtherXInv DEF Next

(* "raw_transcript is what Claude sees when the user continues an old         *)
(* conversation - so context is preserved across restores" (chat UI v2        *)
(* design): where no two turns of a conversation were under way at once, what *)
(* is stored for the next turn is the longest context of whole turns that     *)
(* fits the cap, whatever turns failed, were abandoned or cut off by a        *)
(* restart (service.py stream_turn, _cap_to_turn_boundary; history.py).       *)
THEOREM ContextKept == Spec => []ContextPreservedInTurn
<1>1. Init => TInv /\ AInv /\ WInv /\ HInv /\ XInv
  BY InitTInv, InitAInv, InitWInv, InitHInv, InitXInv
<1>2. TInv /\ AInv /\ WInv /\ HInv /\ XInv /\ [Next]_vars
        => (TInv /\ AInv /\ WInv /\ HInv /\ XInv)'
  BY TInvStep, AInvStep, WInvStep, HInvStep, XInvStep
<1>3. XInv => ContextPreservedInTurn
  BY DEF XInv
<1>. QED BY <1>1, <1>2, <1>3, PTL DEF Spec
==============================================================================
