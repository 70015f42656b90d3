--------------------------- MODULE ChatPageProofs ---------------------------
(***************************************************************************)
(* ChatPage for any number of conversations, sessions, texts, questions,    *)
(* requests under way and failures.                                        *)
(***************************************************************************)
EXTENDS ChatPage, TLAPS, WellFoundedInduction, FiniteSetTheorems

LEMMA LeastNat ==
  ASSUME NEW S, S \subseteq Nat, S # {}
  PROVE  Min(S) \in S /\ \A k \in S : Min(S) <= k
<1>1. IsWellFoundedOn(OpToRel(<, Nat), Nat)
  BY NatLessThanWellFounded
<1>2. PICK x \in S : \A y \in S : ~ (<<y, x>> \in OpToRel(<, Nat))
  BY <1>1, WFMin
<1>3. \A y \in S : ~ (y < x)
  BY <1>2 DEF OpToRel
<1>4. \A y \in S : x <= y
  BY <1>3
<1>5. Min(S) \in S /\ \A y \in S : Min(S) <= y
  BY <1>4, Zenon DEF Min
<1>. QED BY <1>5


LEMMA LargestNat ==
  ASSUME NEW S, S \subseteq Nat, S # {}, IsFiniteSet(S)
  PROVE  Max(S) \in S /\ \A k \in S : k <= Max(S)
<1>1. PICK bad : bad = {T \in SUBSET S : T # {} /\ \A x \in T : \E y \in T : ~ (x >= y)}
  OBVIOUS
<1>2. S \notin bad
  <2>1. SUFFICES ASSUME S \in bad PROVE FALSE
    OBVIOUS
  <2>2. PICK sizes : sizes = {Cardinality(T) : T \in bad}
    OBVIOUS
  <2>3. \A T \in SUBSET S : IsFiniteSet(T) /\ Cardinality(T) \in Nat
    BY FS_Subset, FS_CardinalityType
  <2>4. sizes \subseteq Nat /\ sizes # {}
    BY <1>1, <2>1, <2>2, <2>3
  <2>5. PICK T \in bad : Cardinality(T) = Min(sizes) /\ \A U \in bad : Min(sizes) <= Cardinality(U)
    BY <2>2, <2>4, LeastNat
  <2>6. PICK x : x \in T
    BY <1>1
  <2>7. PICK U : U = T \ {x}
    OBVIOUS
  <2>8. T \in SUBSET S /\ x \in Nat /\ T \subseteq Nat /\ U \in SUBSET S
    BY <1>1, <2>6, <2>7
  <2>9. Cardinality(U) = Cardinality(T) - 1 /\ Cardinality(T) \in Nat /\ Cardinality(U) \in Nat
    BY <2>3, <2>6, <2>7, <2>8, FS_RemoveElement
  <2>10. U \notin bad
    BY <2>5, <2>9
  <2>11. CASE U = {}
    BY <1>1, <2>6, <2>7, <2>8, <2>11
  <2>12. CASE U # {}
    <3>1. PICK y \in U : \A z \in U : y >= z
      BY <1>1, <2>8, <2>10, <2>12
    <3>2. PICK m \in {x, y} : m >= x /\ m >= y
      BY <2>7, <2>8, <3>1
    <3>3. \A z \in T : m >= z
      BY <2>7, <2>8, <3>1, <3>2
    <3>. QED BY <1>1, <2>6, <2>7, <3>1, <3>2, <3>3
  <2>. QED BY <2>11, <2>12
<1>3. PICK x \in S : \A y \in S : x >= y
  BY <1>1, <1>2
<1>4. Max(S) \in S /\ \A y \in S : Max(S) >= y
  BY <1>3, Zenon DEF Max
<1>. QED BY <1>4

(* ------------------------------- types ---------------------------------- *)

States == {"none", "live", "gone"}
Places == {"sent", "running", "refused", "over", "lost"}
ServerType == [state : States, owner : Session \cup {None}, turns : Seq(TurnType),
               updated : Nat]
ViewType == [loaded : BOOLEAN, shown : Seq(TurnType)]
CallType == [kind : Kinds, conv : Conv \cup {None}, session : 0..MaxSessions, text : 0..MaxTexts,
             answered : BOOLEAN, cookie : 0..MaxSessions, ok : BOOLEAN, listed : SUBSET Conv,
             turns : Seq(TurnType)]
StreamType == [text : 1..MaxTexts, conv : Conv, session : 0..MaxSessions, at : Places,
               cookie : 0..MaxSessions]

Exists(c) == c # None => conv[c].state # "none"

(* What a request and its answer may say: sessions that were handed out, a    *)
(* cookie only for a request that had none, texts that were typed, and        *)
(* conversations that were created.                                           *)
CallGood(r) ==
  /\ r.session <= given /\ r.cookie <= given /\ r.text <= typed
  /\ r.session # None => r.cookie = None
  /\ r.text # 0 => r.kind \in {"new", "list"}
  /\ r.text # 0 /\ r.kind = "list" => current # None
  /\ r.kind \in {"detail", "probe", "delete"} \/ (r.kind = "new" /\ r.answered) => r.conv # None
  /\ Exists(r.conv) /\ \A c \in r.listed : Exists(c)

Shapes ==
  /\ conv \in [Conv -> ServerType] /\ given \in 0..MaxSessions /\ jar \in 0..given
  /\ last \in Conv \cup {None} /\ current \in Conv \cup {None}
  /\ booting \in BOOLEAN /\ view \in [Conv -> ViewType] /\ list \subseteq Conv
  /\ typed \in 0..MaxTexts /\ input \in 0..typed
  /\ call \in [Slot -> CallType] /\ stream \in Seq(StreamType)
  /\ unsure \subseteq Conv /\ failures \in 0..MaxFailures

TInv ==
  /\ Shapes
  /\ \A c \in Conv : conv[c].state # "live" => conv[c].turns = <<>>
  /\ current # None => last = current
  /\ Exists(last) /\ \A c \in list : Exists(c)
  /\ \A i \in 1..Len(stream) : Exists(stream[i].conv)
  /\ \A i \in 1..Len(stream) : stream[i].cookie <= given
  /\ \A k \in Slot : CallGood(call[k])
  /\ Len(stream) + Cardinality(Ensuring) <= MaxSends

(* ----------------------------- stored turns ------------------------------ *)

Once(s) == \A i, j \in 1..Len(s) : s[i] = s[j] => i = j

(* Turn i is one of an earlier visit, or a question that was sent to c. *)
Of(i, c) == i = Earlier \/ (i \in 1..Len(stream) /\ stream[i].conv = c)

StoredGood(c) ==
  /\ Once(conv[c].turns)
  /\ \A n \in 1..Len(conv[c].turns) : LET i == conv[c].turns[n] IN
       Of(i, c) /\ (i # Earlier => stream[i].at = "over")

OfEarlierVisit(c) == \E n \in 1..Len(conv[c].turns) : conv[c].turns[n] = Earlier

(* The answer r to a conversation's detail holds the turns of an earlier      *)
(* visit, if there are any; a conversation that is being created has none.    *)
AnswerGood(r) ==
  /\ Once(r.turns) /\ \A n \in 1..Len(r.turns) : Of(r.turns[n], r.conv)
  /\ (r.ok => r.answered) /\ (~ r.ok => r.turns = <<>>)
  /\ r.kind = "detail" /\ r.ok /\ OfEarlierVisit(r.conv) =>
       \E n \in 1..Len(r.turns) : r.turns[n] = Earlier
  /\ r.kind = "new" /\ r.answered => ~ OfEarlierVisit(r.conv)

SInv ==
  /\ \A c \in Conv : StoredGood(c)
  /\ \A k \in Slot : AnswerGood(call[k])

(* -------------------------------- views ---------------------------------- *)

ViewGood(c) ==
  /\ Once(view[c].shown) /\ \A n \in 1..Len(view[c].shown) : Of(view[c].shown[n], c)
  /\ view[c].loaded => Due(c) \subseteq Range(view[c].shown)

(* Unless a question raced with its load or the load was refused, no load is  *)
(* under way for a view a question was sent to.                               *)
VInv ==
  /\ \A c \in Conv \ unsure : ViewGood(c)
  /\ \A i \in 1..Len(stream) :
       LET c == stream[i].conv IN c \notin unsure => view[c].loaded /\ ~ Loading(c)

LEMMA MaxOfTwo ==
  ASSUME NEW a \in Nat, NEW b \in Nat
  PROVE  Max({a, b}) = IF a >= b THEN a ELSE b
<1>1. \E x \in {a, b} : \A y \in {a, b} : x >= y
  OBVIOUS
<1>2. Max({a, b}) \in {a, b} /\ \A y \in {a, b} : Max({a, b}) >= y
  BY <1>1 DEF Max
<1>. QED BY <1>2

(* The time of a change of a conversation. *)
LEMMA NowNat ==
  ASSUME conv \in [Conv -> ServerType]
  PROVE  Now \in Nat
<1>1. PICK S : S = {conv[c].updated : c \in Conv}
  OBVIOUS
<1>2. S \subseteq Nat
  BY <1>1 DEF ServerType
<1>3. 1 \in Conv /\ IsFiniteSet(Conv)
  BY PageConstants, FS_Interval DEF Conv
<1>4. IsFiniteSet(S)
  <2>1. PICK f : f = [c \in Conv |-> conv[c].updated]
    OBVIOUS
  <2>2. f \in Surjection(Conv, S)
    BY <1>1, <2>1 DEF Surjection
  <2>. QED BY <1>3, <2>2, FS_Surjection
<1>5. conv[1].updated \in S
  BY <1>1, <1>3
<1>6. Max(S) \in S
  BY <1>2, <1>4, <1>5, LargestNat
<1>7. PICK m \in Nat : m = Max(S)
  BY <1>2, <1>6
<1>8. Now = m + 1
  BY <1>1, <1>7, Zenon DEF Now
<1>. QED BY <1>8

(* ------------------------------- requests -------------------------------- *)

LEMMA ConstantFacts ==
  /\ MaxConvs \in Nat /\ MaxSessions \in Nat /\ MaxSends \in Nat /\ MaxCalls \in Nat
  /\ MaxTexts \in Nat /\ MaxFailures \in Nat /\ None \notin Conv /\ 1 \in Slot
  /\ MaxConvs >= 1 /\ MaxSessions >= 1 /\ MaxSends >= 1
BY PageConstants DEF None, Conv, Slot

LEMMA RequestFacts ==
  ASSUME NEW kind \in Kinds, NEW c \in Conv \cup {None}, NEW text \in 0..MaxTexts,
         NEW s \in 0..MaxSessions
  PROVE  LET r == Request(kind, c, text, s) IN
         /\ r \in CallType /\ r.kind = kind /\ r.conv = c /\ r.session = s /\ r.text = text
         /\ r.cookie = None /\ r.listed = {} /\ r.turns = <<>> /\ ~ r.answered /\ ~ r.ok
<1>1. Idle \in CallType
  BY ConstantFacts DEF Idle, CallType, Kinds, None
<1>2. /\ Idle.cookie = None /\ Idle.listed = {} /\ Idle.turns = <<>> /\ ~ Idle.answered
      /\ ~ Idle.ok
  BY DEF Idle
<1>. QED BY <1>1, <1>2 DEF Request, CallType

(* The request of bootstrap, as Init has it. *)
LEMMA ListRequest ==
  ASSUME NEW s \in 0..MaxSessions
  PROVE  LET r == Request("list", None, 0, s) IN
         /\ r \in CallType /\ r.kind = "list" /\ r.conv = None /\ r.session = s /\ r.text = 0
         /\ r.cookie = None /\ r.listed = {} /\ r.turns = <<>> /\ ~ r.answered /\ ~ r.ok
<1>1. Idle \in CallType
  BY ConstantFacts DEF Idle, CallType, Kinds, None
<1>2. /\ Idle.cookie = None /\ Idle.listed = {} /\ Idle.turns = <<>> /\ ~ Idle.answered
      /\ ~ Idle.ok
  BY DEF Idle
<1>3. "list" \in Kinds /\ 0 \in 0..MaxTexts /\ None \in Conv \cup {None}
  BY ConstantFacts DEF Kinds
<1>. QED BY <1>1, <1>2, <1>3 DEF Request, CallType

LEMMA IdleFacts ==
  /\ Idle \in CallType /\ Idle.kind = "idle" /\ Idle.conv = None /\ Idle.session = None
  /\ Idle.text = 0 /\ Idle.cookie = None /\ Idle.listed = {} /\ Idle.turns = <<>>
  /\ ~ Idle.answered /\ ~ Idle.ok
<1>1. Idle \in CallType
  BY ConstantFacts DEF Idle, CallType, Kinds, None
<1>. QED BY <1>1 DEF Idle

(* What Reply and Cookie make of the answer a to request k. *)
LEMMA ReplyFacts ==
  ASSUME NEW k \in Slot, NEW a \in CallType
  PROVE  LET r == [a EXCEPT !.answered = TRUE] IN
         /\ r \in CallType /\ r.kind = a.kind /\ r.conv = a.conv /\ r.session = a.session
         /\ r.text = a.text /\ r.cookie = a.cookie /\ r.listed = a.listed /\ r.turns = a.turns
         /\ r.answered /\ (r.ok <=> a.ok)
BY DEF CallType

LEMMA CookieFacts ==
  ASSUME NEW k \in Slot, NEW a \in CallType, SessionOf(call[k].session) \in 0..MaxSessions
  PROVE  LET r == Cookie(k, a)
             s == call[k].session
         IN
         /\ r \in CallType /\ r.kind = a.kind /\ r.conv = a.conv /\ r.session = a.session
         /\ r.text = a.text /\ r.listed = a.listed /\ r.turns = a.turns /\ (r.ok <=> a.ok)
         /\ r.cookie = IF SessionOf(s) = s THEN None ELSE SessionOf(s)
BY ConstantFacts DEF CallType, Cookie, None

(* Texts that wait for a conversation. *)
LEMMA EnsuringFinite ==
  IsFiniteSet(Ensuring) /\ Cardinality(Ensuring) \in Nat
<1>1. IsFiniteSet(Slot)
  BY ConstantFacts, FS_Interval DEF Slot
<1>2. Ensuring \subseteq Slot
  BY DEF Ensuring
<1>3. IsFiniteSet(Ensuring)
  BY <1>1, <1>2, FS_Subset
<1>. QED BY <1>3, FS_CardinalityType

LEMMA EnsuringStep ==
  ASSUME NEW k \in Slot, NEW r, DOMAIN call = Slot, call' = [call EXCEPT ![k] = r]
  PROVE  /\ r.text # 0 /\ call[k].text = 0 => Cardinality(Ensuring') = Cardinality(Ensuring) + 1
         /\ r.text = 0 /\ call[k].text # 0 => Cardinality(Ensuring') = Cardinality(Ensuring) - 1
         /\ (r.text = 0 <=> call[k].text = 0) => Cardinality(Ensuring') = Cardinality(Ensuring)
<1>1. call'[k] = r /\ \A j \in Slot \ {k} : call'[j] = call[j]
  OBVIOUS
<1>2. r.text # 0 /\ call[k].text = 0 => Ensuring' = Ensuring \cup {k} /\ k \notin Ensuring
  BY <1>1 DEF Ensuring
<1>3. r.text = 0 /\ call[k].text # 0 => Ensuring' = Ensuring \ {k} /\ k \in Ensuring
  BY <1>1 DEF Ensuring
<1>4. (r.text = 0 <=> call[k].text = 0) => Ensuring' = Ensuring
  BY <1>1 DEF Ensuring
<1>. QED BY <1>2, <1>3, <1>4, EnsuringFinite, FS_AddElement, FS_RemoveElement

(* What a step never takes back. *)
Grows ==
  /\ given <= given' /\ typed <= typed' /\ (current # None => current' # None)
  /\ \A c \in Conv : conv[c].state # "none" => conv'[c].state # "none"

LEMMA ExistsKept ==
  ASSUME TInv, Grows
  PROVE  /\ \A c \in Conv \cup {None} : Exists(c) => Exists(c)'
         /\ Exists(last)' \/ last' # last
         /\ \A c \in list : Exists(c)'
         /\ \A i \in 1..Len(stream) : stream[i].conv \in Conv /\ conv'[stream[i].conv].state # "none"
<1>1. \A c \in Conv \cup {None} : Exists(c) => Exists(c)'
  BY DEF Grows, Exists
<1>2. Exists(last)' \/ last' # last
  <2>1. CASE last' = last
    BY <2>1, <1>1 DEF TInv, Shapes, Exists
  <2>. QED BY <2>1
<1>3. \A c \in list : Exists(c)'
  BY <1>1 DEF TInv, Shapes
<1>4. ASSUME NEW i \in 1..Len(stream)
      PROVE  stream[i].conv \in Conv /\ conv'[stream[i].conv].state # "none"
  <2>1. stream[i] \in StreamType
    BY DEF TInv, Shapes
  <2>2. stream[i].conv \in Conv /\ stream[i].conv # None
    BY <2>1, ConstantFacts DEF StreamType
  <2>. QED BY <2>2 DEF TInv, Exists, Grows
<1>. QED BY <1>1, <1>2, <1>3, <1>4

LEMMA CallKept ==
  ASSUME TInv, Grows, NEW j \in Slot, given \in Nat, given' \in Nat, typed \in Nat, typed' \in Nat
  PROVE  /\ CallGood(call[j]) /\ call[j] \in CallType
         /\ \A r : r = call[j] => CallGood(r)'
<1>1. PICK r : r = call[j]
  OBVIOUS
<1>2. r \in CallType /\ CallGood(r)
  BY <1>1 DEF TInv, Shapes
<1>3. /\ r.conv \in Conv \cup {None} /\ r.listed \subseteq Conv
      /\ {r.session, r.cookie, r.text} \subseteq Nat
  BY <1>2, ConstantFacts DEF CallType
<1>4. Exists(r.conv)' /\ \A c \in r.listed : Exists(c)'
  BY <1>2, <1>3, ExistsKept DEF CallGood
<1>5. r.session <= given' /\ r.cookie <= given' /\ r.text <= typed'
  BY <1>2, <1>3 DEF CallGood, Grows
<1>6. CallGood(r)'
  BY <1>2, <1>4, <1>5 DEF CallGood, Grows
<1>. QED BY <1>1, <1>2, <1>6

LEMMA CallsKept ==
  ASSUME TInv, Grows, given' \in Nat, typed' \in Nat, NEW k \in Slot, NEW r \in CallType,
         call' = [call EXCEPT ![k] = r], CallGood(r)'
  PROVE  call' \in [Slot -> CallType] /\ \A j \in Slot : CallGood(call[j])'
<1>1. call \in [Slot -> CallType] /\ given \in Nat /\ typed \in Nat
  BY ConstantFacts DEF TInv, Shapes
<1>2. call'[k] = r /\ \A j \in Slot \ {k} : call'[j] = call[j]
  BY <1>1
<1>3. ASSUME NEW j \in Slot PROVE CallGood(call[j])'
  <2>1. PICK x : x = call'[j]
    OBVIOUS
  <2>2. CallGood(x)'
    <3>1. CASE j = k
      BY <1>2, <2>1, <3>1
    <3>2. CASE j # k
      BY <1>1, <1>2, <2>1, <3>2, CallKept
    <3>. QED BY <3>1, <3>2
  <2>. QED BY <2>1, <2>2, Zenon DEF CallGood
<1>. QED BY <1>1, <1>3

LEMMA SameCallsKept ==
  ASSUME TInv, Grows, given' \in Nat, typed' \in Nat, UNCHANGED call
  PROVE  call' \in [Slot -> CallType] /\ \A j \in Slot : CallGood(call[j])'
<1>1. call \in [Slot -> CallType] /\ given \in Nat /\ typed \in Nat
  BY ConstantFacts DEF TInv, Shapes
<1>2. ASSUME NEW j \in Slot PROVE CallGood(call[j])'
  <2>1. PICK x : x = call[j]
    OBVIOUS
  <2>2. CallGood(x)'
    BY <1>1, <2>1, CallKept
  <2>3. x = call'[j]
    BY <2>1
  <2>. QED BY <2>2, <2>3, Zenon DEF CallGood
<1>. QED BY <1>1, <1>2

LEMMA SendFacts ==
  ASSUME NEW kind, NEW c, NEW text, Call(kind, c, text)
  PROVE  \E k \in Slot : /\ call[k].kind = "idle"
                         /\ call' = [call EXCEPT ![k] = Request(kind, c, text, jar)]
<1>1. FreeSlots \subseteq Slot /\ FreeSlots # {} /\ FreeSlots \subseteq Nat
  BY DEF Call, FreeSlots, Slot
<1>2. Min(FreeSlots) \in FreeSlots
  BY <1>1, LeastNat
<1>. QED BY <1>1, <1>2 DEF Call, Send, FreeSlots

(* The server answers request k with r. *)
Answers(k, r) ==
  /\ call' = [call EXCEPT ![k] = r] /\ r \in CallType /\ k \in Slot
  /\ ~ call[k].answered /\ r.answered /\ r.kind = call[k].kind
  /\ r.session = call[k].session /\ r.text = call[k].text
  /\ given <= given' /\ given' \in 0..MaxSessions
  /\ r.cookie <= given' /\ (r.session # None => r.cookie = None /\ given' = given)

AnswersList(k, r) ==
  /\ r.kind = "list" /\ r.conv = call[k].conv /\ r.turns = call[k].turns /\ (r.ok <=> call[k].ok)
  /\ UNCHANGED conv /\ \A c \in r.listed : conv[c].state = "live"

AnswersNew(k, r) ==
  /\ r.kind = "new" /\ r.listed = call[k].listed /\ r.turns = call[k].turns
  /\ (r.ok <=> call[k].ok) /\ r.conv \in Conv /\ conv[r.conv].state = "none"
  /\ \E s \in Session, n \in Nat :
       conv' = [conv EXCEPT ![r.conv] = [NoConv EXCEPT !.state = "live", !.owner = s,
                                                       !.updated = n]]

AnswersDetail(k, r) ==
  /\ r.kind \in {"detail", "probe"} /\ r.conv = call[k].conv /\ r.listed = call[k].listed
  /\ UNCHANGED conv
  /\ \/ Found(r.session, r.conv) /\ r.ok /\ r.turns = conv[r.conv].turns
     \/ ~ Found(r.session, r.conv) /\ (r.ok <=> call[k].ok) /\ r.turns = call[k].turns

AnswersDelete(k, r) ==
  /\ r.kind = "delete" /\ r.conv = call[k].conv /\ r.listed = call[k].listed
  /\ r.turns = call[k].turns
  /\ conv' \in {conv, [conv EXCEPT ![r.conv] = [@ EXCEPT !.state = "gone", !.turns = <<>>]]}

LEMMA HandOutFacts ==
  ASSUME TInv, NEW k \in Slot, HandOut(k)
  PROVE  LET s == call[k].session IN
         /\ SessionOf(s) \in 1..MaxSessions /\ given <= given' /\ given' \in 0..MaxSessions
         /\ SessionOf(s) <= given' /\ (s # None => SessionOf(s) = s /\ given' = given)
<1>1. PICK s \in 0..MaxSessions, g \in Nat : s = call[k].session /\ g = given /\ s <= g
  BY ConstantFacts DEF TInv, Shapes, CallType, CallGood
<1>2. g <= MaxSessions
  BY <1>1 DEF TInv, Shapes
<1>3. PICK n \in Nat : n = SessionOf(s) /\ n >= 1 /\ n <= MaxSessions /\ (s # None => n = s)
  <2>1. SessionOf(s) = IF s = 0 THEN g + 1 ELSE s
    BY <1>1 DEF SessionOf, None
  <2>2. SessionOf(s) <= MaxSessions
    BY <1>1 DEF HandOut
  <2>. QED BY <1>1, <2>1, <2>2, ConstantFacts DEF None
<1>4. given' = IF g >= n THEN g ELSE n
  BY <1>1, <1>3, MaxOfTwo DEF HandOut
<1>. QED BY <1>1, <1>2, <1>3, <1>4, ConstantFacts

(* An answer that carries the cookie of its session. *)
LEMMA CarriesCookie ==
  ASSUME TInv, NEW k \in Slot, HandOut(k), NEW a \in CallType, a.session = call[k].session,
         a.kind = call[k].kind, a.text = call[k].text, ~ call[k].answered,
         Reply(k, Cookie(k, a))
  PROVE  \E r : /\ Answers(k, r) /\ r.conv = a.conv /\ r.listed = a.listed /\ r.turns = a.turns
                /\ (r.ok <=> a.ok)
<1>1. PICK b : b = Cookie(k, a)
  OBVIOUS
<1>2. /\ b \in CallType /\ b.kind = a.kind /\ b.conv = a.conv /\ b.session = a.session
      /\ b.text = a.text /\ b.listed = a.listed /\ b.turns = a.turns /\ (b.ok <=> a.ok)
      /\ b.cookie = IF SessionOf(call[k].session) = call[k].session
                    THEN None ELSE SessionOf(call[k].session)
  <2>1. SessionOf(call[k].session) \in 0..MaxSessions
    BY HandOutFacts, ConstantFacts
  <2>. QED BY <1>1, <2>1, CookieFacts
<1>3. PICK r : r = [b EXCEPT !.answered = TRUE]
  OBVIOUS
<1>4. /\ r \in CallType /\ r.kind = b.kind /\ r.conv = b.conv /\ r.session = b.session
      /\ r.text = b.text /\ r.cookie = b.cookie /\ r.listed = b.listed /\ r.turns = b.turns
      /\ r.answered /\ (r.ok <=> b.ok)
  BY <1>2, <1>3, ReplyFacts
<1>5. call' = [call EXCEPT ![k] = r]
  BY <1>1, <1>3 DEF Reply
<1>6. r.cookie <= given' /\ (r.session # None => r.cookie = None /\ given' = given)
  BY <1>2, <1>4, HandOutFacts, ConstantFacts DEF None
<1>7. Answers(k, r)
  BY <1>2, <1>4, <1>5, <1>6, HandOutFacts DEF Answers
<1>. QED BY <1>2, <1>4, <1>7, Zenon

(* An error brings no cookie. *)
LEMMA BringsNothing ==
  ASSUME TInv, NEW k \in Slot, ~ call[k].answered, Reply(k, call[k]), UNCHANGED given
  PROVE  \E r : /\ Answers(k, r) /\ r.conv = call[k].conv /\ r.listed = call[k].listed
                /\ r.turns = call[k].turns /\ (r.ok <=> call[k].ok)
<1>1. PICK a : a = call[k] /\ a \in CallType /\ CallGood(a)
  BY DEF TInv, Shapes
<1>2. PICK r : r = [a EXCEPT !.answered = TRUE]
  OBVIOUS
<1>3. /\ r \in CallType /\ r.kind = a.kind /\ r.conv = a.conv /\ r.session = a.session
      /\ r.text = a.text /\ r.cookie = a.cookie /\ r.listed = a.listed /\ r.turns = a.turns
      /\ r.answered /\ (r.ok <=> a.ok)
  BY <1>1, <1>2, ReplyFacts
<1>4. call' = [call EXCEPT ![k] = r]
  BY <1>1, <1>2 DEF Reply
<1>5. given' = given /\ given \in 0..MaxSessions
  BY DEF TInv, Shapes
<1>6. Answers(k, r)
  BY <1>1, <1>3, <1>4, <1>5, ConstantFacts DEF Answers, CallGood
<1>. QED BY <1>1, <1>3, <1>6, Zenon

LEMMA ServeFacts ==
  ASSUME TInv, NEW k \in Slot, Serve(k)
  PROVE  \E r : /\ Answers(k, r)
                /\ \/ AnswersList(k, r) \/ AnswersNew(k, r) \/ AnswersDetail(k, r)
                   \/ AnswersDelete(k, r)
<1>1. PICK a : a = call[k] /\ a \in CallType /\ CallGood(a)
  BY DEF TInv, Shapes
<1>2. CASE ServeList(k)
  <2>7. PICK L : L = Listed(SessionOf(call[k].session))
    OBVIOUS
  <2>1. L \subseteq Conv /\ \A c \in L : conv[c].state = "live"
    BY <2>7 DEF Listed, OwnedBy, Found
  <2>2. PICK b : b = [a EXCEPT !.listed = L]
    OBVIOUS
  <2>3. /\ b \in CallType /\ b.kind = a.kind /\ b.conv = a.conv /\ b.session = a.session
        /\ b.text = a.text /\ b.listed = L /\ b.turns = a.turns /\ (b.ok <=> a.ok)
    BY <1>1, <2>1, <2>2 DEF CallType
  <2>4. /\ HandOut(k) /\ Reply(k, Cookie(k, b)) /\ ~ call[k].answered /\ a.kind = "list"
        /\ UNCHANGED conv
    BY <1>1, <1>2, <2>7, <2>2 DEF ServeList, Waiting
  <2>5. PICK r : /\ Answers(k, r) /\ r.conv = b.conv /\ r.listed = b.listed /\ r.turns = b.turns
                 /\ (r.ok <=> b.ok)
    BY <1>1, <2>3, <2>4, CarriesCookie
  <2>6. AnswersList(k, r)
    BY <1>1, <2>1, <2>3, <2>4, <2>5 DEF AnswersList, Answers
  <2>. QED BY <2>5, <2>6
<1>3. CASE ServeNew(k)
  <2>1. PICK c : c = Min(Unused)
    OBVIOUS
  <2>2. c \in Conv /\ conv[c].state = "none"
    <3>1. Unused # {} /\ Unused \subseteq Nat
      BY <1>3 DEF ServeNew, Unused, Conv
    <3>. QED BY <2>1, <3>1, LeastNat DEF Unused
  <2>3. PICK b : b = [a EXCEPT !.conv = c]
    OBVIOUS
  <2>4. /\ b \in CallType /\ b.kind = a.kind /\ b.conv = c /\ b.session = a.session
        /\ b.text = a.text /\ b.listed = a.listed /\ b.turns = a.turns /\ (b.ok <=> a.ok)
    BY <1>1, <2>2, <2>3 DEF CallType
  <2>5. /\ HandOut(k) /\ Reply(k, Cookie(k, b)) /\ ~ call[k].answered /\ a.kind = "new"
        /\ conv' = [conv EXCEPT ![c] = [NoConv EXCEPT !.state = "live",
                                                      !.owner = SessionOf(call[k].session),
                                                      !.updated = Now]]
    BY <1>1, <1>3, <2>1, <2>3 DEF ServeNew, Waiting
  <2>6. PICK r : /\ Answers(k, r) /\ r.conv = b.conv /\ r.listed = b.listed /\ r.turns = b.turns
                 /\ (r.ok <=> b.ok)
    BY <1>1, <2>4, <2>5, CarriesCookie
  <2>7. SessionOf(call[k].session) \in Session /\ Now \in Nat
    BY <2>5, HandOutFacts, NowNat DEF Session, TInv, Shapes
  <2>8. AnswersNew(k, r)
    BY <1>1, <2>2, <2>4, <2>5, <2>6, <2>7 DEF AnswersNew, Answers
  <2>. QED BY <2>6, <2>8
<1>4. CASE ServeDetail(k)
  <2>1. a.kind \in {"detail", "probe"} /\ ~ call[k].answered /\ UNCHANGED conv
    BY <1>1, <1>4 DEF ServeDetail, Waiting
  <2>2. CASE Found(a.session, a.conv)
    <3>1. PICK b : b = [a EXCEPT !.ok = TRUE, !.turns = conv[a.conv].turns]
      OBVIOUS
    <3>2. a.conv \in Conv
      BY <1>1, <2>1 DEF CallGood, CallType
    <3>3. /\ b \in CallType /\ b.kind = a.kind /\ b.conv = a.conv /\ b.session = a.session
          /\ b.text = a.text /\ b.listed = a.listed /\ b.turns = conv[a.conv].turns /\ b.ok
      <4>1. conv[a.conv].turns \in Seq(TurnType)
        BY <3>2 DEF TInv, Shapes, ServerType
      <4>. QED BY <1>1, <3>1, <4>1 DEF CallType
    <3>4. HandOut(k) /\ Reply(k, Cookie(k, b))
      BY <1>1, <1>4, <2>2, <3>1 DEF ServeDetail
    <3>5. PICK r : /\ Answers(k, r) /\ r.conv = b.conv /\ r.listed = b.listed
                   /\ r.turns = b.turns /\ (r.ok <=> b.ok)
      BY <1>1, <2>1, <3>3, <3>4, CarriesCookie
    <3>6. AnswersDetail(k, r)
      BY <1>1, <2>1, <2>2, <3>3, <3>5 DEF AnswersDetail, Answers
    <3>. QED BY <3>5, <3>6
  <2>3. CASE ~ Found(a.session, a.conv)
    <3>1. Reply(k, call[k]) /\ UNCHANGED given
      BY <1>1, <1>4, <2>3 DEF ServeDetail
    <3>2. PICK r : /\ Answers(k, r) /\ r.conv = call[k].conv /\ r.listed = call[k].listed
                   /\ r.turns = call[k].turns /\ (r.ok <=> call[k].ok)
      BY <2>1, <3>1, BringsNothing
    <3>3. AnswersDetail(k, r)
      BY <1>1, <2>1, <2>3, <3>2 DEF AnswersDetail, Answers
    <3>. QED BY <3>2, <3>3
  <2>. QED BY <2>2, <2>3
<1>5. CASE ServeDelete(k)
  <2>1. a.kind = "delete" /\ ~ call[k].answered
    BY <1>1, <1>5 DEF ServeDelete, Waiting
  <2>2. CASE Found(a.session, a.conv)
    <3>1. PICK b : b = [a EXCEPT !.ok = TRUE]
      OBVIOUS
    <3>2. /\ b \in CallType /\ b.kind = a.kind /\ b.conv = a.conv /\ b.session = a.session
          /\ b.text = a.text /\ b.listed = a.listed /\ b.turns = a.turns
      BY <1>1, <3>1 DEF CallType
    <3>3. /\ HandOut(k) /\ Reply(k, Cookie(k, b))
          /\ conv' = [conv EXCEPT ![a.conv] = [@ EXCEPT !.state = "gone", !.turns = <<>>]]
      BY <1>1, <1>5, <2>2, <3>1 DEF ServeDelete
    <3>4. PICK r : /\ Answers(k, r) /\ r.conv = b.conv /\ r.listed = b.listed
                   /\ r.turns = b.turns
      BY <1>1, <2>1, <3>2, <3>3, CarriesCookie
    <3>5. AnswersDelete(k, r)
      BY <1>1, <2>1, <3>2, <3>3, <3>4 DEF AnswersDelete, Answers
    <3>. QED BY <3>4, <3>5
  <2>3. CASE ~ Found(a.session, a.conv)
    <3>1. Reply(k, call[k]) /\ UNCHANGED <<conv, given>>
      BY <1>1, <1>5, <2>3 DEF ServeDelete
    <3>2. PICK r : /\ Answers(k, r) /\ r.conv = call[k].conv /\ r.listed = call[k].listed
                   /\ r.turns = call[k].turns
      BY <2>1, <3>1, BringsNothing
    <3>3. AnswersDelete(k, r)
      BY <1>1, <2>1, <3>1, <3>2 DEF AnswersDelete, Answers
    <3>. QED BY <3>2, <3>3
  <2>. QED BY <2>2, <2>3
<1>. QED BY <1>2, <1>3, <1>4, <1>5 DEF Serve

(* --------------------------- types, step by step ------------------------- *)

LEMMA GoesOn ==
  ASSUME TInv, Grows, given' \in Nat, typed' \in Nat, NEW k \in Slot,
         NEW kind \in Kinds, NEW c \in Conv \cup {None}, NEW text \in 0..typed, NEW s \in 0..given,
         kind \in {"detail", "probe", "delete"} => c # None, Exists(c),
         text # 0 => kind \in {"new", "list"}, text # 0 /\ kind = "list" => current' # None,
         call' = [call EXCEPT ![k] = Request(kind, c, text, s)]
  PROVE  call' \in [Slot -> CallType] /\ \A j \in Slot : CallGood(call[j])'
<1>1. text \in 0..MaxTexts /\ s \in 0..MaxSessions /\ given \in Nat /\ typed \in Nat
  BY ConstantFacts DEF TInv, Shapes
<1>2. PICK r : r = Request(kind, c, text, s)
  OBVIOUS
<1>3. /\ r \in CallType /\ r.kind = kind /\ r.conv = c /\ r.session = s /\ r.text = text
      /\ r.cookie = None /\ r.listed = {} /\ r.turns = <<>> /\ ~ r.answered /\ ~ r.ok
  BY <1>1, <1>2, RequestFacts
<1>4. Exists(c)'
  BY ExistsKept
<1>5. r.session <= given' /\ r.cookie <= given' /\ r.text <= typed'
  BY <1>1, <1>3 DEF Grows, None
<1>6. CallGood(r)'
  BY <1>3, <1>4, <1>5 DEF CallGood
<1>. QED BY <1>2, <1>3, <1>6, CallsKept

LEMMA Finishes ==
  ASSUME TInv, Grows, given' \in Nat, typed' \in Nat, NEW k \in Slot,
         call' = [call EXCEPT ![k] = Idle]
  PROVE  call' \in [Slot -> CallType] /\ \A j \in Slot : CallGood(call[j])'
<1>1. PICK r : r = Idle
  OBVIOUS
<1>2. /\ r \in CallType /\ r.kind = "idle" /\ r.conv = None /\ r.session = None /\ r.text = 0
      /\ r.cookie = None /\ r.listed = {}
  BY <1>1, IdleFacts
<1>3. CallGood(r)'
  BY <1>2, ConstantFacts DEF CallGood, Exists, None
<1>. QED BY <1>1, <1>2, <1>3, CallsKept

(* Sessions on their way to the browser have been handed out. *)
LEMMA HeadersGood ==
  ASSUME TInv, UNCHANGED stream, given <= given', given' \in 0..MaxSessions
  PROVE  \A i \in 1..Len(stream') : stream'[i].cookie <= given'
<1>1. SUFFICES ASSUME NEW i \in 1..Len(stream) PROVE stream[i].cookie <= given'
  OBVIOUS
<1>2. PICK n : n = stream[i].cookie /\ n \in 0..MaxSessions /\ n <= given
  <2>1. PICK q \in StreamType : q = stream[i]
    BY DEF TInv, Shapes
  <2>. QED BY <2>1 DEF TInv, StreamType
<1>. QED BY <1>2, ConstantFacts DEF TInv, Shapes

LEMMA ServeTInv ==
  ASSUME TInv, NEW k \in Slot, Serve(k)
  PROVE  TInv'
<1>1. PICK r : /\ Answers(k, r)
               /\ AnswersList(k, r) \/ AnswersNew(k, r) \/ AnswersDetail(k, r) \/ AnswersDelete(k, r)
  BY ServeFacts
<1>2. UNCHANGED <<jar, page, failures>>
  BY DEF Serve, ServeList, ServeNew, ServeDetail, ServeDelete
<1>3. UNCHANGED <<jar, last, current, booting, view, list, input, typed, stream, unsure, failures>>
  BY <1>2 DEF page
<1>4. /\ conv' \in [Conv -> ServerType]
      /\ \A c \in Conv : /\ conv[c].state # "none" => conv'[c].state # "none"
                         /\ conv'[c].state # "live" => conv'[c].turns = <<>>
  <2>4. conv \in [Conv -> ServerType] /\ \A c \in Conv : conv[c].state # "live" => conv[c].turns = <<>>
    BY DEF TInv, Shapes
  <2>1. CASE UNCHANGED conv
    BY <2>4, <2>1
  <2>2. CASE AnswersNew(k, r)
    <3>1. PICK s \in Session, u \in Nat :
            conv' = [conv EXCEPT ![r.conv] =
                       [NoConv EXCEPT !.state = "live", !.owner = s, !.updated = u]]
      BY <2>2 DEF AnswersNew
    <3>2. PICK c, n : /\ c = r.conv
                      /\ n = [NoConv EXCEPT !.state = "live", !.owner = s, !.updated = u]
      OBVIOUS
    <3>3. NoConv \in ServerType
      BY DEF NoConv, ServerType, States
    <3>4. n \in ServerType /\ n.state = "live"
      BY <3>2, <3>3 DEF ServerType, States
    <3>. QED BY <2>4, <3>1, <3>2, <3>4
  <2>3. CASE AnswersDelete(k, r) /\ conv' # conv
    <3>1. PICK c, n : /\ c = r.conv /\ n = [conv[c] EXCEPT !.state = "gone", !.turns = <<>>]
                      /\ conv' = [conv EXCEPT ![c] = n]
      BY <2>3 DEF AnswersDelete
    <3>2. c \in Conv
      BY <2>4, <2>3, <3>1
    <3>3. n \in ServerType /\ n.state = "gone" /\ n.turns = <<>>
      <4>1. PICK old \in ServerType : old = conv[c]
        BY <2>4, <3>2
      <4>2. n = [old EXCEPT !.state = "gone", !.turns = <<>>]
        BY <3>1, <4>1
      <4>3. <<>> \in Seq(TurnType)
        OBVIOUS
      <4>. QED BY <4>2, <4>3 DEF ServerType, States
    <3>. QED BY <2>4, <3>1, <3>3
  <2>. QED BY <1>1, <2>1, <2>2, <2>3 DEF AnswersList, AnswersDetail
<1>5. Grows
  BY <1>1, <1>3, <1>4, ConstantFacts DEF Grows, Answers, TInv, Shapes
<1>6. given' \in 0..MaxSessions /\ given' \in Nat /\ typed' \in Nat /\ jar' \in 0..given'
  BY <1>1, <1>3, <1>5, ConstantFacts DEF Answers, TInv, Shapes, Grows
<1>7. PICK a : a = call[k] /\ a \in CallType /\ CallGood(a)
  BY <1>1 DEF TInv, Shapes
<1>8. /\ r \in CallType /\ r.kind = a.kind /\ r.session = a.session /\ r.text = a.text
      /\ r.cookie <= given' /\ (r.session # None => r.cookie = None) /\ r.answered
      /\ call' = [call EXCEPT ![k] = r]
  BY <1>1, <1>7 DEF Answers
<1>9. CallGood(r)'
  <2>1. r.session <= given' /\ r.text <= typed'
    <3>1. {a.session, a.text, given, typed, given', typed'} \subseteq Nat
      BY <1>6, <1>7, ConstantFacts DEF CallType, TInv, Shapes
    <3>. QED BY <1>5, <1>7, <1>8, <3>1 DEF CallGood, Grows
  <2>2. /\ Exists(r.conv)' /\ \A c \in r.listed : Exists(c)'
        /\ r.kind \in {"detail", "probe", "delete", "new"} => r.conv # None
    <3>1. Exists(a.conv)' /\ \A c \in a.listed : Exists(c)'
      BY <1>5, <1>7, ExistsKept DEF CallGood, CallType
    <3>2. CASE AnswersNew(k, r)
      <4>1. r.conv \in Conv /\ r.listed = a.listed
        BY <1>7, <3>2 DEF AnswersNew
      <4>2. conv'[r.conv].state # "none"
        <5>1. PICK s \in Session, n \in Nat :
                conv' = [conv EXCEPT ![r.conv] = [NoConv EXCEPT !.state = "live",
                                                                !.owner = s,
                                                                !.updated = n]]
          BY <3>2 DEF AnswersNew
        <5>2. PICK v : v = [NoConv EXCEPT !.state = "live", !.owner = s, !.updated = n]
          OBVIOUS
        <5>3. v.state = "live"
          BY <5>2 DEF NoConv
        <5>4. conv' = [conv EXCEPT ![r.conv] = v]
          BY <5>1, <5>2
        <5>5. conv'[r.conv] = v
          BY <4>1, <5>4 DEF TInv, Shapes
        <5>. QED BY <5>3, <5>5
      <4>. QED BY <3>1, <4>1, <4>2, ConstantFacts DEF Exists
    <3>3. CASE AnswersList(k, r)
      <4>1. r.kind = "list" /\ r.conv = a.conv /\ \A c \in r.listed : c \in Conv
        BY <1>7, <1>8, <3>3 DEF AnswersList, CallType
      <4>2. \A c \in r.listed : conv'[c].state # "none"
        BY <3>3, <4>1 DEF AnswersList
      <4>. QED BY <3>1, <4>1, <4>2 DEF Exists
    <3>4. CASE AnswersDetail(k, r) \/ AnswersDelete(k, r)
      BY <1>7, <1>8, <3>1, <3>4 DEF AnswersDetail, AnswersDelete, CallGood
    <3>. QED BY <1>1, <3>2, <3>3, <3>4
  <2>. QED BY <1>3, <1>7, <1>8, <2>1, <2>2 DEF CallGood
<1>10. call' \in [Slot -> CallType] /\ \A j \in Slot : CallGood(call[j])'
  BY <1>1, <1>5, <1>6, <1>8, <1>9, CallsKept DEF Answers
<1>11. Cardinality(Ensuring') = Cardinality(Ensuring)
  <2>1. DOMAIN call = Slot
    BY DEF TInv, Shapes
  <2>. QED BY <1>7, <1>8, <2>1, EnsuringStep
<1>12. Shapes'
  BY <1>3, <1>4, <1>6, <1>10 DEF TInv, Shapes
<1>13. Exists(last)' /\ (\A c \in list' : Exists(c)') /\ \A i \in 1..Len(stream') : Exists(stream[i].conv)'
  BY <1>3, <1>5, ExistsKept DEF Exists
<1>14. current' # None => last' = current'
  BY <1>3 DEF TInv
<1>15. Len(stream') + Cardinality(Ensuring') <= MaxSends
  BY <1>3, <1>11 DEF TInv
<1>16. \A i \in 1..Len(stream') : stream'[i].cookie <= given'
  BY <1>1, <1>3, HeadersGood DEF Answers
<1>. QED BY <1>4, <1>10, <1>12, <1>13, <1>14, <1>15, <1>16 DEF TInv

(* The question that SendTo posts, and where it is shown. *)
LEMMA SendToFacts ==
  ASSUME TInv, NEW text \in 1..MaxTexts, NEW c \in Conv, NEW s \in 0..MaxSessions,
         Len(stream) < MaxSends, SendTo(text, c, s)
  PROVE  /\ stream' \in Seq(StreamType) /\ Len(stream') = Len(stream) + 1
         /\ stream'[Len(stream) + 1].conv = c /\ stream'[Len(stream) + 1].session = s
         /\ stream'[Len(stream) + 1].cookie = None
         /\ \A i \in 1..Len(stream) : stream'[i] = stream[i]
         /\ view' \in [Conv -> ViewType] /\ \A d \in Conv \ {c} : view'[d] = view[d]
         /\ view'[c].loaded /\ view'[c].shown = Append(view[c].shown, Len(stream) + 1)
         /\ unsure' \subseteq Conv /\ unsure \subseteq unsure' /\ input' = 0
<1>1. stream \in Seq(StreamType) /\ view \in [Conv -> ViewType] /\ unsure \subseteq Conv
  BY DEF TInv, Shapes
<1>2. PICK q : q = [text |-> text, conv |-> c, session |-> s, at |-> "sent",
                  cookie |-> None]
  OBVIOUS
<1>3. q \in StreamType /\ q.conv = c /\ q.session = s /\ q.cookie = None
  BY <1>2, ConstantFacts DEF None, StreamType, Places
<1>4. stream' = Append(stream, q)
  BY <1>2 DEF SendTo
<1>5. /\ stream' \in Seq(StreamType) /\ Len(stream') = Len(stream) + 1
      /\ stream'[Len(stream) + 1] = q /\ \A i \in 1..Len(stream) : stream'[i] = stream[i]
  BY <1>1, <1>3, <1>4
<1>6. PICK n : n = Len(stream) + 1
  OBVIOUS
<1>7. n \in TurnType
  BY <1>1, <1>6, ConstantFacts DEF TurnType
<1>8. PICK old : old = view[c].shown /\ old \in Seq(TurnType)
  BY <1>1 DEF ViewType
<1>9. PICK v : v = [loaded |-> TRUE, shown |-> Append(old, n)]
  OBVIOUS
<1>10. v \in ViewType /\ v.loaded /\ v.shown = Append(old, n)
  BY <1>7, <1>8, <1>9 DEF ViewType
<1>11. view' = [view EXCEPT ![c] = v]
  BY <1>6, <1>8, <1>9 DEF SendTo
<1>12. unsure' \subseteq Conv /\ unsure \subseteq unsure' /\ input' = 0
  BY <1>1 DEF SendTo
<1>. QED BY <1>1, <1>3, <1>5, <1>6, <1>8, <1>10, <1>11, <1>12

LEMMA ShapeFacts ==
  ASSUME TInv
  PROVE  /\ given \in Nat /\ typed \in Nat /\ jar \in Nat /\ jar \in 0..given
         /\ jar \in 0..MaxSessions /\ Len(stream) \in Nat /\ DOMAIN call = Slot
         /\ \A k \in Slot : call[k] \in CallType /\ CallGood(call[k])
         /\ given <= MaxSessions /\ typed <= MaxTexts
BY ConstantFacts DEF TInv, Shapes

LEMMA JarFacts ==
  ASSUME TInv, NEW k \in Slot
  PROVE  Jar(k) \in 0..given /\ Jar(k) \in 0..MaxSessions
<1>1. PICK a \in CallType : a = call[k] /\ CallGood(a)
  BY ShapeFacts
<1>2. a.cookie \in Nat /\ a.cookie <= given
  BY <1>1, ConstantFacts DEF CallType, CallGood
<1>3. Jar(k) = a.cookie \/ Jar(k) = jar
  BY <1>1 DEF Jar
<1>4. Jar(k) \in Nat /\ Jar(k) <= given
  BY <1>2, <1>3, ShapeFacts
<1>. QED BY <1>4, ShapeFacts, ConstantFacts

(* How many texts wait for a conversation once request k is r. *)
LEMMA TextCount ==
  ASSUME TInv, NEW k \in Slot, NEW r \in CallType, call' = [call EXCEPT ![k] = r]
  PROVE  /\ Cardinality(Ensuring) \in Nat /\ Cardinality(Ensuring') \in Nat
         /\ Cardinality(Ensuring') <= Cardinality(Ensuring) + 1
         /\ r.text = 0 \/ call[k].text # 0 => Cardinality(Ensuring') <= Cardinality(Ensuring)
         /\ r.text = 0 /\ call[k].text # 0 =>
              Cardinality(Ensuring') + 1 <= Cardinality(Ensuring)
<1>1. IsFiniteSet(Slot)
  BY ConstantFacts, FS_Interval DEF Slot
<1>2. Ensuring' \subseteq Slot
  BY DEF Ensuring
<1>3. IsFiniteSet(Ensuring')
  BY <1>1, <1>2, FS_Subset
<1>4. PICK m, n : m = Cardinality(Ensuring) /\ n = Cardinality(Ensuring')
  OBVIOUS
<1>5. m \in Nat /\ n \in Nat
  BY <1>3, <1>4, FS_CardinalityType, EnsuringFinite
<1>6. /\ r.text # 0 /\ call[k].text = 0 => n = m + 1
      /\ r.text = 0 /\ call[k].text # 0 => n = m - 1
      /\ (r.text = 0 <=> call[k].text = 0) => n = m
  BY <1>4, ShapeFacts, EnsuringStep
<1>7. /\ n <= m + 1
      /\ r.text = 0 \/ call[k].text # 0 => n <= m
      /\ r.text = 0 /\ call[k].text # 0 => n + 1 <= m
  BY <1>5, <1>6
<1>. QED BY <1>4, <1>5, <1>7

(* A request that carries no new text leaves room for those that wait. *)
LEMMA StillRoom ==
  ASSUME TInv, NEW k \in Slot, NEW r \in CallType, call' = [call EXCEPT ![k] = r],
         r.text = 0 \/ call[k].text # 0, UNCHANGED stream
  PROVE  Len(stream') + Cardinality(Ensuring') <= MaxSends
<1>1. PICK m, n : m = Cardinality(Ensuring) /\ n = Cardinality(Ensuring')
  OBVIOUS
<1>2. m \in Nat /\ n \in Nat /\ n <= m
  BY <1>1, TextCount
<1>3. Len(stream) + m <= MaxSends
  BY <1>1 DEF TInv
<1>4. Len(stream) + n <= MaxSends
  BY <1>2, <1>3, ShapeFacts, ConstantFacts
<1>. QED BY <1>1, <1>4

(* Steps that leave what exists as it is. *)
LEMMA SameServer ==
  ASSUME TInv, UNCHANGED <<conv, given>>, typed' \in Nat, typed <= typed',
         current # None => current' # None
  PROVE  /\ Grows /\ \A c \in list : Exists(c)'
         /\ \A c \in Conv \cup {None} : Exists(c) <=> Exists(c)'
         /\ \A i \in 1..Len(stream) : Exists(stream[i].conv) /\ conv'[stream[i].conv].state # "none"
<1>1. Grows
  BY ShapeFacts DEF Grows
<1>2. \A c \in Conv \cup {None} : Exists(c) <=> Exists(c)'
  BY DEF Exists
<1>. QED BY <1>1, <1>2, ExistsKept DEF TInv

LEMMA UserTInv ==
  ASSUME TInv, Poll \/ New \/ (\E c \in Conv : Delete(c)) \/ Boot
  PROVE  TInv'
<1>1. /\ UNCHANGED <<conv, given, jar, last, current, view, list, input, typed, stream, unsure,
                     failures>>
      /\ booting' \in BOOLEAN
  BY DEF Poll, New, Delete, Boot, server, page, TInv, Shapes
<1>2. PICK kind \in Kinds, c \in Conv \cup {None} :
        /\ kind \in {"list", "new", "delete", "probe"} /\ Call(kind, c, 0) /\ Exists(c)
        /\ kind \in {"delete", "probe"} => c # None
  <2>1. CASE Poll
    BY <2>1 DEF Poll, Kinds, Exists
  <2>2. CASE New
    BY <2>2 DEF New, Kinds, Exists
  <2>3. CASE \E c \in Conv : Delete(c)
    BY <2>3, ConstantFacts DEF Delete, Kinds, TInv
  <2>4. CASE Boot
    BY <2>4 DEF Boot, Kinds, TInv, Shapes, Exists
  <2>. QED BY <2>1, <2>2, <2>3, <2>4
<1>3. PICK k \in Slot : /\ call[k].kind = "idle"
                        /\ call' = [call EXCEPT ![k] = Request(kind, c, 0, jar)]
  BY <1>2, SendFacts
<1>4. /\ Grows /\ \A d \in list : Exists(d)'
      /\ \A d \in Conv \cup {None} : Exists(d) <=> Exists(d)'
      /\ \A i \in 1..Len(stream) : Exists(stream[i].conv) /\ conv'[stream[i].conv].state # "none"
  BY <1>1, ShapeFacts, SameServer
<1>5. call' \in [Slot -> CallType] /\ \A j \in Slot : CallGood(call[j])'
  <2>1. 0 \in 0..typed /\ jar \in 0..given /\ given' \in Nat /\ typed' \in Nat
    BY <1>1, ShapeFacts
  <2>. QED BY <1>2, <1>3, <1>4, <2>1, GoesOn
<1>6. PICK r : r = Request(kind, c, 0, jar)
  OBVIOUS
<1>7. Len(stream') + Cardinality(Ensuring') <= MaxSends
  <2>1. 0 \in 0..MaxTexts /\ jar \in 0..MaxSessions
    BY ConstantFacts, ShapeFacts
  <2>2. r \in CallType /\ r.text = 0
    BY <1>2, <1>6, <2>1, RequestFacts
  <2>3. call' = [call EXCEPT ![k] = r]
    BY <1>3, <1>6
  <2>. QED BY <1>1, <2>2, <2>3, StillRoom
<1>8. Shapes'
  BY <1>1, <1>5 DEF TInv, Shapes
<1>. QED BY <1>1, <1>4, <1>5, <1>7, <1>8 DEF TInv, Exists

LEMMA SelectTInv ==
  ASSUME TInv, NEW c \in Conv, Select(c)
  PROVE  TInv'
<1>1. /\ UNCHANGED <<conv, given, jar, booting, view, list, input, typed, stream, unsure, failures>>
      /\ current' = c /\ last' = c /\ c \in list
  BY DEF Select, SetCurrent, server
<1>2. c # None /\ Exists(c)
  BY <1>1, ConstantFacts DEF TInv
<1>3. /\ Grows /\ \A d \in list : Exists(d)'
      /\ \A d \in Conv \cup {None} : Exists(d) <=> Exists(d)'
      /\ \A i \in 1..Len(stream) : Exists(stream[i].conv) /\ conv'[stream[i].conv].state # "none"
  BY <1>1, <1>2, ShapeFacts, SameServer
<1>4. /\ call' \in [Slot -> CallType] /\ \A j \in Slot : CallGood(call[j])'
      /\ Len(stream') + Cardinality(Ensuring') <= MaxSends
  <2>1. CASE UNCHANGED call
    <3>1. call' \in [Slot -> CallType] /\ \A j \in Slot : CallGood(call[j])'
      BY <1>1, <1>3, <2>1, ShapeFacts, SameCallsKept
    <3>2. Ensuring' = Ensuring
      BY <2>1 DEF Ensuring
    <3>. QED BY <1>1, <3>1, <3>2 DEF TInv
  <2>2. CASE Call("detail", c, 0)
    <3>1. PICK k \in Slot : call' = [call EXCEPT ![k] = Request("detail", c, 0, jar)]
      BY <2>2, SendFacts
    <3>2. "detail" \in Kinds /\ 0 \in 0..typed /\ 0 \in 0..MaxTexts /\ given' \in Nat
          /\ typed' \in Nat
      BY <1>1, ShapeFacts, ConstantFacts DEF Kinds
    <3>3. call' \in [Slot -> CallType] /\ \A j \in Slot : CallGood(call[j])'
      BY <1>2, <1>3, <3>1, <3>2, ShapeFacts, GoesOn
    <3>4. PICK r : r = Request("detail", c, 0, jar)
      OBVIOUS
    <3>5. r \in CallType /\ r.text = 0
      BY <3>2, <3>4, ShapeFacts, RequestFacts
    <3>6. call' = [call EXCEPT ![k] = r]
      BY <3>1, <3>4
    <3>7. Len(stream') + Cardinality(Ensuring') <= MaxSends
      BY <1>1, <3>5, <3>6, StillRoom
    <3>. QED BY <3>3, <3>7
  <2>. QED BY <2>1, <2>2 DEF Select
<1>5. Shapes'
  BY <1>1, <1>4 DEF TInv, Shapes
<1>. QED BY <1>1, <1>2, <1>3, <1>4, <1>5 DEF TInv, Exists

LEMMA TypeTInv ==
  ASSUME TInv, Type
  PROVE  TInv'
<1>1. /\ UNCHANGED <<conv, given, jar, last, current, booting, view, list, call, stream, unsure,
                     failures>>
      /\ typed' = typed + 1 /\ input' = typed + 1 /\ typed < MaxTexts
  BY DEF Type, server
<1>2. /\ typed' \in 0..MaxTexts /\ typed' \in Nat /\ typed <= typed' /\ input' \in 0..typed'
      /\ given' \in Nat
  BY <1>1, ShapeFacts, ConstantFacts
<1>3. /\ Grows /\ \A d \in list : Exists(d)'
      /\ \A d \in Conv \cup {None} : Exists(d) <=> Exists(d)'
      /\ \A i \in 1..Len(stream) : Exists(stream[i].conv) /\ conv'[stream[i].conv].state # "none"
  BY <1>1, <1>2, SameServer
<1>4. call' \in [Slot -> CallType] /\ \A j \in Slot : CallGood(call[j])'
  BY <1>1, <1>2, <1>3, SameCallsKept
<1>5. Ensuring' = Ensuring
  BY <1>1 DEF Ensuring
<1>6. Shapes'
  BY <1>1, <1>2, <1>4 DEF TInv, Shapes
<1>. QED BY <1>1, <1>3, <1>4, <1>5, <1>6 DEF TInv, Exists

LEMMA FailTInv ==
  ASSUME TInv, NEW k \in Slot, Fail(k)
  PROVE  TInv'
<1>1. /\ UNCHANGED <<conv, given, jar, last, current, booting, view, list, input, typed, stream,
                     unsure>>
      /\ failures' = failures + 1 /\ failures < MaxFailures
      /\ call' = [call EXCEPT ![k] = Idle]
  BY DEF Fail, Finish, Send, server, page
<1>2. /\ Grows /\ \A d \in list : Exists(d)'
      /\ \A d \in Conv \cup {None} : Exists(d) <=> Exists(d)'
      /\ \A i \in 1..Len(stream) : Exists(stream[i].conv) /\ conv'[stream[i].conv].state # "none"
  BY <1>1, ShapeFacts, SameServer
<1>3. call' \in [Slot -> CallType] /\ \A j \in Slot : CallGood(call[j])'
  BY <1>1, <1>2, ShapeFacts, Finishes
<1>4. Len(stream') + Cardinality(Ensuring') <= MaxSends
  <2>1. PICK r : r = Idle
    OBVIOUS
  <2>2. r \in CallType /\ r.text = 0 /\ call' = [call EXCEPT ![k] = r]
    BY <1>1, <2>1, IdleFacts
  <2>. QED BY <1>1, <2>2, StillRoom
<1>5. failures' \in 0..MaxFailures
  BY <1>1, ConstantFacts DEF TInv, Shapes
<1>6. Shapes'
  BY <1>1, <1>3, <1>5 DEF TInv, Shapes
<1>. QED BY <1>1, <1>2, <1>3, <1>4, <1>6 DEF TInv, Exists

LEMMA SentExists ==
  ASSUME TInv, NEW text \in 1..MaxTexts, NEW c \in Conv, NEW s \in 0..MaxSessions,
         Len(stream) < MaxSends, SendTo(text, c, s), UNCHANGED <<conv, given>>, Exists(c)
  PROVE  \A i \in 1..Len(stream') : Exists(stream[i].conv)' /\ stream'[i].cookie <= given'
<1>1. /\ Len(stream') = Len(stream) + 1 /\ stream'[Len(stream) + 1].conv = c
      /\ stream'[Len(stream) + 1].cookie = None
      /\ \A i \in 1..Len(stream) : stream'[i] = stream[i]
  BY SendToFacts
<1>2. SUFFICES ASSUME NEW i \in 1..Len(stream')
               PROVE  Exists(stream[i].conv)' /\ stream'[i].cookie <= given'
  OBVIOUS
<1>3. i \in 1..Len(stream) \/ i = Len(stream) + 1
  BY <1>1, <1>2, ShapeFacts
<1>4. CASE i \in 1..Len(stream)
  <2>1. stream'[i].conv = stream[i].conv /\ stream'[i].cookie = stream[i].cookie
    BY <1>1, <1>4
  <2>. QED BY <1>4, <2>1 DEF TInv, Exists
<1>5. CASE i = Len(stream) + 1
  <2>1. stream'[i].conv = c /\ stream'[i].cookie = None
    BY <1>1, <1>5
  <2>. QED BY <2>1, ShapeFacts DEF Exists, None
<1>. QED BY <1>3, <1>4, <1>5

LEMMA EnterTInv ==
  ASSUME TInv, Enter
  PROVE  TInv'
<1>1. /\ UNCHANGED <<conv, given, jar, last, current, booting, list, typed, failures>>
      /\ input # 0 /\ Len(stream) + Cardinality(Ensuring) < MaxSends
  BY DEF Enter, server
<1>2. /\ Grows /\ \A d \in list : Exists(d)'
      /\ \A d \in Conv \cup {None} : Exists(d) <=> Exists(d)'
      /\ \A i \in 1..Len(stream) : Exists(stream[i].conv) /\ conv'[stream[i].conv].state # "none"
  BY <1>1, ShapeFacts, SameServer
<1>3. input \in 1..MaxTexts /\ input \in 0..typed /\ input \in Nat
  <2>1. PICK n \in Nat : n = input /\ n <= typed /\ n >= 1
    BY <1>1, ShapeFacts DEF TInv, Shapes
  <2>. QED BY <2>1, ShapeFacts, ConstantFacts
<1>4. PICK m \in Nat : m = Cardinality(Ensuring)
  BY EnsuringFinite
<1>5. Len(stream) < MaxSends /\ Len(stream) + (m + 1) <= MaxSends
  BY <1>1, <1>4, ShapeFacts, ConstantFacts
<1>6. CASE current # None
  <2>1. current \in Conv /\ Exists(current)
    BY <1>6 DEF TInv, Shapes
  <2>2. SendTo(input, current, jar) /\ UNCHANGED call
    BY <1>6 DEF Enter
  <2>3. call' \in [Slot -> CallType] /\ \A j \in Slot : CallGood(call[j])'
    BY <1>1, <1>2, <2>2, ShapeFacts, SameCallsKept
  <2>4. Ensuring' = Ensuring
    BY <2>2 DEF Ensuring
  <2>5. /\ stream' \in Seq(StreamType) /\ Len(stream') = Len(stream) + 1
        /\ view' \in [Conv -> ViewType] /\ unsure' \subseteq Conv /\ input' = 0
    BY <1>3, <1>5, <2>1, <2>2, ShapeFacts, SendToFacts
  <2>6. \A i \in 1..Len(stream') : Exists(stream[i].conv)' /\ stream'[i].cookie <= given'
    BY <1>1, <1>3, <1>5, <2>1, <2>2, ShapeFacts, SentExists
  <2>7. Len(stream') + Cardinality(Ensuring') <= MaxSends
    BY <1>4, <1>5, <2>4, <2>5, ShapeFacts
  <2>8. Shapes'
    BY <1>1, <2>3, <2>5, ShapeFacts DEF TInv, Shapes
  <2>. QED BY <1>1, <1>2, <2>3, <2>6, <2>7, <2>8 DEF TInv, Exists
<1>7. CASE current = None
  <2>1. Call("new", None, input) /\ UNCHANGED <<view, input, stream, unsure>>
    BY <1>7 DEF Enter
  <2>2. PICK k \in Slot : call' = [call EXCEPT ![k] = Request("new", None, input, jar)]
    BY <2>1, SendFacts
  <2>3. PICK r : r = Request("new", None, input, jar)
    OBVIOUS
  <2>4. "new" \in Kinds /\ input \in 0..MaxTexts /\ given' \in Nat /\ typed' \in Nat /\ Exists(None)
    BY <1>1, <1>3, ShapeFacts, ConstantFacts DEF Kinds, Exists
  <2>5. r \in CallType
    BY <2>3, <2>4, ShapeFacts, RequestFacts
  <2>6. call' \in [Slot -> CallType] /\ \A j \in Slot : CallGood(call[j])'
    BY <1>2, <1>3, <2>2, <2>4, ShapeFacts, GoesOn
  <2>7. PICK n \in Nat : n = Cardinality(Ensuring') /\ n <= m + 1
    BY <1>4, <2>2, <2>3, <2>5, TextCount
  <2>8. Len(stream') + Cardinality(Ensuring') <= MaxSends
    BY <1>5, <2>1, <2>7, ShapeFacts, ConstantFacts
  <2>9. Shapes'
    BY <1>1, <2>1, <2>6 DEF TInv, Shapes
  <2>. QED BY <1>1, <1>2, <2>1, <2>6, <2>8, <2>9 DEF TInv, Exists
<1>. QED BY <1>6, <1>7

(* A handler that sends the next request of its chain. *)
LEMMA ChainCalls ==
  ASSUME TInv, Grows, UNCHANGED <<given, typed, stream>>, NEW k \in Slot, NEW kind \in Kinds,
         NEW c \in Conv \cup {None}, kind \in {"detail", "probe", "delete"} => c # None, Exists(c),
         call[k].text # 0 => kind \in {"new", "list"},
         call[k].text # 0 /\ kind = "list" => current' # None, GoOn(k, kind, c)
  PROVE  /\ call' \in [Slot -> CallType] /\ \A j \in Slot : CallGood(call[j])'
         /\ Len(stream') + Cardinality(Ensuring') <= MaxSends
<1>1. PICK t \in 0..typed : t = call[k].text
  BY ShapeFacts, ConstantFacts DEF CallGood, CallType
<1>2. PICK s \in 0..given : s = Jar(k)
  BY JarFacts
<1>3. call' = [call EXCEPT ![k] = Request(kind, c, t, s)]
  BY <1>1, <1>2 DEF GoOn, Send
<1>4. call' \in [Slot -> CallType] /\ \A j \in Slot : CallGood(call[j])'
  BY <1>1, <1>3, ShapeFacts, GoesOn
<1>5. PICK r : r = Request(kind, c, t, s)
  OBVIOUS
<1>6. t \in 0..MaxTexts /\ s \in 0..MaxSessions
  BY ShapeFacts, ConstantFacts
<1>7. r \in CallType /\ r.text = t
  BY <1>5, <1>6, RequestFacts
<1>8. call' = [call EXCEPT ![k] = r]
  BY <1>3, <1>5
<1>9. r.text = 0 \/ call[k].text # 0
  BY <1>1, <1>7
<1>. QED BY <1>4, <1>7, <1>8, <1>9, StillRoom

LEMMA FinishCalls ==
  ASSUME TInv, Grows, UNCHANGED <<given, typed>>, NEW k \in Slot, Finish(k)
  PROVE  /\ call' \in [Slot -> CallType] /\ \A j \in Slot : CallGood(call[j])'
         /\ UNCHANGED stream => Len(stream') + Cardinality(Ensuring') <= MaxSends
         /\ call[k].text # 0 /\ Len(stream') = Len(stream) + 1 =>
              Len(stream') + Cardinality(Ensuring') <= MaxSends
         /\ call[k].text # 0 => Len(stream) < MaxSends
<1>1. call' = [call EXCEPT ![k] = Idle]
  BY DEF Finish, Send
<1>2. call' \in [Slot -> CallType] /\ \A j \in Slot : CallGood(call[j])'
  BY <1>1, ShapeFacts, Finishes
<1>3. PICK r : r = Idle
  OBVIOUS
<1>4. r \in CallType /\ r.text = 0 /\ call' = [call EXCEPT ![k] = r]
  BY <1>1, <1>3, IdleFacts
<1>5. PICK m, n : m = Cardinality(Ensuring) /\ n = Cardinality(Ensuring')
  OBVIOUS
<1>6. m \in Nat /\ n \in Nat /\ n <= m /\ (call[k].text # 0 => n + 1 <= m)
  BY <1>4, <1>5, TextCount
<1>7. Len(stream) + m <= MaxSends
  BY <1>5 DEF TInv
<1>8. UNCHANGED stream => Len(stream') + n <= MaxSends
  BY <1>6, <1>7, ShapeFacts, ConstantFacts
<1>9. call[k].text # 0 /\ Len(stream') = Len(stream) + 1 => Len(stream') + n <= MaxSends
  BY <1>6, <1>7, ShapeFacts, ConstantFacts
<1>10. call[k].text # 0 => Len(stream) < MaxSends
  BY <1>6, <1>7, ShapeFacts, ConstantFacts
<1>. QED BY <1>2, <1>5, <1>8, <1>9, <1>10

LEMMA ApplyListTInv ==
  ASSUME TInv, NEW k \in Slot, ApplyList(k)
  PROVE  TInv'
<1>1. /\ UNCHANGED <<conv, given, last, current, booting, typed, failures>>
      /\ jar' = Jar(k) /\ list' = call[k].listed /\ Finish(k) /\ call[k].kind = "list"
  BY DEF ApplyList, Answered, server
<1>2. /\ Grows /\ \A d \in list : Exists(d)'
      /\ \A d \in Conv \cup {None} : Exists(d) <=> Exists(d)'
      /\ \A i \in 1..Len(stream) : Exists(stream[i].conv) /\ conv'[stream[i].conv].state # "none"
  BY <1>1, ShapeFacts, SameServer
<1>3. jar' \in 0..given' /\ jar' \in 0..MaxSessions
  BY <1>1, JarFacts
<1>4. PICK a \in CallType : a = call[k] /\ CallGood(a)
  BY ShapeFacts
<1>5. list' \subseteq Conv /\ \A c \in list' : Exists(c)'
  BY <1>1, <1>2, <1>4 DEF CallType, CallGood
<1>6. /\ call' \in [Slot -> CallType] /\ \A j \in Slot : CallGood(call[j])'
      /\ UNCHANGED stream => Len(stream') + Cardinality(Ensuring') <= MaxSends
      /\ call[k].text # 0 /\ Len(stream') = Len(stream) + 1 =>
           Len(stream') + Cardinality(Ensuring') <= MaxSends
      /\ call[k].text # 0 => Len(stream) < MaxSends
  BY <1>1, <1>2, FinishCalls
<1>7. CASE call[k].text # 0
  <2>1. a.text \in 1..MaxTexts
    BY <1>4, <1>7, ConstantFacts DEF CallType
  <2>2. current \in Conv /\ Exists(current)
    BY <1>1, <1>4, <1>7 DEF CallGood, TInv, Shapes
  <2>3. SendTo(a.text, current, jar')
    BY <1>4, <1>7 DEF ApplyList
  <2>4. PICK s \in 0..MaxSessions : s = jar'
    BY <1>3
  <2>5. SendTo(a.text, current, s)
    BY <2>3, <2>4
  <2>6. /\ stream' \in Seq(StreamType) /\ Len(stream') = Len(stream) + 1
        /\ view' \in [Conv -> ViewType] /\ unsure' \subseteq Conv /\ input' = 0
    BY <1>6, <1>7, <2>1, <2>2, <2>5, SendToFacts
  <2>7. \A i \in 1..Len(stream') : Exists(stream[i].conv)' /\ stream'[i].cookie <= given'
    BY <1>1, <1>6, <1>7, <2>1, <2>2, <2>5, SentExists
  <2>8. Shapes'
    BY <1>1, <1>3, <1>5, <1>6, <2>6, ShapeFacts DEF TInv, Shapes
  <2>. QED BY <1>1, <1>2, <1>5, <1>6, <1>7, <2>6, <2>7, <2>8 DEF TInv, Exists
<1>8. CASE call[k].text = 0
  <2>1. UNCHANGED <<input, stream, view, unsure>>
    BY <1>8 DEF ApplyList
  <2>2. Shapes'
    BY <1>1, <1>3, <1>5, <1>6, <2>1 DEF TInv, Shapes
  <2>. QED BY <1>1, <1>2, <1>5, <1>6, <2>1, <2>2 DEF TInv, Exists
<1>. QED BY <1>7, <1>8

LEMMA ApplyNewTInv ==
  ASSUME TInv, NEW k \in Slot, ApplyNew(k)
  PROVE  TInv'
<1>1. /\ UNCHANGED <<conv, given, booting, list, input, typed, stream, unsure, failures>>
      /\ jar' = Jar(k) /\ call[k].kind = "new" /\ call[k].answered
      /\ current' = call[k].conv /\ last' = call[k].conv /\ GoOn(k, "list", None)
      /\ view' = [view EXCEPT ![call[k].conv] = [loaded |-> TRUE, shown |-> <<>>]]
  BY DEF ApplyNew, Answered, SetCurrent, server
<1>2. PICK a \in CallType : a = call[k] /\ CallGood(a)
  BY ShapeFacts
<1>3. a.conv \in Conv /\ a.conv # None /\ Exists(a.conv)
  BY <1>1, <1>2 DEF CallType, CallGood
<1>4. /\ Grows /\ \A d \in list : Exists(d)'
      /\ \A d \in Conv \cup {None} : Exists(d) <=> Exists(d)'
      /\ \A i \in 1..Len(stream) : Exists(stream[i].conv) /\ conv'[stream[i].conv].state # "none"
  BY <1>1, <1>2, <1>3, ShapeFacts, SameServer
<1>5. "list" \in Kinds /\ Exists(None) /\ "list" \notin {"detail", "probe", "delete"}
  BY DEF Kinds, Exists
<1>6. /\ call' \in [Slot -> CallType] /\ \A j \in Slot : CallGood(call[j])'
      /\ Len(stream') + Cardinality(Ensuring') <= MaxSends
  BY <1>1, <1>2, <1>3, <1>4, <1>5, ChainCalls
<1>7. view' \in [Conv -> ViewType]
  <2>1. PICK v : v = [loaded |-> TRUE, shown |-> <<>>]
    OBVIOUS
  <2>2. v \in ViewType
    BY <2>1 DEF ViewType
  <2>. QED BY <1>1, <2>1, <2>2 DEF TInv, Shapes
<1>8. jar' \in 0..given'
  BY <1>1, JarFacts
<1>9. Shapes'
  BY <1>1, <1>2, <1>3, <1>6, <1>7, <1>8 DEF TInv, Shapes
<1>. QED BY <1>1, <1>2, <1>3, <1>4, <1>6, <1>9 DEF TInv, Exists

(* The view an answered detail leaves. *)
LEMMA DetailView ==
  ASSUME TInv, NEW k \in Slot, ApplyDetail(k)
  PROVE  \E v \in ViewType :
           /\ call[k].conv \in Conv /\ v.loaded
           /\ view' = [view EXCEPT ![call[k].conv] = v]
           /\ v.shown = IF call[k].ok THEN call[k].turns ELSE view[call[k].conv].shown
<1>1. PICK a \in CallType : a = call[k] /\ CallGood(a) /\ a.kind = "detail"
  BY ShapeFacts DEF ApplyDetail, Answered
<1>2. a.conv \in Conv
  BY <1>1 DEF CallType, CallGood
<1>3. PICK old \in ViewType : old = view[a.conv]
  BY <1>2 DEF TInv, Shapes
<1>4. PICK v : v = IF a.ok THEN [loaded |-> TRUE, shown |-> a.turns]
                   ELSE [old EXCEPT !.loaded = TRUE]
  OBVIOUS
<1>5. v \in ViewType /\ v.loaded /\ v.shown = IF a.ok THEN a.turns ELSE old.shown
  BY <1>1, <1>4 DEF ViewType, CallType
<1>6. view' = [view EXCEPT ![a.conv] = v]
  BY <1>1, <1>3, <1>4 DEF ApplyDetail, Rendered
<1>. QED BY <1>1, <1>2, <1>3, <1>5, <1>6

LEMMA ApplyDetailTInv ==
  ASSUME TInv, NEW k \in Slot, ApplyDetail(k)
  PROVE  TInv'
<1>1. /\ UNCHANGED <<conv, given, last, current, booting, list, input, typed, stream, failures>>
      /\ jar' = Jar(k) /\ Finish(k)
      /\ unsure' \in {unsure, unsure \cup {call[k].conv}}
  BY DEF ApplyDetail, server
<1>2. /\ Grows /\ \A d \in list : Exists(d)'
      /\ \A d \in Conv \cup {None} : Exists(d) <=> Exists(d)'
      /\ \A i \in 1..Len(stream) : Exists(stream[i].conv) /\ conv'[stream[i].conv].state # "none"
  BY <1>1, ShapeFacts, SameServer
<1>3. /\ call' \in [Slot -> CallType] /\ \A j \in Slot : CallGood(call[j])'
      /\ Len(stream') + Cardinality(Ensuring') <= MaxSends
  BY <1>1, <1>2, FinishCalls
<1>4. view' \in [Conv -> ViewType]
  BY DetailView DEF TInv, Shapes
<1>5. jar' \in 0..given'
  BY <1>1, JarFacts
<1>7. unsure' \subseteq Conv
  BY <1>1, DetailView DEF TInv, Shapes
<1>6. Shapes'
  BY <1>1, <1>3, <1>4, <1>5, <1>7 DEF TInv, Shapes
<1>. QED BY <1>1, <1>2, <1>3, <1>6 DEF TInv, Exists

LEMMA ApplyProbeTInv ==
  ASSUME TInv, NEW k \in Slot, ApplyProbe(k)
  PROVE  TInv'
<1>1. /\ UNCHANGED <<conv, given, booting, view, list, input, typed, stream, unsure, failures>>
      /\ jar' = Jar(k) /\ call[k].kind = "probe"
  BY DEF ApplyProbe, Answered, server
<1>2. PICK a \in CallType : a = call[k] /\ CallGood(a)
  BY ShapeFacts
<1>3. PICK c : c = a.conv /\ c \in Conv /\ c # None /\ Exists(c) /\ a.text = 0
  BY <1>1, <1>2 DEF CallType, CallGood
<1>4. \/ current' = c /\ last' = c /\ (Finish(k) \/ GoOn(k, "detail", c))
      \/ UNCHANGED <<current, last>> /\ GoOn(k, "new", None)
  BY <1>2, <1>3 DEF ApplyProbe, SetCurrent, StartAfresh
<1>5. current # None => current' # None
  BY <1>3, <1>4
<1>6. /\ Grows /\ \A d \in list : Exists(d)'
      /\ \A d \in Conv \cup {None} : Exists(d) <=> Exists(d)'
      /\ \A i \in 1..Len(stream) : Exists(stream[i].conv) /\ conv'[stream[i].conv].state # "none"
  BY <1>1, <1>5, ShapeFacts, SameServer
<1>7. "detail" \in Kinds /\ "new" \in Kinds /\ Exists(None)
  BY DEF Kinds, Exists
<1>8. /\ call' \in [Slot -> CallType] /\ \A j \in Slot : CallGood(call[j])'
      /\ Len(stream') + Cardinality(Ensuring') <= MaxSends
  <2>1. CASE Finish(k)
    BY <1>1, <1>6, <2>1, FinishCalls
  <2>2. CASE GoOn(k, "detail", c)
    BY <1>1, <1>2, <1>3, <1>6, <1>7, <2>2, ChainCalls
  <2>3. CASE GoOn(k, "new", None)
    BY <1>1, <1>2, <1>3, <1>6, <1>7, <2>3, ChainCalls
  <2>. QED BY <1>4, <2>1, <2>2, <2>3
<1>9. jar' \in 0..given'
  BY <1>1, JarFacts
<1>10. Shapes' /\ (current' # None => last' = current') /\ Exists(last)'
  BY <1>1, <1>3, <1>4, <1>6, <1>8, <1>9 DEF TInv, Shapes, Exists
<1>. QED BY <1>1, <1>6, <1>8, <1>10 DEF TInv, Exists

LEMMA ApplyDeleteTInv ==
  ASSUME TInv, NEW k \in Slot, ApplyDelete(k)
  PROVE  TInv'
<1>1. /\ UNCHANGED <<conv, given, last, current, booting, view, list, input, typed, stream, unsure,
                     failures>>
      /\ jar' = Jar(k) /\ call[k].kind = "delete"
      /\ GoOn(k, "new", None) \/ GoOn(k, "list", None)
  BY DEF ApplyDelete, Answered, StartAfresh, server, page
<1>2. PICK a \in CallType : a = call[k] /\ CallGood(a)
  BY ShapeFacts
<1>3. a.text = 0 /\ "new" \in Kinds /\ "list" \in Kinds /\ Exists(None)
  BY <1>1, <1>2 DEF CallType, CallGood, Kinds, Exists
<1>4. /\ Grows /\ \A d \in list : Exists(d)'
      /\ \A d \in Conv \cup {None} : Exists(d) <=> Exists(d)'
      /\ \A i \in 1..Len(stream) : Exists(stream[i].conv) /\ conv'[stream[i].conv].state # "none"
  BY <1>1, ShapeFacts, SameServer
<1>5. /\ call' \in [Slot -> CallType] /\ \A j \in Slot : CallGood(call[j])'
      /\ Len(stream') + Cardinality(Ensuring') <= MaxSends
  <2>1. CASE GoOn(k, "new", None)
    BY <1>1, <1>2, <1>3, <1>4, <2>1, ChainCalls
  <2>2. CASE GoOn(k, "list", None)
    BY <1>1, <1>2, <1>3, <1>4, <2>2, ChainCalls
  <2>. QED BY <1>1, <2>1, <2>2
<1>6. jar' \in 0..given'
  BY <1>1, JarFacts
<1>7. Shapes'
  BY <1>1, <1>5, <1>6 DEF TInv, Shapes
<1>. QED BY <1>1, <1>4, <1>5, <1>7 DEF TInv, Exists

(* A turn only changes where it is, and whether its headers are on their way. *)
Moves(i, p, x) ==
  /\ stream' \in Seq(StreamType) /\ Len(stream') = Len(stream) /\ i \in 1..Len(stream)
  /\ \A j \in 1..Len(stream) :
       /\ stream'[j].conv = stream[j].conv /\ stream'[j].session = stream[j].session
       /\ stream'[j].at = (IF j = i THEN p ELSE stream[j].at)
       /\ stream'[j].cookie = (IF j = i THEN x ELSE stream[j].cookie)

LEMMA TurnMoves ==
  ASSUME TInv, NEW i \in DOMAIN stream, NEW n \in StreamType,
         n.conv = stream[i].conv, n.session = stream[i].session,
         stream' = [stream EXCEPT ![i] = n]
  PROVE  Moves(i, n.at, n.cookie)
<1>1. stream \in Seq(StreamType) /\ i \in 1..Len(stream)
  BY DEF TInv, Shapes
<1>2. /\ stream' \in Seq(StreamType) /\ Len(stream') = Len(stream)
      /\ stream'[i] = n /\ \A j \in 1..Len(stream) : j # i => stream'[j] = stream[j]
  BY <1>1
<1>. QED BY <1>1, <1>2 DEF Moves

(* The session a question without one is given. *)
LEMMA StartFacts ==
  ASSUME TInv, NEW i \in DOMAIN stream, StartTurn(i)
  PROVE  \E s \in 1..MaxSessions, p \in {"running", "refused"} :
           /\ s = SessionOf(stream[i].session) /\ s <= given'
           /\ given' \in 0..MaxSessions /\ given <= given'
           /\ given' = (IF given >= s THEN given ELSE s)
           /\ stream[i].session # None => s = stream[i].session
           /\ Moves(i, p, s)
<1>1. PICK q \in StreamType : q = stream[i]
  BY DEF TInv, Shapes
<1>2. PICK g \in Nat : g = given /\ g <= MaxSessions
  BY ShapeFacts
<1>3. PICK t \in Nat : t = q.session
  BY <1>1, ConstantFacts DEF StreamType
<1>4. PICK s : s = SessionOf(t)
  OBVIOUS
<1>5. s = (IF t = 0 THEN g + 1 ELSE t) /\ s <= MaxSessions
  BY <1>1, <1>2, <1>3, <1>4 DEF StartTurn, SessionOf, None
<1>6. s \in 1..MaxSessions /\ s \in Nat
  BY <1>2, <1>3, <1>5, ConstantFacts
<1>7. given' = IF g >= s THEN g ELSE s
  <2>1. given' = Max({g, s})
    BY <1>1, <1>2, <1>3, <1>4 DEF StartTurn
  <2>. QED BY <1>2, <1>6, <2>1, MaxOfTwo
<1>8. PICK p \in {"running", "refused"} :
        p = IF Found(s, q.conv) THEN "running" ELSE "refused"
  OBVIOUS
<1>9. PICK n : n = [q EXCEPT !.at = p, !.cookie = s]
  OBVIOUS
<1>10. /\ n \in StreamType /\ n.conv = q.conv /\ n.session = q.session /\ n.at = p
       /\ n.cookie = s
  <2>1. s \in 0..MaxSessions /\ p \in Places
    BY <1>6, ConstantFacts DEF Places
  <2>. QED BY <1>9, <2>1 DEF StreamType
<1>11. stream' = [stream EXCEPT ![i] = n]
  <2>1. stream' = [stream EXCEPT ![i] = [@ EXCEPT !.at = p, !.cookie = s]]
    BY <1>1, <1>3, <1>4, <1>8, Zenon DEF StartTurn
  <2>. QED BY <1>1, <1>9, <2>1, Zenon
<1>12. Moves(i, n.at, n.cookie)
  BY <1>1, <1>10, <1>11, TurnMoves
<1>13. Moves(i, p, s)
  BY <1>10, <1>12
<1>14. s <= given' /\ given' \in 0..MaxSessions /\ given <= given'
  BY <1>2, <1>6, <1>7, ConstantFacts
<1>15. q.session # None => s = q.session
  BY <1>3, <1>5 DEF None
<1>. QED BY <1>1, <1>2, <1>3, <1>4, <1>6, <1>7, <1>8, <1>13, <1>14, <1>15

LEMMA HeadersMoves ==
  ASSUME TInv, NEW i \in DOMAIN stream, Headers(i)
  PROVE  Moves(i, stream[i].at, None) /\ stream[i].at \in Places
<1>1. PICK q \in StreamType : q = stream[i]
  BY DEF TInv, Shapes
<1>2. PICK n : n = [q EXCEPT !.cookie = None]
  OBVIOUS
<1>3. /\ n \in StreamType /\ n.conv = q.conv /\ n.session = q.session /\ n.at = q.at
      /\ n.cookie = None
  BY <1>2, ConstantFacts DEF StreamType, None
<1>4. stream' = [stream EXCEPT ![i] = n]
  BY <1>1, <1>2, Zenon DEF Headers
<1>5. Moves(i, n.at, n.cookie)
  BY <1>1, <1>3, <1>4, TurnMoves
<1>. QED BY <1>1, <1>3, <1>5 DEF StreamType

LEMMA StoreMoves ==
  ASSUME TInv, NEW i \in DOMAIN stream, StoreTurn(i)
  PROVE  Moves(i, "over", stream[i].cookie)
<1>1. PICK q \in StreamType : q = stream[i]
  BY DEF TInv, Shapes
<1>2. PICK n : n = [q EXCEPT !.at = "over"]
  OBVIOUS
<1>3. /\ n \in StreamType /\ n.conv = q.conv /\ n.session = q.session /\ n.at = "over"
      /\ n.cookie = q.cookie
  BY <1>2 DEF StreamType, Places
<1>4. stream' = [stream EXCEPT ![i] = n]
  BY <1>1, <1>2, Zenon DEF StoreTurn
<1>5. Moves(i, n.at, n.cookie)
  BY <1>1, <1>3, <1>4, TurnMoves
<1>. QED BY <1>1, <1>3, <1>5

LEMMA LoseMoves ==
  ASSUME TInv, NEW i \in DOMAIN stream, LoseTurn(i)
  PROVE  \E p \in Places : /\ Moves(i, p, None) /\ p \notin {"sent", "running"}
                           /\ stream[i].at = "over" => p = "over"
<1>1. PICK q \in StreamType : q = stream[i]
  BY DEF TInv, Shapes
<1>2. PICK p \in Places : p = IF q.at \in {"sent", "running"} THEN "lost" ELSE q.at
  BY <1>1 DEF StreamType, Places
<1>3. PICK n : n = [q EXCEPT !.at = p, !.cookie = None]
  OBVIOUS
<1>4. /\ n \in StreamType /\ n.conv = q.conv /\ n.session = q.session /\ n.at = p
      /\ n.cookie = None
  <2>1. None \in 0..MaxSessions /\ p \in Places
    BY ConstantFacts DEF None
  <2>. QED BY <1>3, <2>1 DEF StreamType
<1>5. stream' = [stream EXCEPT ![i] = n]
  <2>1. stream' = [stream EXCEPT ![i] = [stream[i] EXCEPT
                     !.at = IF stream[i].at \in {"sent", "running"} THEN "lost" ELSE stream[i].at,
                     !.cookie = None]]
    BY Zenon DEF LoseTurn
  <2>2. n = [stream[i] EXCEPT
              !.at = IF stream[i].at \in {"sent", "running"} THEN "lost" ELSE stream[i].at,
              !.cookie = None]
    BY <1>1, <1>2, <1>3, Zenon
  <2>. QED BY <2>1, <2>2, Zenon
<1>6. Moves(i, n.at, n.cookie)
  BY <1>1, <1>4, <1>5, TurnMoves
<1>7. /\ Moves(i, p, None) /\ p \notin {"sent", "running"}
      /\ stream[i].at = "over" => p = "over"
  BY <1>1, <1>2, <1>4, <1>6
<1>. QED BY <1>7

(* What a step of a turn leaves as it is, when the server's conversations stay. *)
LEMMA MovedTInv ==
  ASSUME TInv, NEW i, NEW p, NEW x \in 0..MaxSessions, Moves(i, p, x), x <= given',
         UNCHANGED <<last, current, booting, view, list, input, typed, call, unsure>>,
         failures' \in 0..MaxFailures, given' \in 0..MaxSessions, given <= given',
         jar' \in 0..given', conv' \in [Conv -> ServerType],
         \A c \in Conv : /\ conv'[c].state = conv[c].state
                         /\ conv'[c].state # "live" => conv'[c].turns = <<>>
  PROVE  TInv'
<1>1. /\ stream' \in Seq(StreamType) /\ Len(stream') = Len(stream)
      /\ \A j \in 1..Len(stream) :
           /\ stream'[j].conv = stream[j].conv
           /\ stream'[j].cookie = (IF j = i THEN x ELSE stream[j].cookie)
  BY DEF Moves
<1>2. given' \in Nat /\ typed' \in Nat
  BY ConstantFacts, ShapeFacts
<1>3. Grows
  BY <1>2, ShapeFacts DEF Grows
<1>4. /\ \A c \in Conv \cup {None} : Exists(c) => Exists(c)'
      /\ \A c \in list : Exists(c)'
      /\ \A j \in 1..Len(stream) : conv'[stream[j].conv].state # "none"
  BY <1>3, ExistsKept
<1>5. call' \in [Slot -> CallType] /\ \A j \in Slot : CallGood(call[j])'
  BY <1>2, <1>3, SameCallsKept
<1>6. Ensuring' = Ensuring
  BY DEF Ensuring
<1>7. Shapes'
  BY <1>1, <1>5 DEF TInv, Shapes
<1>8. Exists(last)' /\ \A c \in list' : Exists(c)'
  BY <1>4 DEF TInv, Shapes, Exists
<1>9. \A j \in 1..Len(stream') : Exists(stream[j].conv)'
  BY <1>1, <1>4 DEF Exists
<1>10. ASSUME NEW j \in 1..Len(stream') PROVE stream'[j].cookie <= given'
  <2>1. CASE j = i
    BY <1>1, <2>1
  <2>2. CASE j # i
    <3>1. PICK m \in Nat : m = stream[j].cookie /\ m <= given
      <4>1. stream[j] \in StreamType
        BY <1>1 DEF TInv, Shapes
      <4>. QED BY <1>1, <4>1, ConstantFacts DEF TInv, StreamType
    <3>2. m <= given'
      BY <1>2, <3>1, ShapeFacts
    <3>. QED BY <1>1, <2>2, <3>1, <3>2
  <2>. QED BY <2>1, <2>2
<1>11. Len(stream') + Cardinality(Ensuring') <= MaxSends
  BY <1>1, <1>6 DEF TInv
<1>. QED BY <1>5, <1>7, <1>8, <1>9, <1>10, <1>11 DEF TInv

LEMMA TurnsAsTheyWere ==
  ASSUME TInv, UNCHANGED conv
  PROVE  /\ conv' \in [Conv -> ServerType]
         /\ \A c \in Conv : /\ conv'[c].state = conv[c].state
                            /\ conv'[c].state # "live" => conv'[c].turns = <<>>
BY DEF TInv, Shapes

LEMMA StartTurnTInv ==
  ASSUME TInv, NEW i \in DOMAIN stream, StartTurn(i)
  PROVE  TInv'
<1>1. UNCHANGED <<conv, jar, last, current, booting, view, list, input, typed, call, unsure,
                  failures>>
  BY DEF StartTurn
<1>2. PICK s \in 1..MaxSessions, p \in {"running", "refused"} :
        /\ s <= given' /\ given' \in 0..MaxSessions /\ given <= given' /\ Moves(i, p, s)
  BY StartFacts
<1>3. s \in 0..MaxSessions /\ failures' \in 0..MaxFailures
  BY <1>1, ConstantFacts DEF TInv, Shapes
<1>4. jar' \in 0..given'
  BY <1>1, <1>2, ShapeFacts, ConstantFacts
<1>. QED BY <1>1, <1>2, <1>3, <1>4, TurnsAsTheyWere, MovedTInv

LEMMA HeadersTInv ==
  ASSUME TInv, NEW i \in DOMAIN stream, Headers(i)
  PROVE  TInv'
<1>1. UNCHANGED <<conv, given, last, current, booting, view, list, input, typed, call, unsure,
                  failures>>
  BY DEF Headers, server
<1>2. Moves(i, stream[i].at, None)
  BY HeadersMoves
<1>3. jar' \in 0..given'
  <2>1. PICK n \in Nat : n = stream[i].cookie /\ n <= given
    <3>1. stream[i] \in StreamType /\ i \in 1..Len(stream)
      BY DEF TInv, Shapes
    <3>. QED BY <3>1, ConstantFacts DEF TInv, StreamType
  <2>2. jar' = n
    BY <2>1 DEF Headers
  <2>. QED BY <1>1, <2>1, <2>2, ShapeFacts
<1>4. None \in 0..MaxSessions /\ None <= given' /\ given <= given' /\ given' \in 0..MaxSessions
      /\ failures' \in 0..MaxFailures
  BY <1>1, ShapeFacts, ConstantFacts DEF None, TInv, Shapes
<1>5. PICK p : p = stream[i].at
  OBVIOUS
<1>6. Moves(i, p, None)
  BY <1>2, <1>5
<1>. QED BY <1>1, <1>3, <1>4, <1>6, TurnsAsTheyWere, MovedTInv

LEMMA ExpireTInv ==
  ASSUME TInv, Expire
  PROVE  TInv'
<1>1. /\ UNCHANGED <<conv, given, last, current, booting, view, list, input, typed, call, stream,
                     unsure, failures>>
      /\ jar' = None
  BY DEF Expire, server, page
<1>2. jar' \in 0..given'
  BY <1>1, ShapeFacts DEF None
<1>3. /\ Ensuring' = Ensuring /\ \A k \in Slot : CallGood(call[k])' = CallGood(call[k])
      /\ Exists(last)' /\ (\A c \in list' : Exists(c)')
      /\ \A i \in 1..Len(stream') : Exists(stream[i].conv)'
  BY <1>1 DEF TInv, Ensuring, CallGood, Exists
<1>4. Shapes'
  BY <1>1, <1>2 DEF TInv, Shapes
<1>. QED BY <1>1, <1>3, <1>4 DEF TInv

(* What StoreTurn does to the turn's conversation. *)
LEMMA StoreTurnConv ==
  ASSUME TInv, NEW i \in DOMAIN stream, StoreTurn(i)
  PROVE  /\ conv' \in [Conv -> ServerType] /\ stream[i].conv \in Conv /\ i \in 1..Len(stream)
         /\ \A c \in Conv : /\ conv'[c].state = conv[c].state /\ conv'[c].owner = conv[c].owner
                            /\ c # stream[i].conv => conv'[c] = conv[c]
         /\ \/ conv[stream[i].conv].state = "live"
               /\ conv'[stream[i].conv].turns = Append(conv[stream[i].conv].turns, i)
            \/ conv[stream[i].conv].state # "live" /\ UNCHANGED conv
<1>1. PICK q \in StreamType : q = stream[i]
  BY DEF TInv, Shapes
<1>2. PICK c \in Conv : c = q.conv
  BY <1>1 DEF StreamType
<1>3. i \in 1..Len(stream) /\ i \in 1..MaxSends
  <2>1. i \in 1..Len(stream) /\ Len(stream) \in Nat
    BY DEF TInv, Shapes
  <2>2. PICK m \in Nat : m = Cardinality(Ensuring) /\ Len(stream) + m <= MaxSends
    BY EnsuringFinite DEF TInv
  <2>. QED BY <2>1, <2>2, ConstantFacts
<1>4. PICK old \in ServerType : old = conv[c]
  BY DEF TInv, Shapes
<1>5. CASE old.state = "live"
  <2>1. PICK u, n : u = Now /\ u \in Nat /\ n = [old EXCEPT !.turns = Append(old.turns, i), !.updated = u]
    BY NowNat DEF TInv, Shapes
  <2>2. i \in TurnType
    BY <1>3 DEF TurnType
  <2>3. Append(old.turns, i) \in Seq(TurnType)
    BY <2>2 DEF ServerType
  <2>4. /\ n \in ServerType /\ n.state = old.state /\ n.owner = old.owner
        /\ n.turns = Append(old.turns, i)
    BY <2>1, <2>3 DEF ServerType
  <2>5. conv' = [conv EXCEPT ![c] = n]
    BY <1>1, <1>2, <1>4, <1>5, <2>1, Zenon DEF StoreTurn
  <2>. QED BY <1>1, <1>2, <1>3, <1>4, <1>5, <2>4, <2>5 DEF TInv, Shapes
<1>6. CASE old.state # "live"
  <2>1. conv' = conv
    BY <1>1, <1>2, <1>4, <1>6 DEF StoreTurn
  <2>. QED BY <1>1, <1>2, <1>3, <1>4, <1>6, <2>1 DEF TInv, Shapes
<1>. QED BY <1>5, <1>6

LEMMA StoreTurnTInv ==
  ASSUME TInv, NEW i \in DOMAIN stream, StoreTurn(i)
  PROVE  TInv'
<1>1. UNCHANGED <<given, jar, last, current, booting, view, list, input, typed, call, unsure,
                  failures>>
  BY DEF StoreTurn
<1>2. PICK x : x = stream[i].cookie
  OBVIOUS
<1>3. Moves(i, "over", x)
  BY <1>2, StoreMoves
<1>4. x \in 0..MaxSessions /\ x <= given'
  <2>1. stream[i] \in StreamType /\ i \in 1..Len(stream)
    BY DEF TInv, Shapes
  <2>. QED BY <1>1, <1>2, <2>1 DEF TInv, StreamType
<1>5. /\ conv' \in [Conv -> ServerType]
      /\ \A c \in Conv : /\ conv'[c].state = conv[c].state
                         /\ conv'[c].state # "live" => conv'[c].turns = <<>>
  <2>1. PICK c : /\ c = stream[i].conv /\ conv' \in [Conv -> ServerType] /\ c \in Conv
                 /\ \A d \in Conv : conv'[d].state = conv[d].state /\ (d # c => conv'[d] = conv[d])
                 /\ conv[c].state # "live" => UNCHANGED conv
    BY StoreTurnConv
  <2>. QED BY <2>1 DEF TInv
<1>6. given <= given' /\ given' \in 0..MaxSessions /\ jar' \in 0..given' /\ failures' \in 0..MaxFailures
  BY <1>1, ShapeFacts, ConstantFacts DEF TInv, Shapes
<1>. QED BY <1>1, <1>3, <1>4, <1>5, <1>6, MovedTInv

LEMMA LoseTurnTInv ==
  ASSUME TInv, NEW i \in DOMAIN stream, LoseTurn(i)
  PROVE  TInv'
<1>1. /\ UNCHANGED <<conv, given, jar, last, current, booting, view, list, input, typed, call, unsure>>
      /\ failures' \in 0..MaxFailures
  BY ConstantFacts DEF LoseTurn, server, TInv, Shapes
<1>2. PICK p \in Places : Moves(i, p, None)
  BY LoseMoves
<1>3. None \in 0..MaxSessions /\ None <= given' /\ given <= given' /\ given' \in 0..MaxSessions
      /\ jar' \in 0..given'
  BY <1>1, ShapeFacts, ConstantFacts DEF None
<1>. QED BY <1>1, <1>2, <1>3, TurnsAsTheyWere, MovedTInv

LEMMA StutterTInv ==
  ASSUME TInv, UNCHANGED vars
  PROVE  TInv'
<1>1. UNCHANGED <<conv, given, jar, last, current, booting, view, list, input, typed, call,
                  stream, unsure, failures>>
  BY DEF vars
<1>2. Shapes' /\ Ensuring' = Ensuring /\ \A k \in Slot : CallGood(call[k])' = CallGood(call[k])
  BY <1>1 DEF TInv, Shapes, Ensuring, CallGood, Exists
<1>. QED BY <1>1, <1>2 DEF TInv, Exists

LEMMA TInvStep == TInv /\ [Next]_vars => TInv'
<1>1. SUFFICES ASSUME TInv, [Next]_vars PROVE TInv'
  OBVIOUS
<1>2. CASE Poll \/ New \/ (\E c \in Conv : Delete(c)) \/ Boot
  BY <1>1, <1>2, UserTInv
<1>3. CASE Type
  BY <1>1, <1>3, TypeTInv
<1>4. CASE Enter
  BY <1>1, <1>4, EnterTInv
<1>5. CASE \E c \in Conv : Select(c)
  BY <1>1, <1>5, SelectTInv
<1>6. CASE \E k \in Slot : Serve(k)
  BY <1>1, <1>6, ServeTInv
<1>7. CASE \E k \in Slot : Apply(k)
  BY <1>1, <1>7, ApplyListTInv, ApplyNewTInv, ApplyDetailTInv, ApplyProbeTInv, ApplyDeleteTInv
     DEF Apply
<1>8. CASE \E k \in Slot : Fail(k)
  BY <1>1, <1>8, FailTInv
<1>9. CASE \E i \in DOMAIN stream : StartTurn(i) \/ Headers(i) \/ StoreTurn(i) \/ LoseTurn(i)
  BY <1>1, <1>9, StartTurnTInv, HeadersTInv, StoreTurnTInv, LoseTurnTInv
<1>10. CASE UNCHANGED vars
  BY <1>1, <1>10, StutterTInv
<1>11. CASE Expire
  BY <1>1, <1>11, ExpireTInv
<1>. QED BY <1>1, <1>2, <1>3, <1>4, <1>5, <1>6, <1>7, <1>8, <1>9, <1>10, <1>11 DEF Next

LEMMA InitTInv == Init => TInv
<1>1. SUFFICES ASSUME Init PROVE TInv
  OBVIOUS
<1>2. PICK returning \in BOOLEAN, state \in {"live", "gone"} :
       /\ given = IF returning THEN 1 ELSE None
       /\ jar \in {None, given}
       /\ conv = [c \in Conv |->
            IF returning /\ c = 1
            THEN [state |-> state, owner |-> 1,
                  turns |-> IF state = "live" THEN <<Earlier>> ELSE <<>>, updated |-> 1]
            ELSE NoConv]
       /\ last \in IF returning THEN {None, 1} ELSE {None}
  BY <1>1 DEF Init
<1>3. /\ current = None /\ booting = TRUE
      /\ view = [c \in Conv |-> NoView] /\ list = {}
      /\ input = 0 /\ typed = 0 /\ stream = <<>> /\ unsure = {} /\ failures = 0
      /\ call = [k \in Slot |-> IF k = 1 THEN Request("list", None, 0, jar) ELSE Idle]
  BY <1>1 DEF Init
<1>4. /\ jar \in 0..MaxSessions /\ jar \in 0..given /\ given \in 0..MaxSessions
      /\ 1 \in Conv /\ 1 \in Session /\ 0 \in 0..MaxTexts
  BY <1>2, <1>3, ConstantFacts DEF Conv, Session, None
<1>5. conv \in [Conv -> ServerType] /\ \A c \in Conv : conv[c].state # "live" => conv[c].turns = <<>>
  <2>1. PICK n : n = [state |-> state, owner |-> 1,
                      turns |-> IF state = "live" THEN <<Earlier>> ELSE <<>>, updated |-> 1]
    OBVIOUS
  <2>2. <<Earlier>> \in Seq(TurnType) /\ <<>> \in Seq(TurnType)
    BY DEF TurnType
  <2>3. n \in ServerType /\ (n.state # "live" => n.turns = <<>>) /\ n.state # "none"
    BY <1>4, <2>1, <2>2 DEF ServerType, States
  <2>4. NoConv \in ServerType /\ NoConv.turns = <<>>
    BY <2>2 DEF NoConv, ServerType, States
  <2>5. conv = [c \in Conv |-> IF returning /\ c = 1 THEN n ELSE NoConv]
    BY <1>2, <2>1
  <2>. QED BY <2>3, <2>4, <2>5
<1>6. Exists(last) /\ last \in Conv \cup {None}
  <2>1. last = None \/ (last = 1 /\ returning)
    BY <1>2
  <2>2. returning => conv[1].state # "none"
    BY <1>2, <1>4
  <2>. QED BY <1>4, <2>1, <2>2 DEF Exists
<1>7. PICK r : r = Request("list", None, 0, jar)
  OBVIOUS
<1>8. /\ r \in CallType /\ r.kind = "list" /\ r.conv = None /\ r.session = jar /\ r.text = 0
      /\ r.cookie = None /\ r.listed = {}
  <2>1. PICK j \in 0..MaxSessions : j = jar
    BY <1>4
  <2>2. r = Request("list", None, 0, j)
    BY <1>7, <2>1
  <2>. QED BY <2>1, <2>2, ListRequest
<1>9. call = [k \in Slot |-> IF k = 1 THEN r ELSE Idle]
  BY <1>3, <1>7
<1>10. call \in [Slot -> CallType] /\ \A k \in Slot : call[k].text = 0
  BY <1>8, <1>9, IdleFacts
<1>11. ASSUME NEW k \in Slot PROVE CallGood(call[k])
  <2>1. PICK x : x = call[k]
    OBVIOUS
  <2>2. /\ x.kind \in {"list", "idle"} /\ x.conv = None /\ x.session \in {jar, None}
        /\ x.text = 0 /\ x.cookie = None /\ x.listed = {}
    BY <1>8, <1>9, <2>1, IdleFacts
  <2>3. CallGood(x)
    BY <1>3, <1>4, <2>2 DEF CallGood, Exists, None
  <2>. QED BY <2>1, <2>3
<1>12. Ensuring = {}
  BY <1>10 DEF Ensuring
<1>13. Len(stream) + Cardinality(Ensuring) <= MaxSends
  BY <1>3, <1>12, FS_EmptySet, ConstantFacts
<1>14. view \in [Conv -> ViewType]
  <2>1. NoView \in ViewType
    BY DEF NoView, ViewType
  <2>. QED BY <1>3, <2>1
<1>15. Shapes
  BY <1>3, <1>4, <1>5, <1>6, <1>10, <1>14, ConstantFacts DEF Shapes, None
<1>. QED BY <1>3, <1>5, <1>6, <1>11, <1>13, <1>15 DEF TInv

(***************************************************************************)
(* However the page and the server are interleaved, whatever fails and in    *)
(* whatever order the answers arrive, every variable keeps its shape: a      *)
(* deleted conversation has no turns, a request carries only sessions that   *)
(* were handed out, and a text only while it waits for its conversation.     *)
(***************************************************************************)
THEOREM TypeCorrect == Spec => []TypeOK
<1>1. TInv => TypeOK
  <2>1. SUFFICES ASSUME TInv PROVE TypeOK
    OBVIOUS
  <2>2. ASSUME NEW k \in Slot
        PROVE  /\ call[k].kind \in Kinds /\ call[k].conv \in Conv \cup {None}
               /\ {call[k].session, call[k].cookie} \subseteq 0..given
               /\ call[k].text # 0 => call[k].kind \in {"new", "list"} /\ call[k].text <= typed
               /\ call[k].listed \subseteq Conv /\ call[k].turns \in Seq(TurnType)
    <3>1. PICK a \in CallType : a = call[k] /\ CallGood(a)
      BY <2>1, ShapeFacts
    <3>2. a.session \in 0..given /\ a.cookie \in 0..given
      BY <2>1, <3>1, ShapeFacts, ConstantFacts DEF CallType, CallGood
    <3>. QED BY <3>1, <3>2 DEF CallType, CallGood
  <2>. QED BY <2>1, <2>2 DEF TypeOK, TInv, Shapes, ServerType, ViewType, StreamType, States, Places
<1>. QED BY <1>1, InitTInv, TInvStep, PTL DEF Spec

(* ------------------------- what the page requests ------------------------- *)

(* In place of request k, the page waits for nothing, or for a request that    *)
(* carries the cookie of this moment; only a view that is not loaded is        *)
(* requested.                                                                  *)
Asks(k, r) ==
  /\ call' = [call EXCEPT ![k] = r] /\ r \in CallType
  /\ ~ r.answered /\ ~ r.ok /\ r.turns = <<>>
  /\ r.kind = "idle" \/ r.session = jar'
  /\ r.kind = "new" => r.conv = None
  /\ r.kind = "detail" => UNCHANGED view /\ ~ view[r.conv].loaded

Calm == UNCHANGED call \/ \E k \in Slot, r \in CallType : Asks(k, r)

Posts ==
  \/ UNCHANGED stream /\ unsure \subseteq unsure'
  \/ \E text \in 1..MaxTexts, c \in Conv, s \in 0..MaxSessions :
       s = jar' /\ Len(stream) < MaxSends /\ SendTo(text, c, s)

LEMMA IdleAsked ==
  ASSUME TInv, NEW k \in Slot, Finish(k)
  PROVE  Calm
<1>1. PICK r : r = Idle
  OBVIOUS
<1>2. call' = [call EXCEPT ![k] = r]
  BY <1>1 DEF Finish, Send
<1>3. /\ r \in CallType /\ r.kind = "idle" /\ r.turns = <<>> /\ ~ r.answered /\ ~ r.ok
  BY <1>1, IdleFacts
<1>4. Asks(k, r)
  BY <1>2, <1>3 DEF Asks
<1>. QED BY <1>3, <1>4 DEF Calm

LEMMA RequestAsked ==
  ASSUME TInv, NEW k \in Slot, NEW kind \in Kinds, NEW c \in Conv \cup {None},
         NEW t \in 0..MaxTexts, NEW s \in 0..MaxSessions, s = jar',
         call' = [call EXCEPT ![k] = Request(kind, c, t, s)],
         kind = "new" => c = None, kind = "detail" => UNCHANGED view /\ ~ view[c].loaded
  PROVE  Calm
<1>1. PICK r : r = Request(kind, c, t, s)
  OBVIOUS
<1>2. call' = [call EXCEPT ![k] = r]
  BY <1>1
<1>3. /\ r \in CallType /\ r.kind = kind /\ r.conv = c /\ r.session = s /\ r.turns = <<>>
      /\ ~ r.answered /\ ~ r.ok
  BY <1>1, RequestFacts
<1>4. Asks(k, r)
  BY <1>2, <1>3 DEF Asks
<1>. QED BY <1>3, <1>4 DEF Calm

LEMMA CallAsked ==
  ASSUME TInv, NEW kind \in Kinds, NEW c \in Conv \cup {None}, NEW t \in 0..MaxTexts,
         UNCHANGED jar, Call(kind, c, t),
         kind = "new" => c = None, kind = "detail" => UNCHANGED view /\ ~ view[c].loaded
  PROVE  Calm
<1>1. PICK k \in Slot : call' = [call EXCEPT ![k] = Request(kind, c, t, jar)]
  BY SendFacts
<1>2. PICK s \in 0..MaxSessions : s = jar
  BY ShapeFacts
<1>3. call' = [call EXCEPT ![k] = Request(kind, c, t, s)] /\ s = jar'
  BY <1>1, <1>2
<1>. QED BY <1>3, RequestAsked

LEMMA GoOnAsked ==
  ASSUME TInv, NEW k \in Slot, NEW kind \in Kinds, NEW c \in Conv \cup {None},
         jar' = Jar(k), GoOn(k, kind, c),
         kind = "new" => c = None, kind = "detail" => UNCHANGED view /\ ~ view[c].loaded
  PROVE  Calm
<1>1. PICK t \in 0..MaxTexts : t = call[k].text
  BY ShapeFacts DEF CallType
<1>2. PICK s \in 0..MaxSessions : s = Jar(k)
  BY JarFacts
<1>3. call' = [call EXCEPT ![k] = Request(kind, c, t, s)] /\ s = jar'
  BY <1>1, <1>2 DEF GoOn, Send
<1>. QED BY <1>3, RequestAsked

UserStep == Boot \/ Poll \/ New \/ Type \/ \E c \in Conv : Select(c) \/ Delete(c)
PageStep == UserStep \/ Enter \/ \E k \in Slot : Apply(k) \/ Fail(k)

LEMMA UserCalm ==
  ASSUME TInv, UserStep
  PROVE  Calm /\ UNCHANGED <<conv, given, jar, view, stream, unsure>>
<1>1. UNCHANGED <<conv, given, jar, view, stream, unsure>>
  BY DEF UserStep, Boot, Poll, New, Type, Select, Delete, server, page
<1>2. 0 \in 0..MaxTexts /\ {"list", "new", "probe", "delete", "detail"} \subseteq Kinds
      /\ None \in Conv \cup {None} /\ last \in Conv \cup {None}
  BY ConstantFacts DEF Kinds, TInv, Shapes
<1>3. CASE Boot
  <2>1. Call("probe", last, 0) \/ Call("new", None, 0)
    BY <1>3 DEF Boot
  <2>. QED BY <1>1, <1>2, <2>1, CallAsked
<1>4. CASE Poll \/ New
  BY <1>1, <1>2, <1>4, CallAsked DEF Poll, New
<1>5. CASE Type
  <2>1. UNCHANGED call
    BY <1>5 DEF Type
  <2>. QED BY <1>1, <2>1 DEF Calm
<1>6. ASSUME NEW c \in Conv, Delete(c) PROVE Calm
  BY <1>1, <1>2, <1>6, CallAsked DEF Delete
<1>7. ASSUME NEW c \in Conv, Select(c) PROVE Calm
  <2>1. CASE UNCHANGED call
    BY <2>1 DEF Calm
  <2>2. CASE ~ view[c].loaded /\ Call("detail", c, 0)
    BY <1>1, <1>2, <2>2, CallAsked
  <2>. QED BY <1>7, <2>1, <2>2 DEF Select
<1>. QED BY <1>1, <1>3, <1>4, <1>5, <1>6, <1>7 DEF UserStep

LEMMA EnterCalm ==
  ASSUME TInv, Enter
  PROVE  Calm /\ Posts /\ UNCHANGED <<conv, given, jar>>
<1>1. UNCHANGED <<conv, given, jar>>
  BY DEF Enter, server
<1>2. PICK n \in 1..MaxTexts : n = input
  <2>1. PICK n \in Nat : n = input /\ n <= typed /\ n >= 1
    BY ShapeFacts DEF TInv, Shapes, Enter
  <2>. QED BY <2>1, ShapeFacts, ConstantFacts
<1>3. PICK m \in Nat : m = Cardinality(Ensuring) /\ Len(stream) + m < MaxSends
  BY EnsuringFinite DEF Enter
<1>4. Len(stream) < MaxSends
  BY <1>3, ShapeFacts, ConstantFacts
<1>5. CASE current # None
  <2>1. PICK s \in 0..MaxSessions : s = jar
    BY ShapeFacts
  <2>2. current \in Conv /\ SendTo(n, current, s) /\ UNCHANGED call
    BY <1>2, <1>5, <2>1 DEF Enter, TInv, Shapes
  <2>3. Posts
    BY <1>1, <1>4, <2>1, <2>2 DEF Posts
  <2>. QED BY <1>1, <2>2, <2>3 DEF Calm
<1>6. CASE current = None
  <2>1. Call("new", None, n) /\ UNCHANGED <<stream, unsure>>
    BY <1>2, <1>6 DEF Enter
  <2>2. "new" \in Kinds /\ n \in 0..MaxTexts
    BY DEF Kinds
  <2>. QED BY <1>1, <2>1, <2>2, CallAsked DEF Posts
<1>. QED BY <1>5, <1>6

LEMMA ApplyListCalm ==
  ASSUME TInv, NEW k \in Slot, ApplyList(k)
  PROVE  Calm /\ Posts /\ UNCHANGED <<conv, given>> /\ jar' = Jar(k) /\ call[k].kind = "list"
<1>1. /\ UNCHANGED <<conv, given>> /\ jar' = Jar(k) /\ call[k].kind = "list" /\ Finish(k)
  BY DEF ApplyList, Answered, server
<1>2. Posts
  <2>1. CASE call[k].text # 0
    <3>1. PICK a \in CallType : a = call[k] /\ CallGood(a)
      BY ShapeFacts
    <3>2. PICK t \in 1..MaxTexts : t = a.text
      BY <2>1, <3>1, ConstantFacts DEF CallType
    <3>3. PICK s \in 0..MaxSessions : s = jar'
      BY <1>1, JarFacts
    <3>4. current \in Conv
      BY <1>1, <2>1, <3>1 DEF CallGood, TInv, Shapes
    <3>5. SendTo(t, current, s)
      BY <2>1, <3>1, <3>2, <3>3 DEF ApplyList
    <3>6. PICK m \in Nat, n \in Nat : m = Cardinality(Ensuring) /\ n + 1 <= m
      <4>1. PICK r : r = Idle
        OBVIOUS
      <4>2. r \in CallType /\ r.text = 0 /\ call' = [call EXCEPT ![k] = r]
        BY <1>1, <4>1, IdleFacts DEF Finish, Send
      <4>. QED BY <2>1, <4>2, TextCount
    <3>7. Len(stream) + m <= MaxSends
      BY <3>6 DEF TInv
    <3>8. Len(stream) < MaxSends
      BY <3>6, <3>7, ShapeFacts, ConstantFacts
    <3>. QED BY <3>3, <3>4, <3>5, <3>8 DEF Posts
  <2>2. CASE call[k].text = 0
    BY <2>2 DEF ApplyList, Posts
  <2>. QED BY <2>1, <2>2
<1>. QED BY <1>1, <1>2, IdleAsked

LEMMA ApplyNewCalm ==
  ASSUME TInv, NEW k \in Slot, ApplyNew(k)
  PROVE  Calm /\ UNCHANGED <<conv, given, stream, unsure>> /\ jar' = Jar(k) /\ call[k].kind = "new"
<1>1. /\ UNCHANGED <<conv, given, stream, unsure>> /\ jar' = Jar(k) /\ call[k].kind = "new"
      /\ GoOn(k, "list", None)
  BY DEF ApplyNew, Answered, server
<1>2. "list" \in Kinds
  BY DEF Kinds
<1>. QED BY <1>1, <1>2, GoOnAsked

LEMMA ApplyDetailCalm ==
  ASSUME TInv, NEW k \in Slot, ApplyDetail(k)
  PROVE  /\ Calm /\ UNCHANGED <<conv, given, stream>> /\ unsure \subseteq unsure'
         /\ jar' = Jar(k) /\ call[k].kind = "detail"
BY IdleAsked DEF ApplyDetail, Answered, server

LEMMA ApplyProbeCalm ==
  ASSUME TInv, NEW k \in Slot, ApplyProbe(k)
  PROVE  Calm /\ UNCHANGED <<conv, given, view, stream, unsure>> /\ jar' = Jar(k) /\ call[k].kind = "probe"
<1>1. UNCHANGED <<conv, given, view, stream, unsure>> /\ jar' = Jar(k) /\ call[k].kind = "probe"
  BY DEF ApplyProbe, Answered, server
<1>2. PICK c \in Conv \cup {None} : c = call[k].conv
  BY ShapeFacts DEF CallType
<1>3. {"detail", "new"} \subseteq Kinds
  BY DEF Kinds
<1>4. Finish(k) \/ (~ view[c].loaded /\ GoOn(k, "detail", c)) \/ GoOn(k, "new", None)
  BY <1>2 DEF ApplyProbe, StartAfresh
<1>5. CASE Finish(k)
  BY <1>1, <1>5, IdleAsked
<1>6. CASE ~ view[c].loaded /\ GoOn(k, "detail", c)
  BY <1>1, <1>3, <1>6, GoOnAsked
<1>7. CASE GoOn(k, "new", None)
  BY <1>1, <1>3, <1>7, GoOnAsked
<1>. QED BY <1>1, <1>4, <1>5, <1>6, <1>7

LEMMA ApplyDeleteCalm ==
  ASSUME TInv, NEW k \in Slot, ApplyDelete(k)
  PROVE  Calm /\ UNCHANGED <<conv, given, view, stream, unsure>> /\ jar' = Jar(k) /\ call[k].kind = "delete"
<1>1. /\ UNCHANGED <<conv, given, view, stream, unsure>> /\ jar' = Jar(k) /\ call[k].kind = "delete"
      /\ GoOn(k, "new", None) \/ GoOn(k, "list", None)
  BY DEF ApplyDelete, Answered, StartAfresh, server, page
<1>2. {"list", "new"} \subseteq Kinds
  BY DEF Kinds
<1>3. CASE GoOn(k, "new", None)
  BY <1>1, <1>2, <1>3, GoOnAsked
<1>4. CASE GoOn(k, "list", None)
  BY <1>1, <1>2, <1>4, GoOnAsked
<1>. QED BY <1>1, <1>3, <1>4

LEMMA PageCalm ==
  ASSUME TInv, PageStep
  PROVE  /\ Calm /\ Posts /\ UNCHANGED <<conv, given>>
         /\ jar' = jar \/ \E k \in Slot : call[k].kind # "idle" /\ jar' = Jar(k)
<1>1. CASE UserStep
  BY <1>1, UserCalm DEF Posts
<1>2. CASE Enter
  BY <1>2, EnterCalm
<1>3. ASSUME NEW k \in Slot, Fail(k)
      PROVE  Calm /\ UNCHANGED <<conv, given, jar, stream, unsure>>
  BY <1>3, IdleAsked DEF Fail, server, page
<1>4. ASSUME NEW k \in Slot, Apply(k)
      PROVE  /\ Calm /\ Posts /\ UNCHANGED <<conv, given>> /\ jar' = Jar(k)
             /\ call[k].kind \in {"list", "new", "detail", "probe", "delete"}
  BY <1>4, ApplyListCalm, ApplyNewCalm, ApplyDetailCalm, ApplyProbeCalm, ApplyDeleteCalm
     DEF Apply, Posts
<1>. QED BY <1>1, <1>2, <1>3, <1>4 DEF PageStep, Posts

(* ----------------------------- the session ------------------------------- *)

LEMMA PageSettled ==
  ASSUME TInv, Settled, PageStep
  PROVE  Settled' /\ UNCHANGED <<jar, given>>
<1>1. UNCHANGED <<jar, given>>
  <2>1. ASSUME NEW k \in Slot, call[k].kind # "idle" PROVE Jar(k) = jar
    <3>1. PICK a \in CallType : a = call[k] /\ CallGood(a)
      BY ShapeFacts
    <3>2. a.session # None
      BY <2>1, <3>1 DEF Settled
    <3>. QED BY <3>1, <3>2 DEF CallGood, Jar
  <2>. QED BY <2>1, PageCalm
<1>2. \A j \in Slot : call'[j].kind # "idle" => call'[j].session = jar'
  <2>1. CASE UNCHANGED call
    BY <1>1, <2>1 DEF Settled
  <2>2. ASSUME NEW k \in Slot, NEW r \in CallType, Asks(k, r)
        PROVE  \A j \in Slot : call'[j].kind # "idle" => call'[j].session = jar'
    BY <1>1, <2>2, ShapeFacts DEF Asks, Settled
  <2>. QED BY <2>1, <2>2, PageCalm DEF Calm
<1>3. \A i \in DOMAIN stream' : /\ stream'[i].at = "sent" => stream'[i].session = jar'
                               /\ stream'[i].cookie \in {None, jar'}
  <2>1. CASE UNCHANGED stream
    BY <1>1, <2>1 DEF Settled
  <2>2. ASSUME NEW text \in 1..MaxTexts, NEW c \in Conv, NEW s \in 0..MaxSessions, s = jar',
               Len(stream) < MaxSends, SendTo(text, c, s)
        PROVE  \A i \in DOMAIN stream' : /\ stream'[i].at = "sent" => stream'[i].session = jar'
                                        /\ stream'[i].cookie \in {None, jar'}
    <3>1. /\ stream' \in Seq(StreamType) /\ Len(stream') = Len(stream) + 1
          /\ stream'[Len(stream) + 1].session = s /\ stream'[Len(stream) + 1].cookie = None
          /\ \A i \in 1..Len(stream) : stream'[i] = stream[i]
      BY <2>2, SendToFacts
    <3>2. SUFFICES ASSUME NEW i \in DOMAIN stream'
                   PROVE  /\ stream'[i].at = "sent" => stream'[i].session = jar'
                          /\ stream'[i].cookie \in {None, jar'}
      OBVIOUS
    <3>3. i \in 1..Len(stream) \/ i = Len(stream) + 1
      BY <3>1, ShapeFacts
    <3>4. DOMAIN stream = 1..Len(stream)
      BY DEF TInv, Shapes
    <3>. QED BY <1>1, <2>2, <3>1, <3>2, <3>3, <3>4 DEF Settled
  <2>. QED BY <2>1, <2>2, PageCalm DEF Posts
<1>4. jar' # None
  BY <1>1 DEF Settled
<1>. QED BY <1>1, <1>2, <1>3, <1>4 DEF Settled

LEMMA ServeSettled ==
  ASSUME TInv, Settled, NEW k \in Slot, Serve(k)
  PROVE  Settled' /\ UNCHANGED <<jar, given>>
<1>1. UNCHANGED <<jar, stream>>
  BY DEF Serve, ServeList, ServeNew, ServeDetail, ServeDelete, page
<1>2. PICK r : Answers(k, r)
  BY ServeFacts
<1>3. call[k].kind # "idle"
  BY DEF Serve, ServeList, ServeNew, ServeDetail, ServeDelete, Waiting
<1>4. r.session = jar /\ r.session # None
  BY <1>2, <1>3 DEF Answers, Settled
<1>5. UNCHANGED given
  BY <1>2, <1>4 DEF Answers
<1>6. \A j \in Slot : call'[j].kind # "idle" => call'[j].session = jar'
  BY <1>1, <1>2, <1>4, ShapeFacts DEF Answers, Settled
<1>. QED BY <1>1, <1>5, <1>6 DEF Settled

(* The steps of a turn that this part tells apart: where it moves, and what     *)
(* headers it then has under way.                                              *)
TurnStep(i) == StartTurn(i) \/ Headers(i) \/ StoreTurn(i) \/ LoseTurn(i)

LEMMA TurnSettled ==
  ASSUME TInv, Settled, NEW i \in DOMAIN stream, TurnStep(i)
  PROVE  Settled' /\ UNCHANGED <<jar, given>>
<1>1. UNCHANGED call /\ i \in 1..Len(stream) /\ DOMAIN stream = 1..Len(stream)
  BY DEF TurnStep, StartTurn, Headers, StoreTurn, LoseTurn, TInv, Shapes
<1>2. /\ jar # None /\ stream[i].cookie \in {None, jar}
      /\ stream[i].at = "sent" => stream[i].session = jar
  BY DEF Settled
<1>3. PICK j : j = jar /\ j \in Nat /\ j <= given
  BY ShapeFacts
<1>4. \E p, x : /\ Moves(i, p, x) /\ UNCHANGED <<jar, given>> /\ x \in {None, j}
                /\ p # "sent" \/ p = stream[i].at
  <2>1. CASE StartTurn(i)
    <3>1. PICK s \in 1..MaxSessions, p \in {"running", "refused"} :
            /\ Moves(i, p, s) /\ given' = (IF given >= s THEN given ELSE s)
            /\ stream[i].session # None => s = stream[i].session
      BY <2>1, StartFacts
    <3>2. s = j
      BY <1>2, <1>3, <2>1, <3>1 DEF StartTurn
    <3>3. UNCHANGED jar
      BY <2>1 DEF StartTurn
    <3>4. UNCHANGED given
      BY <1>3, <3>1, <3>2, ShapeFacts
    <3>5. p # "sent"
      OBVIOUS
    <3>. QED BY <3>1, <3>2, <3>3, <3>4, <3>5
  <2>2. CASE Headers(i)
    <3>1. UNCHANGED <<jar, given>>
      BY <1>2, <2>2 DEF Headers, server
    <3>2. PICK p : p = stream[i].at
      OBVIOUS
    <3>3. Moves(i, p, None)
      BY <2>2, <3>2, HeadersMoves
    <3>. QED BY <3>1, <3>2, <3>3
  <2>3. CASE StoreTurn(i)
    <3>1. PICK x : x = stream[i].cookie
      OBVIOUS
    <3>2. Moves(i, "over", x) /\ "over" # "sent"
      BY <2>3, <3>1, StoreMoves
    <3>3. UNCHANGED <<jar, given>>
      BY <2>3 DEF StoreTurn
    <3>. QED BY <1>2, <1>3, <3>1, <3>2, <3>3
  <2>4. CASE LoseTurn(i)
    <3>1. PICK p \in Places : Moves(i, p, None) /\ p \notin {"sent", "running"}
      BY <2>4, LoseMoves
    <3>2. UNCHANGED <<jar, given>>
      BY <2>4 DEF LoseTurn, server
    <3>. QED BY <3>1, <3>2
  <2>. QED BY <2>1, <2>2, <2>3, <2>4 DEF TurnStep
<1>5. PICK p, x : /\ Moves(i, p, x) /\ UNCHANGED <<jar, given>> /\ x \in {None, j}
                  /\ p # "sent" \/ p = stream[i].at
  BY <1>4
<1>6. /\ DOMAIN stream' = 1..Len(stream)
      /\ \A n \in 1..Len(stream) :
           /\ stream'[n].session = stream[n].session
           /\ stream'[n].at = (IF n = i THEN p ELSE stream[n].at)
           /\ stream'[n].cookie = (IF n = i THEN x ELSE stream[n].cookie)
  BY <1>5 DEF Moves
<1>7. ASSUME NEW n \in DOMAIN stream'
      PROVE  /\ stream'[n].at = "sent" => stream'[n].session = jar'
             /\ stream'[n].cookie \in {None, jar'}
  <2>1. CASE n = i
    BY <1>1, <1>2, <1>3, <1>5, <1>6, <2>1
  <2>2. CASE n # i
    BY <1>1, <1>5, <1>6, <1>7, <2>2 DEF Settled
  <2>. QED BY <2>1, <2>2
<1>8. jar' # None /\ \A k \in Slot : call'[k].kind # "idle" => call'[k].session = jar'
  BY <1>1, <1>5 DEF Settled
<1>. QED BY <1>5, <1>7, <1>8 DEF Settled

LEMMA SettledStep ==
  ASSUME TInv, Settled, [Next]_vars, jar' # None
  PROVE  Settled' /\ UNCHANGED <<jar, given>>
<1>1. CASE PageStep
  BY <1>1, PageSettled
<1>2. CASE \E k \in Slot : Serve(k)
  BY <1>2, ServeSettled
<1>3. CASE \E i \in DOMAIN stream : TurnStep(i)
  BY <1>3, TurnSettled
<1>4. CASE UNCHANGED vars
  BY <1>4 DEF vars, Settled
<1>5. ~ Expire
  BY DEF Expire
<1>. QED BY <1>1, <1>2, <1>3, <1>4, <1>5 DEF Next, PageStep, UserStep, TurnStep

(***************************************************************************)
(* A browser that has a session keeps it as long as the cookie lasts: once    *)
(* every request and every header under way carries the cookie, no answer, in *)
(* whatever order it comes, brings another one, no request makes _session_id  *)
(* hand out a new session, and only the cookie's expiry takes it.             *)
(***************************************************************************)
THEOREM SessionKeptTillExpiry == Spec => SessionKept
<1>1. TInv /\ [Next]_vars
        => [Settled /\ jar' # None => Settled' /\ jar' = jar /\ given' = given]_vars
  BY SettledStep
<1>. QED BY <1>1, InitTInv, TInvStep, PTL DEF Spec, SessionKept

(* ------------------------ stored turns and answers ------------------------ *)

(* Questions are only added, and one whose turn is over stays where it is. *)
StreamGrows ==
  /\ Len(stream) <= Len(stream')
  /\ \A i \in 1..Len(stream) : /\ stream'[i].conv = stream[i].conv
                               /\ stream[i].at = "over" => stream'[i].at = "over"

(* The turns of an earlier visit are only ever lost. *)
EarlierShrinks == \A c \in Conv : OfEarlierVisit(c)' => OfEarlierVisit(c)

(* A turn that is over stays over, one that goes on was under way. *)
LEMMA TurnMovesOn ==
  ASSUME TInv, NEW i \in DOMAIN stream, TurnStep(i)
  PROVE  \E p, x : /\ Moves(i, p, x)
                   /\ stream[i].at = "over" => p = "over"
                   /\ p \in {"sent", "running"} => stream[i].at \in {"sent", "running"}
<1>1. CASE StartTurn(i)
  <2>1. PICK s, p : Moves(i, p, s)
    BY <1>1, StartFacts
  <2>. QED BY <1>1, <2>1 DEF StartTurn
<1>2. CASE Headers(i)
  <2>1. PICK p : p = stream[i].at
    OBVIOUS
  <2>2. Moves(i, p, None)
    BY <1>2, <2>1, HeadersMoves
  <2>. QED BY <2>1, <2>2
<1>3. CASE StoreTurn(i)
  <2>1. PICK p, x : p = "over" /\ x = stream[i].cookie
    OBVIOUS
  <2>2. Moves(i, p, x)
    BY <1>3, <2>1, StoreMoves
  <2>3. stream[i].at = "running"
    BY <1>3 DEF StoreTurn
  <2>. QED BY <2>1, <2>2, <2>3
<1>4. CASE LoseTurn(i)
  <2>1. PICK p \in Places : /\ Moves(i, p, None) /\ p \notin {"sent", "running"}
                            /\ stream[i].at = "over" => p = "over"
    BY <1>4, LoseMoves
  <2>. QED BY <2>1
<1>. QED BY <1>1, <1>2, <1>3, <1>4 DEF TurnStep

LEMMA StreamStep ==
  ASSUME TInv, [Next]_vars
  PROVE  StreamGrows
<1>1. ASSUME PageStep PROVE StreamGrows
  <2>1. CASE UNCHANGED stream
    BY <2>1, ShapeFacts DEF StreamGrows
  <2>2. ASSUME NEW text \in 1..MaxTexts, NEW c \in Conv, NEW s \in 0..MaxSessions,
               Len(stream) < MaxSends, SendTo(text, c, s)
        PROVE  StreamGrows
    <3>1. /\ Len(stream') = Len(stream) + 1 /\ \A i \in 1..Len(stream) : stream'[i] = stream[i]
      BY <2>2, SendToFacts
    <3>. QED BY <3>1, ShapeFacts DEF StreamGrows
  <2>. QED BY <1>1, <2>1, <2>2, PageCalm DEF Posts
<1>2. ASSUME NEW k \in Slot, Serve(k) PROVE StreamGrows
  <2>1. UNCHANGED stream
    BY <1>2 DEF Serve, ServeList, ServeNew, ServeDetail, ServeDelete, page
  <2>. QED BY <2>1, ShapeFacts DEF StreamGrows
<1>3. ASSUME NEW i \in DOMAIN stream, TurnStep(i)
      PROVE  StreamGrows
  <2>1. PICK p, x : Moves(i, p, x) /\ (stream[i].at = "over" => p = "over")
    BY <1>3, TurnMovesOn
  <2>. QED BY <2>1, ShapeFacts DEF Moves, StreamGrows
<1>4. ASSUME UNCHANGED vars PROVE StreamGrows
  BY <1>4, ShapeFacts DEF vars, StreamGrows
<1>5. ASSUME Expire PROVE StreamGrows
  BY <1>5, ShapeFacts DEF Expire, page, StreamGrows
<1>. QED BY <1>1, <1>2, <1>3, <1>4, <1>5 DEF Next, PageStep, UserStep, TurnStep

LEMMA OfKept ==
  ASSUME TInv, StreamGrows, Len(stream') \in Nat, NEW i, NEW c, Of(i, c)
  PROVE  Of(i, c)'
<1>1. CASE i = Earlier
  BY <1>1 DEF Of
<1>2. CASE i # Earlier
  <2>1. i \in 1..Len(stream) /\ stream[i].conv = c
    BY <1>2 DEF Of
  <2>2. i \in 1..Len(stream') /\ stream'[i].conv = c
    BY <2>1, ShapeFacts DEF StreamGrows
  <2>. QED BY <2>2 DEF Of
<1>. QED BY <1>1, <1>2

LEMMA AnswerKept ==
  ASSUME TInv, StreamGrows, Len(stream') \in Nat, EarlierShrinks, NEW r \in CallType, CallGood(r),
         AnswerGood(r)
  PROVE  AnswerGood(r)'
<1>1. \A n \in 1..Len(r.turns) : Of(r.turns[n], r.conv)'
  BY OfKept DEF AnswerGood
<1>2. r.kind = "detail" \/ (r.kind = "new" /\ r.answered) => r.conv \in Conv
  BY DEF CallGood, CallType
<1>3. r.kind = "detail" /\ r.ok /\ OfEarlierVisit(r.conv)' =>
        \E n \in 1..Len(r.turns) : r.turns[n] = Earlier
  BY <1>2 DEF AnswerGood, EarlierShrinks
<1>4. r.kind = "new" /\ r.answered => ~ OfEarlierVisit(r.conv)'
  BY <1>2 DEF AnswerGood, EarlierShrinks
<1>. QED BY <1>1, <1>3, <1>4 DEF AnswerGood

(* An answer that is due brings no turns yet. *)
LEMMA NothingYet ==
  ASSUME NEW r \in CallType, ~ r.answered, ~ r.ok, r.turns = <<>>
  PROVE  AnswerGood(r)' /\ AnswerGood(r)
BY DEF AnswerGood, Once

LEMMA StoredKept ==
  ASSUME TInv, SInv, StreamGrows, Len(stream') \in Nat, NEW c \in Conv,
         conv'[c].turns = conv[c].turns
  PROVE  StoredGood(c)' /\ (OfEarlierVisit(c)' <=> OfEarlierVisit(c))
<1>1. PICK t \in Seq(TurnType) : t = conv[c].turns /\ t = conv'[c].turns
  BY DEF TInv, Shapes, ServerType
<1>2. Once(t) /\ \A n \in 1..Len(t) : Of(t[n], c) /\ (t[n] # Earlier => stream[t[n]].at = "over")
  BY <1>1 DEF SInv, StoredGood
<1>3. ASSUME NEW n \in 1..Len(t)
      PROVE  Of(t[n], c)' /\ (t[n] # Earlier => stream'[t[n]].at = "over")
  <2>1. PICK i : i = t[n]
    OBVIOUS
  <2>2. Of(i, c)'
    BY <1>2, <2>1, OfKept
  <2>3. i # Earlier => stream'[i].at = "over"
    BY <1>2, <2>1 DEF Of, StreamGrows
  <2>. QED BY <2>1, <2>2, <2>3
<1>4. StoredGood(c)'
  <2>1. conv'[c].turns = t
    BY <1>1
  <2>. QED BY <1>2, <1>3, <2>1 DEF StoredGood
<1>5. OfEarlierVisit(c)' <=> OfEarlierVisit(c)
  BY <1>1 DEF OfEarlierVisit
<1>. QED BY <1>4, <1>5

LEMMA PageSInv ==
  ASSUME TInv, SInv, PageStep, [Next]_vars
  PROVE  SInv'
<1>1. UNCHANGED conv /\ Calm
  BY PageCalm
<1>2. StreamGrows /\ Len(stream') \in Nat
  BY StreamStep, TInvStep, ShapeFacts DEF TInv, Shapes
<1>3. \A c \in Conv : StoredGood(c)' /\ (OfEarlierVisit(c)' <=> OfEarlierVisit(c))
  BY <1>1, <1>2, StoredKept
<1>4. EarlierShrinks
  BY <1>1, <1>3 DEF EarlierShrinks
<1>5. ASSUME NEW j \in Slot PROVE AnswerGood(call[j])'
  <2>1. PICK x : x = call'[j]
    OBVIOUS
  <2>2. PICK y \in CallType : y = call[j] /\ CallGood(y) /\ AnswerGood(y)
    BY ShapeFacts DEF SInv
  <2>3. AnswerGood(y)'
    BY <1>2, <1>4, <2>2, AnswerKept
  <2>4. AnswerGood(x)'
    <3>1. CASE UNCHANGED call
      BY <2>1, <2>2, <2>3, <3>1
    <3>2. ASSUME NEW k \in Slot, NEW r \in CallType, Asks(k, r) PROVE AnswerGood(x)'
      <4>1. CASE j = k
        <5>1. x = r
          BY <2>1, <3>2, <4>1, ShapeFacts DEF Asks
        <5>2. ~ r.answered /\ ~ r.ok /\ r.turns = <<>>
          BY <3>2 DEF Asks
        <5>. QED BY <5>1, <5>2, NothingYet
      <4>2. CASE j # k
        BY <2>1, <2>2, <2>3, <3>2, <4>2 DEF Asks
      <4>. QED BY <4>1, <4>2
    <3>. QED BY <1>1, <3>1, <3>2 DEF Calm
  <2>. QED BY <2>1, <2>4, Zenon DEF AnswerGood
<1>. QED BY <1>3, <1>5 DEF SInv

(* A step that empties or leaves each conversation's turns keeps SInv of them. *)
LEMMA TurnsLost ==
  ASSUME TInv, SInv, StreamGrows, Len(stream') \in Nat,
         \A c \in Conv : conv'[c].turns = <<>> \/ conv'[c].turns = conv[c].turns
  PROVE  EarlierShrinks /\ \A c \in Conv : StoredGood(c)'
<1>1. ASSUME NEW c \in Conv, conv'[c].turns = <<>>
      PROVE  StoredGood(c)' /\ ~ OfEarlierVisit(c)'
  BY <1>1 DEF StoredGood, Once, OfEarlierVisit
<1>2. ASSUME NEW c \in Conv, conv'[c].turns = conv[c].turns
      PROVE  StoredGood(c)' /\ (OfEarlierVisit(c)' <=> OfEarlierVisit(c))
  BY <1>2, StoredKept
<1>. QED BY <1>1, <1>2 DEF EarlierShrinks

(* What the server's answers make of the stored turns. *)
LEMMA ServedTurns ==
  ASSUME TInv, NEW k \in Slot, NEW r, Answers(k, r),
         AnswersList(k, r) \/ AnswersNew(k, r) \/ AnswersDetail(k, r) \/ AnswersDelete(k, r)
  PROVE  /\ \A c \in Conv : conv'[c].turns = <<>> \/ conv'[c].turns = conv[c].turns
         /\ AnswersNew(k, r) => r.conv \in Conv /\ conv'[r.conv].turns = <<>>
<1>1. conv \in [Conv -> ServerType]
  BY DEF TInv, Shapes
<1>2. CASE UNCHANGED conv
  BY <1>2 DEF AnswersNew, TInv
<1>3. CASE AnswersNew(k, r)
  <2>1. PICK s \in Session, u \in Nat :
          conv' = [conv EXCEPT ![r.conv] =
                     [NoConv EXCEPT !.state = "live", !.owner = s, !.updated = u]]
    BY <1>3 DEF AnswersNew
  <2>2. PICK c, n : c = r.conv /\ n = [NoConv EXCEPT !.state = "live", !.owner = s, !.updated = u]
    OBVIOUS
  <2>3. n.turns = <<>> /\ c \in Conv
    BY <1>3, <2>2 DEF NoConv, AnswersNew
  <2>. QED BY <1>1, <2>1, <2>2, <2>3
<1>4. CASE AnswersDelete(k, r) /\ conv' # conv
  <2>1. PICK c : /\ c = r.conv
                 /\ conv' = [conv EXCEPT ![c] = [@ EXCEPT !.state = "gone", !.turns = <<>>]]
    BY <1>4 DEF AnswersDelete
  <2>2. PICK n : n = [conv[c] EXCEPT !.state = "gone", !.turns = <<>>]
    OBVIOUS
  <2>3. conv' = [conv EXCEPT ![c] = n]
    BY <2>1, <2>2
  <2>4. c \in Conv => n.turns = <<>>
    BY <1>1, <2>2 DEF ServerType
  <2>5. r.kind = "delete"
    BY <1>4 DEF AnswersDelete
  <2>. QED BY <1>1, <2>3, <2>4, <2>5 DEF AnswersNew
<1>. QED BY <1>2, <1>3, <1>4 DEF AnswersList, AnswersDetail

LEMMA ServeSInv ==
  ASSUME TInv, SInv, NEW k \in Slot, Serve(k), [Next]_vars
  PROVE  SInv'
<1>1. PICK r : /\ Answers(k, r)
               /\ AnswersList(k, r) \/ AnswersNew(k, r) \/ AnswersDetail(k, r) \/ AnswersDelete(k, r)
  BY ServeFacts
<1>2. StreamGrows /\ Len(stream') \in Nat
  BY StreamStep, TInvStep, ShapeFacts DEF TInv, Shapes
<1>3. PICK a \in CallType : a = call[k] /\ CallGood(a) /\ AnswerGood(a)
  BY ShapeFacts DEF SInv
<1>4. /\ r \in CallType /\ call' = [call EXCEPT ![k] = r] /\ r.answered /\ ~ a.answered
      /\ r.kind = a.kind /\ r.session = a.session
  BY <1>1, <1>3 DEF Answers
<1>5. /\ \A c \in Conv : conv'[c].turns = <<>> \/ conv'[c].turns = conv[c].turns
      /\ AnswersNew(k, r) => r.conv \in Conv /\ conv'[r.conv].turns = <<>>
  BY <1>1, ServedTurns
<1>6. EarlierShrinks /\ \A c \in Conv : StoredGood(c)'
  BY <1>2, <1>5, TurnsLost
<1>7. AnswerGood(r)'
  <2>1. CASE AnswersList(k, r) \/ AnswersDelete(k, r)
    <3>1. r.conv = a.conv /\ r.turns = a.turns /\ r.kind \notin {"detail", "new"}
      BY <1>3, <2>1 DEF AnswersList, AnswersDelete
    <3>2. \A n \in 1..Len(r.turns) : Of(r.turns[n], r.conv)'
      BY <1>2, <1>3, <3>1, OfKept DEF AnswerGood
    <3>3. a.turns = <<>>
      BY <1>3, <1>4 DEF AnswerGood
    <3>. QED BY <1>3, <1>4, <3>1, <3>2, <3>3 DEF AnswerGood
  <2>2. CASE AnswersNew(k, r)
    <3>1. r.turns = a.turns /\ r.kind = "new" /\ a.turns = <<>>
      BY <1>3, <1>4, <2>2 DEF AnswersNew, AnswerGood
    <3>2. ~ OfEarlierVisit(r.conv)'
      BY <1>5, <2>2 DEF OfEarlierVisit
    <3>. QED BY <1>4, <3>1, <3>2 DEF AnswerGood, Once
  <2>3. CASE AnswersDetail(k, r)
    <3>1. /\ r.kind \in {"detail", "probe"} /\ UNCHANGED conv /\ r.conv = a.conv /\ r.conv \in Conv
      BY <1>3, <1>4, <2>3 DEF AnswersDetail, CallGood, CallType
    <3>2. CASE Found(r.session, r.conv) /\ r.ok /\ r.turns = conv[r.conv].turns
      <4>1. StoredGood(r.conv)
        BY <3>1 DEF SInv
      <4>2. Once(r.turns) /\ \A n \in 1..Len(r.turns) : Of(r.turns[n], r.conv)'
        BY <1>2, <3>2, <4>1, OfKept DEF StoredGood
      <4>3. OfEarlierVisit(r.conv)' => \E n \in 1..Len(r.turns) : r.turns[n] = Earlier
        BY <3>1, <3>2 DEF OfEarlierVisit
      <4>. QED BY <1>4, <3>1, <3>2, <4>2, <4>3 DEF AnswerGood
    <3>3. CASE ~ Found(r.session, r.conv) /\ r.turns = a.turns /\ (r.ok <=> a.ok)
      <4>1. a.turns = <<>> /\ ~ a.ok
        BY <1>3, <1>4 DEF AnswerGood
      <4>. QED BY <3>1, <3>3, <4>1 DEF AnswerGood, Once
    <3>. QED BY <1>3, <2>3, <3>2, <3>3 DEF AnswersDetail
  <2>. QED BY <1>1, <2>1, <2>2, <2>3
<1>8. ASSUME NEW j \in Slot PROVE AnswerGood(call[j])'
  <2>1. PICK x : x = call'[j]
    OBVIOUS
  <2>2. PICK y \in CallType : y = call[j] /\ CallGood(y) /\ AnswerGood(y)
    BY ShapeFacts DEF SInv
  <2>3. AnswerGood(y)'
    BY <1>2, <1>6, <2>2, AnswerKept
  <2>4. AnswerGood(x)'
    <3>1. CASE j = k
      BY <1>4, <1>7, <2>1, <3>1, ShapeFacts
    <3>2. CASE j # k
      BY <1>4, <2>1, <2>2, <2>3, <3>2
    <3>. QED BY <3>1, <3>2
  <2>. QED BY <2>1, <2>4, Zenon DEF AnswerGood
<1>. QED BY <1>6, <1>8 DEF SInv

LEMMA TurnSInv ==
  ASSUME TInv, SInv, NEW i \in DOMAIN stream, TurnStep(i), [Next]_vars
  PROVE  SInv'
<1>1. UNCHANGED call
  BY DEF TurnStep, StartTurn, Headers, StoreTurn, LoseTurn
<1>2. StreamGrows /\ Len(stream') \in Nat
  BY StreamStep, TInvStep, ShapeFacts DEF TInv, Shapes
<1>3. EarlierShrinks /\ \A c \in Conv : StoredGood(c)'
  <2>1. CASE UNCHANGED conv
    <3>1. \A c \in Conv : StoredGood(c)' /\ (OfEarlierVisit(c)' <=> OfEarlierVisit(c))
      BY <1>2, <2>1, StoredKept
    <3>. QED BY <2>1, <3>1 DEF EarlierShrinks
  <2>2. CASE StoreTurn(i) /\ conv[stream[i].conv].state = "live"
    <3>1. PICK c \in Conv : c = stream[i].conv
      BY <2>2, StoreTurnConv
    <3>2. /\ conv' \in [Conv -> ServerType] /\ i \in 1..Len(stream)
          /\ \A d \in Conv : conv'[d].owner = conv[d].owner /\ (d # c => conv'[d] = conv[d])
          /\ conv'[c].turns = Append(conv[c].turns, i)
      BY <2>2, <3>1, StoreTurnConv
    <3>3. ASSUME NEW d \in Conv, d # c
          PROVE  StoredGood(d)' /\ (OfEarlierVisit(d)' <=> OfEarlierVisit(d))
      BY <1>2, <3>2, <3>3, StoredKept
    <3>4. PICK t \in Seq(TurnType) : t = conv[c].turns
      BY DEF TInv, Shapes, ServerType
    <3>5. /\ Once(t)
          /\ \A n \in 1..Len(t) : Of(t[n], c) /\ (t[n] # Earlier => stream[t[n]].at = "over")
      BY <3>4 DEF SInv, StoredGood
    <3>6. i # Earlier /\ stream[i].at = "running"
      <4>1. PICK m \in Nat : m = Cardinality(Ensuring) /\ Len(stream) + m <= MaxSends
        BY EnsuringFinite DEF TInv
      <4>2. i \in Nat /\ i <= MaxSends
        BY <3>2, <4>1, ShapeFacts, ConstantFacts
      <4>. QED BY <2>2, <4>2, ConstantFacts DEF Earlier, StoreTurn
    <3>7. PICK u : u = Append(t, i)
      OBVIOUS
    <3>8. /\ Len(t) \in Nat /\ Len(u) = Len(t) + 1 /\ u[Len(t) + 1] = i
          /\ \A n \in 1..Len(t) : u[n] = t[n]
      BY <3>4, <3>7
    <3>9. \A n \in 1..Len(u) : n \in 1..Len(t) \/ n = Len(t) + 1
      BY <3>8
    <3>10. Once(u)
      <4>1. \A n \in 1..Len(t) : t[n] # i
        BY <3>5, <3>6
      <4>2. ASSUME NEW m \in 1..Len(u), NEW n \in 1..Len(u), u[m] = u[n] PROVE m = n
        <5>1. CASE m \in 1..Len(t) /\ n \in 1..Len(t)
          BY <3>5, <3>8, <4>2, <5>1 DEF Once
        <5>2. CASE m \in 1..Len(t) /\ n = Len(t) + 1
          BY <3>8, <4>1, <4>2, <5>2
        <5>3. CASE m = Len(t) + 1 /\ n \in 1..Len(t)
          BY <3>8, <4>1, <4>2, <5>3
        <5>4. CASE m = Len(t) + 1 /\ n = Len(t) + 1
          BY <5>4
        <5>. QED BY <3>9, <5>1, <5>2, <5>3, <5>4
      <4>. QED BY <4>2 DEF Once
    <3>11. ASSUME NEW n \in 1..Len(u)
           PROVE  Of(u[n], c)' /\ (u[n] # Earlier => stream'[u[n]].at = "over")
      <4>1. CASE n \in 1..Len(t)
        <5>1. PICK j : j = t[n] /\ j = u[n]
          BY <3>8, <4>1
        <5>2. Of(j, c)'
          BY <1>2, <3>5, <4>1, <5>1, OfKept
        <5>3. j # Earlier => stream'[j].at = "over"
          BY <1>2, <3>5, <4>1, <5>1 DEF Of, StreamGrows
        <5>. QED BY <5>1, <5>2, <5>3
      <4>2. CASE n = Len(t) + 1
        <5>1. u[n] = i
          BY <3>8, <4>2
        <5>2. Of(i, c)'
          <6>1. Of(i, c)
            BY <3>1, <3>2 DEF Of
          <6>. QED BY <1>2, <6>1, OfKept
        <5>3. stream'[i].at = "over"
          BY <2>2, <3>2, StoreMoves DEF Moves
        <5>4. PICK j : j = u[n]
          OBVIOUS
        <5>. QED BY <5>1, <5>2, <5>3
      <4>. QED BY <3>9, <4>1, <4>2
    <3>12. conv'[c].turns = u
      BY <3>2, <3>4, <3>7
    <3>13. StoredGood(c)'
      BY <3>10, <3>11, <3>12 DEF StoredGood
    <3>14. OfEarlierVisit(c)' => OfEarlierVisit(c)
      <4>1. SUFFICES ASSUME NEW n \in 1..Len(u), u[n] = Earlier PROVE OfEarlierVisit(c)
        BY <3>12 DEF OfEarlierVisit
      <4>2. n \in 1..Len(t) /\ t[n] = Earlier
        BY <3>6, <3>8, <3>9, <4>1
      <4>. QED BY <3>4, <4>2 DEF OfEarlierVisit
    <3>15. \A d \in Conv : OfEarlierVisit(d)' => OfEarlierVisit(d)
      BY <3>3, <3>14
    <3>. QED BY <3>2, <3>3, <3>13, <3>15 DEF EarlierShrinks
  <2>. QED BY <2>1, <2>2, StoreTurnConv DEF TurnStep, StartTurn, Headers, LoseTurn, server
<1>4. ASSUME NEW j \in Slot PROVE AnswerGood(call[j])'
  <2>1. PICK y \in CallType : y = call[j] /\ CallGood(y) /\ AnswerGood(y)
    BY ShapeFacts DEF SInv
  <2>2. AnswerGood(y)'
    BY <1>2, <1>3, <2>1, AnswerKept
  <2>3. y = call'[j]
    BY <1>1, <2>1
  <2>. QED BY <2>2, <2>3, Zenon DEF AnswerGood
<1>. QED BY <1>3, <1>4 DEF SInv

LEMMA SInvStep ==
  ASSUME TInv, SInv, [Next]_vars
  PROVE  SInv'
<1>1. CASE PageStep
  BY <1>1, PageSInv
<1>2. CASE \E k \in Slot : Serve(k)
  BY <1>2, ServeSInv
<1>3. CASE \E i \in DOMAIN stream : TurnStep(i)
  BY <1>3, TurnSInv
<1>4. CASE UNCHANGED vars \/ Expire
  <2>1. UNCHANGED <<conv, call, stream>>
    BY <1>4 DEF vars, Expire, server, page
  <2>. QED BY <2>1 DEF SInv, StoredGood, AnswerGood, Of, OfEarlierVisit
<1>. QED BY <1>1, <1>2, <1>3, <1>4 DEF Next, PageStep, UserStep, TurnStep

LEMMA InitSInv == Init => SInv
<1>1. SUFFICES ASSUME Init PROVE SInv
  OBVIOUS
<1>2. PICK returning \in BOOLEAN, state \in {"live", "gone"} :
       /\ conv = [c \in Conv |->
            IF returning /\ c = 1
            THEN [state |-> state, owner |-> 1,
                  turns |-> IF state = "live" THEN <<Earlier>> ELSE <<>>, updated |-> 1]
            ELSE NoConv]
  BY <1>1 DEF Init
<1>3. call = [k \in Slot |-> IF k = 1 THEN Request("list", None, 0, jar) ELSE Idle]
      /\ stream = <<>>
  BY <1>1 DEF Init
<1>4. TInv
  BY <1>1, InitTInv
<1>5. PICK r : r = Request("list", None, 0, jar)
  OBVIOUS
<1>6. r \in CallType /\ r.turns = <<>> /\ ~ r.answered /\ ~ r.ok
  <2>1. PICK j \in 0..MaxSessions : j = jar
    BY <1>4, ShapeFacts
  <2>2. r = Request("list", None, 0, j)
    BY <1>5, <2>1
  <2>. QED BY <2>2, ListRequest
<1>7. ASSUME NEW k \in Slot PROVE AnswerGood(call[k])
  <2>1. PICK x : x = call[k] /\ x \in {r, Idle}
    BY <1>3, <1>5
  <2>2. x \in CallType /\ ~ x.answered /\ ~ x.ok /\ x.turns = <<>>
    BY <1>6, <2>1, IdleFacts
  <2>. QED BY <2>1, <2>2, NothingYet
<1>8. ASSUME NEW c \in Conv PROVE conv[c].turns = <<>> \/ conv[c].turns = <<Earlier>>
  BY <1>2 DEF NoConv
<1>9. ASSUME NEW c \in Conv PROVE StoredGood(c)
  BY <1>8 DEF StoredGood, Once, Of
<1>. QED BY <1>7, <1>9 DEF SInv

(* ------------------------------ the views -------------------------------- *)

LEMMA DueIs ==
  ASSUME TInv, NEW c \in Conv
  PROVE  /\ DOMAIN conv[c].turns = 1..Len(conv[c].turns) /\ DOMAIN stream = 1..Len(stream)
         /\ DOMAIN view[c].shown = 1..Len(view[c].shown)
         /\ \A x : x \in Due(c) <=>
              \/ \E n \in 1..Len(conv[c].turns) : conv[c].turns[n] = x
              \/ /\ x \in 1..Len(stream) /\ stream[x].conv = c
                 /\ stream[x].at \in {"sent", "running"}
<1>1. PICK t \in Seq(TurnType) : t = conv[c].turns
  BY DEF TInv, Shapes, ServerType
<1>2. DOMAIN t = 1..Len(t) /\ DOMAIN stream = 1..Len(stream)
  BY DEF TInv, Shapes
<1>3. view[c].shown \in Seq(TurnType)
  BY DEF TInv, Shapes, ViewType
<1>. QED BY <1>1, <1>2, <1>3 DEF Due, Range

(* A view that stays as it is, of a conversation of which no more is due. *)
LEMMA ViewKept ==
  ASSUME TInv, StreamGrows, Len(stream') \in Nat, NEW c \in Conv, view'[c] = view[c], ViewGood(c),
         \A x : x \in Due(c)' => x \in Due(c)
  PROVE  ViewGood(c)'
<1>1. PICK v \in ViewType : v = view[c] /\ v = view'[c]
  BY DEF TInv, Shapes
<1>2. Once(v.shown) /\ \A n \in 1..Len(v.shown) : Of(v.shown[n], c)'
  BY <1>1, OfKept DEF ViewGood
<1>3. v.loaded => \A x : x \in Due(c) => x \in Range(v.shown)
  BY <1>1 DEF ViewGood
<1>. QED BY <1>1, <1>2, <1>3 DEF ViewGood

(* The views that may start to load again are not loaded. *)
LEMMA CalmLoading ==
  ASSUME TInv, Calm, NEW c \in Conv, Loading(c)'
  PROVE  Loading(c) \/ (UNCHANGED view /\ ~ view[c].loaded)
<1>1. PICK j \in Slot : call'[j].kind \in {"detail", "new"} /\ call'[j].conv = c
  BY DEF Loading
<1>2. CASE UNCHANGED call
  BY <1>1, <1>2 DEF Loading
<1>3. ASSUME NEW k \in Slot, NEW r \in CallType, Asks(k, r)
      PROVE  Loading(c) \/ (UNCHANGED view /\ ~ view[c].loaded)
  <2>1. CASE j = k
    <3>1. call'[j] = r
      BY <1>3, <2>1, ShapeFacts DEF Asks
    <3>. QED BY <1>1, <1>3, <3>1, ConstantFacts DEF Asks
  <2>2. CASE j # k
    BY <1>1, <1>3, <2>2, ShapeFacts DEF Asks, Loading
  <2>. QED BY <2>1, <2>2
<1>. QED BY <1>2, <1>3 DEF Calm

(* No question was sent to a view that loads, unless it raced with the load. *)
LEMMA LoadDue ==
  ASSUME TInv, SInv, VInv, NEW c \in Conv, c \notin unsure, Loading(c)
  PROVE  /\ \A i \in 1..Len(stream) : stream[i].conv # c
         /\ \A x : x \in Due(c) => x = Earlier /\ OfEarlierVisit(c)
<1>1. \A i \in 1..Len(stream) : stream[i].conv # c
  BY DEF VInv
<1>2. ASSUME NEW x, x \in Due(c) PROVE x = Earlier /\ OfEarlierVisit(c)
  <2>1. PICK n \in 1..Len(conv[c].turns) : conv[c].turns[n] = x
    BY <1>1, <1>2, DueIs
  <2>2. Of(x, c)
    BY <2>1 DEF SInv, StoredGood
  <2>. QED BY <1>1, <2>1, <2>2 DEF Of, OfEarlierVisit
<1>. QED BY <1>1, <1>2

LoadedStays == \A c \in Conv : view[c].loaded => view'[c].loaded

LEMMA StreamConv ==
  ASSUME TInv, NEW i \in 1..Len(stream)
  PROVE  stream[i].conv \in Conv /\ conv[stream[i].conv].state # "none"
<1>1. PICK q \in StreamType : q = stream[i]
  BY DEF TInv, Shapes
<1>2. q.conv \in Conv /\ q.conv # None
  BY <1>1, ConstantFacts DEF StreamType
<1>. QED BY <1>1, <1>2 DEF TInv, Exists

LEMMA PageStreams ==
  ASSUME TInv, VInv, Calm, Posts, LoadedStays,
         NEW i \in 1..Len(stream'), NEW c, c = stream'[i].conv, c \notin unsure'
  PROVE  view'[c].loaded /\ ~ Loading(c)'
<1>1. ASSUME i \in 1..Len(stream), stream'[i].conv = stream[i].conv, unsure \subseteq unsure'
      PROVE  view'[c].loaded /\ ~ Loading(c)'
  <2>1. c \in Conv /\ c \notin unsure /\ c = stream[i].conv
    BY <1>1, StreamConv
  <2>2. view[c].loaded /\ ~ Loading(c)
    BY <1>1, <2>1 DEF VInv
  <2>. QED BY <2>1, <2>2, CalmLoading DEF LoadedStays
<1>2. CASE UNCHANGED stream /\ unsure \subseteq unsure'
  BY <1>1, <1>2
<1>3. ASSUME NEW text \in 1..MaxTexts, NEW d \in Conv, NEW s \in 0..MaxSessions,
             Len(stream) < MaxSends, SendTo(text, d, s)
      PROVE  view'[c].loaded /\ ~ Loading(c)'
  <2>1. /\ Len(stream') = Len(stream) + 1 /\ stream'[Len(stream) + 1].conv = d
        /\ \A j \in 1..Len(stream) : stream'[j] = stream[j]
        /\ view'[d].loaded /\ unsure \subseteq unsure'
    BY <1>3, SendToFacts
  <2>2. i \in 1..Len(stream) \/ i = Len(stream) + 1
    BY <2>1, ShapeFacts
  <2>3. CASE i \in 1..Len(stream)
    <3>1. stream'[i].conv = stream[i].conv
      BY <2>1, <2>3
    <3>. QED BY <1>1, <2>1, <2>3, <3>1
  <2>4. CASE i = Len(stream) + 1
    <3>1. c = d
      BY <2>1, <2>4
    <3>2. ~ Loading(d) /\ view[d].loaded
      BY <1>3, <3>1 DEF SendTo
    <3>. QED BY <2>1, <3>1, <3>2, CalmLoading
  <2>. QED BY <2>2, <2>3, <2>4
<1>. QED BY <1>2, <1>3 DEF Posts

(* A page step that leaves the views, the questions and the server. *)
LEMMA SameViews ==
  ASSUME TInv, VInv, Calm, UNCHANGED <<conv, view, stream, unsure>>
  PROVE  VInv'
<1>1. StreamGrows /\ Len(stream') \in Nat
  BY ShapeFacts DEF StreamGrows
<1>2. ASSUME NEW c \in Conv \ unsure' PROVE ViewGood(c)'
  <2>1. c \in Conv /\ ViewGood(c) /\ view'[c] = view[c]
    BY <1>2 DEF VInv
  <2>2. \A x : x \in Due(c)' => x \in Due(c)
    BY DEF Due
  <2>. QED BY <1>1, <2>1, <2>2, ViewKept
<1>3. LoadedStays /\ Posts
  BY DEF LoadedStays, Posts
<1>4. ASSUME NEW i \in 1..Len(stream'), NEW c, c = stream'[i].conv, c \notin unsure'
      PROVE  view'[c].loaded /\ ~ Loading(c)'
  BY <1>3, <1>4, PageStreams
<1>5. \A i \in 1..Len(stream') :
        stream'[i].conv \notin unsure' =>
          view'[stream'[i].conv].loaded /\ \A c : c = stream'[i].conv => ~ Loading(c)'
  BY <1>4
<1>. QED BY <1>2, <1>5 DEF VInv, Loading

LEMMA SendVInv ==
  ASSUME TInv, VInv, Calm, UNCHANGED conv, NEW text \in 1..MaxTexts, NEW c \in Conv,
         NEW s \in 0..MaxSessions, s = jar', Len(stream) < MaxSends, SendTo(text, c, s),
         StreamGrows, Len(stream') \in Nat
  PROVE  VInv'
<1>1. PICK n : n = Len(stream) + 1
  OBVIOUS
<1>2. /\ stream' \in Seq(StreamType) /\ Len(stream') = Len(stream) + 1
      /\ stream'[n].conv = c /\ \A i \in 1..Len(stream) : stream'[i] = stream[i]
      /\ view' \in [Conv -> ViewType] /\ \A d \in Conv \ {c} : view'[d] = view[d]
      /\ view'[c].loaded /\ view'[c].shown = Append(view[c].shown, n)
      /\ unsure \subseteq unsure'
  BY <1>1, SendToFacts
<1>3. /\ n \in Nat /\ n \in 1..Len(stream') /\ n \notin 1..Len(stream) /\ n # Earlier
      /\ \A x : x \in 1..Len(stream') <=> x \in 1..Len(stream) \/ x = n
  BY <1>1, <1>2, ShapeFacts, ConstantFacts DEF Earlier
<1>4. \A d \in Conv : \A x : x \in Due(d)' <=> x \in Due(d) \/ (x = n /\ d = c /\ x \in Due(d)')
  <2>1. DOMAIN stream = 1..Len(stream) /\ DOMAIN stream' = 1..Len(stream')
    BY <1>2 DEF TInv, Shapes
  <2>. QED BY <1>2, <1>3, <2>1 DEF Due
<1>5. ASSUME NEW d \in Conv \ unsure' PROVE ViewGood(d)'
  <2>1. d \in Conv /\ ViewGood(d)
    BY <1>2, <1>5 DEF VInv
  <2>2. CASE d # c
    BY <1>2, <1>4, <2>1, <2>2, ViewKept
  <2>3. CASE d = c
    <3>1. PICK t \in Seq(TurnType) : t = view[c].shown
      BY DEF TInv, Shapes, ViewType
    <3>2. PICK u : u = Append(t, n)
      OBVIOUS
    <3>3. /\ Len(t) \in Nat /\ Len(u) = Len(t) + 1 /\ u[Len(t) + 1] = n
          /\ \A m \in 1..Len(t) : u[m] = t[m]
      BY <3>1, <3>2
    <3>4. /\ \A m \in 1..Len(u) : m \in 1..Len(t) \/ m = Len(t) + 1
          /\ \A m \in 1..Len(t) : m \in 1..Len(u)
          /\ Len(t) + 1 \in 1..Len(u)
      BY <3>3
    <3>5. Once(t) /\ \A m \in 1..Len(t) : Of(t[m], c)
      BY <2>1, <2>3, <3>1 DEF ViewGood
    <3>6. \A m \in 1..Len(t) : t[m] # n
      BY <1>3, <3>5 DEF Of
    <3>7. Once(u)
      <4>1. ASSUME NEW m \in 1..Len(u), NEW j \in 1..Len(u), u[m] = u[j] PROVE m = j
        <5>1. CASE m \in 1..Len(t) /\ j \in 1..Len(t)
          BY <3>3, <3>5, <4>1, <5>1 DEF Once
        <5>2. CASE m \in 1..Len(t) /\ j = Len(t) + 1
          BY <3>3, <3>6, <4>1, <5>2
        <5>3. CASE m = Len(t) + 1 /\ j \in 1..Len(t)
          BY <3>3, <3>6, <4>1, <5>3
        <5>4. CASE m = Len(t) + 1 /\ j = Len(t) + 1
          BY <5>4
        <5>. QED BY <3>4, <5>1, <5>2, <5>3, <5>4
      <4>. QED BY <4>1 DEF Once
    <3>8. \A m \in 1..Len(u) : Of(u[m], c)'
      <4>1. \A m \in 1..Len(t) : Of(t[m], c)'
        BY <3>5, OfKept
      <4>2. Of(n, c)'
        BY <1>2, <1>3 DEF Of
      <4>3. \A m \in 1..Len(t) : \A x : x = t[m] => x = u[m]
        BY <3>3
      <4>4. ASSUME NEW m \in 1..Len(u), NEW x, x = u[m] PROVE Of(x, c)'
        <5>1. CASE m \in 1..Len(t)
          <6>1. x = t[m]
            BY <3>3, <4>4, <5>1
          <6>2. Of(x, c)
            BY <3>5, <5>1, <6>1
          <6>. QED BY <6>2, OfKept
        <5>2. CASE m = Len(t) + 1
          <6>1. x = n
            BY <3>3, <4>4, <5>2
          <6>. QED BY <4>2, <6>1
        <5>. QED BY <3>4, <5>1, <5>2
      <4>. QED BY <4>4 DEF Of
    <3>9. \A x : x \in Due(c)' => x \in Range(u)
      <4>1. view[c].loaded
        BY <1>5, <2>3 DEF SendTo
      <4>2. \A x : x \in Due(c) => \E m \in 1..Len(t) : t[m] = x
        <5>1. DOMAIN t = 1..Len(t)
          BY <3>1
        <5>. QED BY <2>1, <2>3, <3>1, <4>1, <5>1 DEF ViewGood, Range
      <4>3. DOMAIN u = 1..Len(u)
        <5>1. u \in Seq(TurnType \cup {n})
          BY <3>1, <3>2
        <5>. QED BY <5>1
      <4>4. ASSUME NEW x, x \in Due(c)' PROVE x \in Range(u)
        <5>1. x \in Due(c) \/ x = n
          BY <1>4, <4>4
        <5>2. \E m \in 1..Len(u) : u[m] = x
          BY <3>3, <3>4, <4>2, <5>1
        <5>. QED BY <4>3, <5>2 DEF Range
      <4>. QED BY <4>4
    <3>10. view'[c].shown = u
      BY <1>2, <3>1, <3>2
    <3>. QED BY <2>3, <3>7, <3>8, <3>9, <3>10 DEF ViewGood
  <2>. QED BY <2>2, <2>3
<1>6. LoadedStays /\ Posts
  BY <1>2 DEF LoadedStays, Posts
<1>7. ASSUME NEW i \in 1..Len(stream'), NEW d, d = stream'[i].conv, d \notin unsure'
      PROVE  view'[d].loaded /\ ~ Loading(d)'
  BY <1>6, <1>7, PageStreams
<1>8. \A i \in 1..Len(stream') :
        stream'[i].conv \notin unsure' =>
          view'[stream'[i].conv].loaded /\ \A d : d = stream'[i].conv => ~ Loading(d)'
  BY <1>7
<1>. QED BY <1>5, <1>8 DEF VInv, Loading

(* The view of c is filled anew with v, by an answer it waited for. *)
LEMMA FilledVInv ==
  ASSUME TInv, SInv, VInv, Calm, UNCHANGED <<conv, stream>>, unsure \subseteq unsure',
         NEW c \in Conv, NEW v \in ViewType, view' = [view EXCEPT ![c] = v], v.loaded, Loading(c),
         c \notin unsure' =>
           /\ Once(v.shown) /\ \A n \in 1..Len(v.shown) : Of(v.shown[n], c)
           /\ OfEarlierVisit(c) => \E n \in 1..Len(v.shown) : v.shown[n] = Earlier
  PROVE  VInv'
<1>1. StreamGrows /\ Len(stream') \in Nat
  BY ShapeFacts DEF StreamGrows
<1>2. view'[c] = v /\ \A d \in Conv \ {c} : view'[d] = view[d]
  BY DEF TInv, Shapes
<1>3. \A d \in Conv : Due(d)' = Due(d)
  BY DEF Due
<1>4. ASSUME NEW d \in Conv \ unsure' PROVE ViewGood(d)'
  <2>1. d \in Conv /\ d \notin unsure /\ ViewGood(d)
    BY <1>4 DEF VInv
  <2>2. CASE d # c
    BY <1>1, <1>2, <1>3, <2>1, <2>2, ViewKept
  <2>3. CASE d = c
    <3>1. \A n \in 1..Len(v.shown) : Of(v.shown[n], c)'
      BY <1>1, <2>1, <2>3, OfKept
    <3>2. \A x : x \in Due(c) => x \in Range(v.shown)
      <4>1. DOMAIN v.shown = 1..Len(v.shown)
        <5>1. v.shown \in Seq(TurnType)
          BY DEF ViewType
        <5>. QED BY <5>1
      <4>. QED BY <2>1, <2>3, <4>1, LoadDue DEF Range
    <3>. QED BY <1>2, <1>3, <2>1, <2>3, <3>1, <3>2 DEF ViewGood
  <2>. QED BY <2>2, <2>3
<1>5. LoadedStays /\ Posts
  BY <1>2 DEF LoadedStays, Posts
<1>6. ASSUME NEW i \in 1..Len(stream'), NEW d, d = stream'[i].conv, d \notin unsure'
      PROVE  view'[d].loaded /\ ~ Loading(d)'
  BY <1>5, <1>6, PageStreams
<1>7. \A i \in 1..Len(stream') :
        stream'[i].conv \notin unsure' =>
          view'[stream'[i].conv].loaded /\ \A d : d = stream'[i].conv => ~ Loading(d)'
  BY <1>6
<1>. QED BY <1>4, <1>7 DEF VInv, Loading

LEMMA ApplyNewVInv ==
  ASSUME TInv, SInv, VInv, NEW k \in Slot, ApplyNew(k)
  PROVE  VInv'
<1>1. Calm /\ UNCHANGED <<conv, stream, unsure>>
  BY ApplyNewCalm
<1>2. PICK a \in CallType : a = call[k] /\ CallGood(a) /\ AnswerGood(a)
  BY ShapeFacts DEF SInv
<1>3. a.kind = "new" /\ a.answered
  BY <1>2 DEF ApplyNew, Answered
<1>4. PICK c \in Conv : c = a.conv
  BY <1>2, <1>3 DEF CallGood, CallType
<1>5. PICK v : v = [loaded |-> TRUE, shown |-> <<>>]
  OBVIOUS
<1>6. v \in ViewType /\ v.loaded /\ v.shown = <<>> /\ view' = [view EXCEPT ![c] = v]
  BY <1>2, <1>4, <1>5 DEF ApplyNew, ViewType
<1>7. Loading(c)
  BY <1>2, <1>3, <1>4 DEF Loading
<1>8. ~ OfEarlierVisit(c)
  BY <1>2, <1>3, <1>4 DEF AnswerGood
<1>9. Once(v.shown) /\ \A n \in 1..Len(v.shown) : Of(v.shown[n], c)
  BY <1>6 DEF Once
<1>. QED BY <1>1, <1>6, <1>7, <1>8, <1>9, FilledVInv

LEMMA ApplyDetailVInv ==
  ASSUME TInv, SInv, VInv, NEW k \in Slot, ApplyDetail(k)
  PROVE  VInv'
<1>1. Calm /\ UNCHANGED <<conv, stream>> /\ unsure \subseteq unsure'
  BY ApplyDetailCalm
<1>2. PICK a \in CallType : a = call[k] /\ CallGood(a) /\ AnswerGood(a)
  BY ShapeFacts DEF SInv
<1>3. a.kind = "detail" /\ a.answered
  BY <1>2 DEF ApplyDetail, Answered
<1>4. PICK c \in Conv : c = a.conv
  BY <1>2, <1>3 DEF CallGood, CallType
<1>5. PICK v \in ViewType :
        /\ v.loaded /\ view' = [view EXCEPT ![c] = v]
        /\ v.shown = IF a.ok THEN a.turns ELSE view[c].shown
  BY <1>2, <1>4, DetailView
<1>6. Loading(c)
  BY <1>2, <1>3, <1>4 DEF Loading
<1>7. CASE a.ok
  <2>1. OfEarlierVisit(c) => \E n \in 1..Len(v.shown) : v.shown[n] = Earlier
    BY <1>2, <1>3, <1>4, <1>5, <1>7 DEF AnswerGood
  <2>2. Once(v.shown) /\ \A n \in 1..Len(v.shown) : Of(v.shown[n], c)
    BY <1>2, <1>4, <1>5, <1>7 DEF AnswerGood
  <2>. QED BY <1>1, <1>5, <1>6, <2>1, <2>2, FilledVInv
<1>8. CASE ~ a.ok
  <2>1. c \notin unsure' => ~ OfEarlierVisit(c)
    <3>1. c \notin unsure' => conv[c].state # "live"
      BY <1>2, <1>4, <1>8 DEF ApplyDetail
    <3>. QED BY <3>1 DEF TInv, OfEarlierVisit
  <2>2. c \notin unsure' => Once(v.shown) /\ \A n \in 1..Len(v.shown) : Of(v.shown[n], c)
    BY <1>1, <1>5, <1>8 DEF VInv, ViewGood
  <2>. QED BY <1>1, <1>5, <1>6, <2>1, <2>2, FilledVInv
<1>. QED BY <1>7, <1>8

LEMMA PageVInv ==
  ASSUME TInv, SInv, VInv, PageStep, [Next]_vars
  PROVE  VInv'
<1>1. Calm /\ Posts /\ UNCHANGED conv
  BY PageCalm
<1>2. StreamGrows /\ Len(stream') \in Nat
  BY StreamStep, TInvStep, ShapeFacts DEF TInv, Shapes
<1>3. ASSUME NEW text \in 1..MaxTexts, NEW c \in Conv, NEW s \in 0..MaxSessions, s = jar',
             Len(stream) < MaxSends, SendTo(text, c, s)
      PROVE  VInv'
  BY <1>1, <1>2, <1>3, SendVInv
<1>4. CASE UserStep
  BY <1>1, <1>4, UserCalm, SameViews
<1>5. CASE Enter
  <2>1. UNCHANGED <<view, stream, unsure>> \/ stream' # stream
    <3>1. CASE current # None
      <4>1. stream' = Append(stream, [text |-> input, conv |-> current, session |-> jar,
                                      at |-> "sent", cookie |-> None])
        BY <1>5, <3>1 DEF Enter, SendTo
      <4>2. Len(stream') = Len(stream) + 1
        <5>1. PICK q : q = [text |-> input, conv |-> current, session |-> jar, at |-> "sent",
                      cookie |-> None]
          OBVIOUS
        <5>2. stream' = Append(stream, q) /\ stream \in Seq(StreamType)
          BY <4>1, <5>1 DEF TInv, Shapes
        <5>. QED BY <5>2
      <4>3. stream' # stream
        BY <4>2, ShapeFacts
      <4>. QED BY <4>3
    <3>2. CASE current = None
      BY <1>5, <3>2 DEF Enter
    <3>. QED BY <3>1, <3>2
  <2>. QED BY <1>1, <1>3, <2>1, SameViews DEF Posts
<1>6. ASSUME NEW k \in Slot, Fail(k) PROVE VInv'
  <2>1. UNCHANGED <<view, stream, unsure>>
    BY <1>6 DEF Fail, page
  <2>. QED BY <1>1, <2>1, SameViews
<1>7. ASSUME NEW k \in Slot, ApplyList(k) PROVE VInv'
  <2>1. CASE call[k].text = 0
    <3>1. UNCHANGED <<view, stream, unsure>>
      BY <1>7, <2>1 DEF ApplyList
    <3>. QED BY <1>1, <3>1, SameViews
  <2>2. CASE call[k].text # 0
    <3>1. stream' # stream
      <4>1. PICK q : stream' = Append(stream, q)
        BY <1>7, <2>2 DEF ApplyList, SendTo
      <4>2. stream \in Seq(StreamType)
        BY DEF TInv, Shapes
      <4>3. Len(stream') = Len(stream) + 1
        BY <4>1, <4>2
      <4>. QED BY <4>3, ShapeFacts
    <3>. QED BY <1>1, <1>3, <3>1 DEF Posts
  <2>. QED BY <2>1, <2>2
<1>8. ASSUME NEW k \in Slot, ApplyProbe(k) \/ ApplyDelete(k) PROVE VInv'
  BY <1>1, <1>8, ApplyProbeCalm, ApplyDeleteCalm, SameViews
<1>9. ASSUME NEW k \in Slot, Apply(k) PROVE VInv'
  BY <1>7, <1>8, <1>9, ApplyNewVInv, ApplyDetailVInv DEF Apply
<1>. QED BY <1>4, <1>5, <1>6, <1>9 DEF PageStep

LEMMA ServeVInv ==
  ASSUME TInv, SInv, VInv, NEW k \in Slot, Serve(k), [Next]_vars
  PROVE  VInv'
<1>1. PICK r : /\ Answers(k, r)
               /\ AnswersList(k, r) \/ AnswersNew(k, r) \/ AnswersDetail(k, r) \/ AnswersDelete(k, r)
  BY ServeFacts
<1>2. UNCHANGED <<view, stream, unsure>>
  BY DEF Serve, ServeList, ServeNew, ServeDetail, ServeDelete, page
<1>3. StreamGrows /\ Len(stream') \in Nat
  BY <1>2, ShapeFacts DEF StreamGrows
<1>4. \A c \in Conv : conv'[c].turns \in {<<>>, conv[c].turns}
  BY <1>1, ServedTurns
<1>5. ASSUME NEW c \in Conv, NEW x, x \in Due(c)' PROVE x \in Due(c)
  <2>1. CASE conv'[c].turns = <<>>
    BY <1>2, <1>5, <2>1 DEF Due, Range
  <2>2. CASE conv'[c].turns = conv[c].turns
    BY <1>2, <1>5, <2>2 DEF Due
  <2>. QED BY <1>4, <2>1, <2>2
<1>6. ASSUME NEW c \in Conv \ unsure' PROVE ViewGood(c)'
  <2>1. c \in Conv /\ ViewGood(c) /\ view'[c] = view[c]
    BY <1>2, <1>6 DEF VInv
  <2>. QED BY <1>3, <1>5, <2>1, ViewKept
<1>7. ASSUME NEW i \in 1..Len(stream'), NEW c, c = stream'[i].conv, c \notin unsure'
      PROVE  view'[c].loaded /\ ~ Loading(c)'
  <2>1. /\ i \in 1..Len(stream) /\ c = stream[i].conv /\ c \in Conv /\ conv[c].state # "none"
        /\ view'[c].loaded /\ ~ Loading(c)
    BY <1>2, <1>7, StreamConv DEF VInv
  <2>2. SUFFICES ASSUME Loading(c)' PROVE FALSE
    BY <2>1
  <2>3. PICK j \in Slot : call'[j].kind \in {"detail", "new"} /\ call'[j].conv = c
    BY <2>2 DEF Loading
  <2>4. CASE j # k
    BY <1>1, <2>1, <2>3, <2>4, ShapeFacts DEF Answers, Loading
  <2>5. CASE j = k
    <3>1. call'[k] = r /\ r.kind = call[k].kind
      BY <1>1, ShapeFacts DEF Answers
    <3>2. r.conv = call[k].conv \/ conv[r.conv].state = "none"
      BY <1>1 DEF AnswersList, AnswersNew, AnswersDetail, AnswersDelete
    <3>. QED BY <2>1, <2>3, <2>5, <3>1, <3>2 DEF Loading
  <2>. QED BY <2>4, <2>5
<1>8. \A i \in 1..Len(stream') :
        stream'[i].conv \notin unsure' =>
          view'[stream'[i].conv].loaded /\ \A d : d = stream'[i].conv => ~ Loading(d)'
  BY <1>7
<1>. QED BY <1>6, <1>8 DEF VInv, Loading

LEMMA TurnVInv ==
  ASSUME TInv, SInv, VInv, NEW i \in DOMAIN stream, TurnStep(i), [Next]_vars
  PROVE  VInv'
<1>1. UNCHANGED <<view, call, unsure>>
  BY DEF TurnStep, StartTurn, Headers, StoreTurn, LoseTurn
<1>2. StreamGrows /\ TInv' /\ Len(stream') \in Nat
  BY StreamStep, TInvStep, ShapeFacts DEF TInv, Shapes
<1>3. PICK p, h : /\ Moves(i, p, h)
                  /\ p \in {"sent", "running"} => stream[i].at \in {"sent", "running"}
  BY TurnMovesOn
<1>4. /\ Len(stream') = Len(stream) /\ i \in 1..Len(stream)
      /\ \A j \in 1..Len(stream) : /\ stream'[j].conv = stream[j].conv
                                   /\ stream'[j].at = IF j = i THEN p ELSE stream[j].at
  BY <1>3 DEF Moves
<1>5. ASSUME NEW c \in Conv, NEW n \in 1..Len(conv'[c].turns)
      PROVE  \/ conv'[c].turns[n] = i /\ c = stream[i].conv /\ stream[i].at = "running"
             \/ \E m \in 1..Len(conv[c].turns) : conv[c].turns[m] = conv'[c].turns[n]
  <2>1. CASE conv'[c].turns = conv[c].turns
    BY <2>1, <1>5
  <2>2. CASE StoreTurn(i) /\ c = stream[i].conv /\ conv[c].state = "live"
    <3>1. conv'[c].turns = Append(conv[c].turns, i)
      BY <2>2, StoreTurnConv
    <3>2. PICK t \in Seq(TurnType) : t = conv[c].turns
      BY DEF TInv, Shapes, ServerType
    <3>3. PICK u : u = Append(t, i)
      OBVIOUS
    <3>4. /\ Len(t) \in Nat /\ Len(u) = Len(t) + 1 /\ u[Len(t) + 1] = i
          /\ \A m \in 1..Len(t) : u[m] = t[m]
      BY <3>2, <3>3
    <3>5. conv'[c].turns = u
      BY <3>1, <3>2, <3>3
    <3>6. n \in 1..Len(t) \/ n = Len(t) + 1
      BY <1>5, <3>4, <3>5
    <3>. QED BY <2>2, <3>2, <3>4, <3>5, <3>6 DEF StoreTurn
  <2>3. StoreTurn(i) => \/ conv'[c].turns = conv[c].turns
                        \/ c = stream[i].conv /\ conv[c].state = "live"
    <3>1. SUFFICES ASSUME StoreTurn(i)
                   PROVE  \/ conv'[c].turns = conv[c].turns
                          \/ c = stream[i].conv /\ conv[c].state = "live"
      OBVIOUS
    <3>. QED BY <3>1, StoreTurnConv
  <2>4. StoreTurn(i) \/ UNCHANGED conv
    BY DEF TurnStep, StartTurn, Headers, LoseTurn, server
  <2>. QED BY <2>1, <2>2, <2>3, <2>4
<1>6. ASSUME NEW c \in Conv, NEW x, x \in Due(c)' PROVE x \in Due(c)
  <2>1. \/ \E n \in 1..Len(conv'[c].turns) : conv'[c].turns[n] = x
        \/ x \in 1..Len(stream') /\ stream'[x].conv = c /\ stream'[x].at \in {"sent", "running"}
    <3>1. DOMAIN conv'[c].turns = 1..Len(conv'[c].turns) /\ DOMAIN stream' = 1..Len(stream')
      <4>1. PICK t \in Seq(TurnType) : t = conv'[c].turns
        BY <1>2 DEF TInv, Shapes, ServerType
      <4>2. stream' \in Seq(StreamType)
        BY <1>2 DEF TInv, Shapes
      <4>. QED BY <4>1, <4>2
    <3>. QED BY <1>6, <3>1 DEF Due, Range
  <2>2. CASE \E n \in 1..Len(conv'[c].turns) : conv'[c].turns[n] = x
    BY <1>3, <1>4, <1>5, <2>2, DueIs
  <2>3. CASE x \in 1..Len(stream') /\ stream'[x].conv = c /\ stream'[x].at \in {"sent", "running"}
    BY <1>3, <1>4, <2>3, DueIs
  <2>. QED BY <2>1, <2>2, <2>3
<1>7. ASSUME NEW c \in Conv \ unsure' PROVE ViewGood(c)'
  <2>1. c \in Conv /\ ViewGood(c) /\ view'[c] = view[c]
    BY <1>1, <1>7 DEF VInv
  <2>. QED BY <1>2, <1>6, <2>1, ViewKept
<1>8. ASSUME NEW j \in 1..Len(stream'), NEW c, c = stream'[j].conv, c \notin unsure'
      PROVE  view'[c].loaded /\ ~ Loading(c)'
  BY <1>1, <1>4, <1>8 DEF VInv, Loading
<1>9. \A j \in 1..Len(stream') :
        stream'[j].conv \notin unsure' =>
          view'[stream'[j].conv].loaded /\ \A d : d = stream'[j].conv => ~ Loading(d)'
  BY <1>8
<1>. QED BY <1>7, <1>9 DEF VInv, Loading

LEMMA VInvStep ==
  ASSUME TInv, SInv, VInv, [Next]_vars
  PROVE  VInv'
<1>1. CASE PageStep
  BY <1>1, PageVInv
<1>2. CASE \E k \in Slot : Serve(k)
  BY <1>2, ServeVInv
<1>3. CASE \E i \in DOMAIN stream : TurnStep(i)
  BY <1>3, TurnVInv
<1>4. CASE UNCHANGED vars \/ Expire
  <2>1. UNCHANGED <<conv, view, call, stream, unsure>>
    BY <1>4 DEF vars, Expire, server, page
  <2>. QED BY <2>1, SameViews DEF Calm
<1>. QED BY <1>1, <1>2, <1>3, <1>4 DEF Next, PageStep, UserStep, TurnStep

LEMMA InitVInv == Init => VInv
<1>1. SUFFICES ASSUME Init PROVE VInv
  OBVIOUS
<1>2. stream = <<>> /\ view = [c \in Conv |-> NoView]
  BY <1>1 DEF Init
<1>3. ASSUME NEW c \in Conv PROVE ViewGood(c)
  BY <1>2 DEF ViewGood, NoView, Once
<1>. QED BY <1>2, <1>3 DEF VInv

LEMMA GoodViewsTell ==
  ASSUME TInv, VInv
  PROVE  ViewsTell
<1>1. SUFFICES ASSUME NEW c \in Conv \ unsure PROVE ViewTells(c)
  BY DEF ViewsTell
<1>2. c \in Conv /\ ViewGood(c)
  BY <1>1 DEF VInv
<1>3. PICK t \in Seq(TurnType) : t = view[c].shown
  BY <1>2 DEF TInv, Shapes, ViewType
<1>4. DOMAIN t = 1..Len(t)
  BY <1>3
<1>5. \A i \in Range(t) : i # Earlier => stream[i].conv = c
  BY <1>2, <1>3, <1>4 DEF ViewGood, Of, Range
<1>. QED BY <1>2, <1>3, <1>4, <1>5 DEF ViewTells, ViewGood, Once

(***************************************************************************)
(* A view that counts as loaded shows every stored turn and every question  *)
(* under way of its conversation, each once, and none of another, whatever   *)
(* loadConversation, newConversation, send and a deletion do to it between   *)
(* a request and its answer; a view a question was sent to while its load    *)
(* was under way, or had failed, and one whose load was refused because the   *)
(* session that owned it has expired, are excepted.                          *)
(***************************************************************************)
THEOREM ViewsCorrect == Spec => []ViewsTell
<1>1. Init => TInv /\ SInv /\ VInv
  BY InitTInv, InitSInv, InitVInv
<1>2. TInv /\ SInv /\ VInv /\ [Next]_vars => (TInv /\ SInv /\ VInv)'
  BY TInvStep, SInvStep, VInvStep
<1>3. TInv /\ SInv /\ VInv => ViewsTell
  BY GoodViewsTell
<1>. QED BY <1>1, <1>2, <1>3, PTL DEF Spec
=============================================================================
