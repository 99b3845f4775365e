--------------------------- MODULE Hosting_proofs ---------------------------
(***************************************************************************)
(* Proofs about Hosting for any number of clients, actors and unread       *)
(* messages: once a client has read what it was sent, it hosts only what   *)
(* it is the hoster of, and takes for free only what nobody else has.      *)
(***************************************************************************)
EXTENDS Hosting, FiniteSetTheorems, SequenceTheorems, TLAPS

(* The last word of a queue.                                                *)

\* No message of q is in S; the last one that is in S is in W.
NoneOf(q, S) == \A i \in DOMAIN q : q[i] \notin S
LastIs(q, W, S) ==
  \E i \in DOMAIN q : q[i] \in W /\ \A j \in DOMAIN q : j > i => q[j] \notin S

LEMMA ConcatDomain ==
  ASSUME NEW T, NEW q \in Seq(T), NEW s \in Seq(T)
  PROVE  /\ q \o s \in Seq(T)
         /\ \A i \in DOMAIN q : i \in DOMAIN (q \o s) /\ (q \o s)[i] = q[i]
         /\ \A i \in DOMAIN s : i + Len(q) \in DOMAIN (q \o s) /\ (q \o s)[i + Len(q)] = s[i]
         /\ \A k \in DOMAIN (q \o s) : k \in DOMAIN q \/ \E i \in DOMAIN s : k = i + Len(q)
         /\ \A i \in DOMAIN q, j \in DOMAIN s : i < j + Len(q)
         /\ DOMAIN q \subseteq Nat /\ DOMAIN s \subseteq Nat /\ DOMAIN (q \o s) \subseteq Nat
         /\ Len(q) \in Nat
<1>1. /\ DOMAIN q = 1..Len(q) /\ DOMAIN s = 1..Len(s) /\ Len(q) \in Nat /\ Len(s) \in Nat
      /\ q \o s \in Seq(T) /\ Len(q \o s) = Len(q) + Len(s) /\ DOMAIN (q \o s) = 1..(Len(q) + Len(s))
  OBVIOUS
<1>2. \A k \in DOMAIN (q \o s) : k \in DOMAIN q \/ \E i \in DOMAIN s : k = i + Len(q)
  <2> SUFFICES ASSUME NEW k \in DOMAIN (q \o s), k \notin DOMAIN q
               PROVE  \E i \in DOMAIN s : k = i + Len(q)
    OBVIOUS
  <2>1. k - Len(q) \in DOMAIN s /\ k = (k - Len(q)) + Len(q)
    BY <1>1
  <2> QED BY <2>1
<1>3. \A i \in DOMAIN s : i + Len(q) \in DOMAIN (q \o s) /\ (q \o s)[i + Len(q)] = s[i]
  BY <1>1
<1>4. \A i \in DOMAIN q : i \in DOMAIN (q \o s) /\ (q \o s)[i] = q[i]
  BY <1>1
<1> QED BY <1>1, <1>2, <1>3, <1>4

LEMMA LaterWordsCount ==
  ASSUME NEW T, NEW q \in Seq(T), NEW s \in Seq(T), NEW S, NEW W \in SUBSET S
  PROVE  /\ NoneOf(q \o s, S) <=> NoneOf(q, S) /\ NoneOf(s, S)
         /\ LastIs(q \o s, W, S) <=> LastIs(s, W, S) \/ (NoneOf(s, S) /\ LastIs(q, W, S))
<1> DEFINE r == q \o s
<1>0. /\ \A i \in DOMAIN q : i \in DOMAIN r /\ r[i] = q[i]
      /\ \A i \in DOMAIN s : i + Len(q) \in DOMAIN r /\ r[i + Len(q)] = s[i]
      /\ \A k \in DOMAIN r : k \in DOMAIN q \/ \E i \in DOMAIN s : k = i + Len(q)
      /\ \A i \in DOMAIN q, j \in DOMAIN s : i < j + Len(q)
      /\ DOMAIN q \subseteq Nat /\ DOMAIN s \subseteq Nat /\ Len(q) \in Nat
  BY ConcatDomain
<1> HIDE DEF r
<1>1. NoneOf(r, S) <=> NoneOf(q, S) /\ NoneOf(s, S)
  BY <1>0 DEF NoneOf
<1>2. ASSUME LastIs(s, W, S) PROVE LastIs(r, W, S)
  <2>1. PICK i \in DOMAIN s : s[i] \in W /\ \A j \in DOMAIN s : j > i => s[j] \notin S
    BY <1>2 DEF LastIs
  <2>2. ASSUME NEW k \in DOMAIN r, k > i + Len(q) PROVE r[k] \notin S
    <3>1. PICK j \in DOMAIN s : k = j + Len(q)
      BY <1>0, <2>2
    <3> QED BY <1>0, <2>1, <2>2, <3>1
  <2> QED BY <1>0, <2>1, <2>2 DEF LastIs
<1>3. ASSUME NoneOf(s, S), LastIs(q, W, S) PROVE LastIs(r, W, S)
  <2>1. PICK i \in DOMAIN q : q[i] \in W /\ \A j \in DOMAIN q : j > i => q[j] \notin S
    BY <1>3 DEF LastIs
  <2>2. \A k \in DOMAIN r : k > i => r[k] \notin S
    BY <1>0, <1>3, <2>1 DEF NoneOf
  <2> QED BY <1>0, <2>1, <2>2 DEF LastIs
<1>4. ASSUME LastIs(r, W, S) PROVE LastIs(s, W, S) \/ (NoneOf(s, S) /\ LastIs(q, W, S))
  <2>1. PICK k \in DOMAIN r : r[k] \in W /\ \A j \in DOMAIN r : j > k => r[j] \notin S
    BY <1>4 DEF LastIs
  <2>2. CASE k \in DOMAIN q
    <3>1. NoneOf(s, S)
      BY <1>0, <2>1, <2>2 DEF NoneOf
    <3>2. \A j \in DOMAIN q : j > k => q[j] \notin S
      BY <1>0, <2>1
    <3> QED BY <1>0, <2>1, <2>2, <3>1, <3>2 DEF LastIs
  <2>3. CASE \E i \in DOMAIN s : k = i + Len(q)
    <3>1. PICK i \in DOMAIN s : k = i + Len(q)
      BY <2>3
    <3>2. \A j \in DOMAIN s : j > i => s[j] \notin S
      BY <1>0, <2>1, <3>1
    <3> QED BY <1>0, <2>1, <3>1, <3>2 DEF LastIs
  <2> QED BY <1>0, <2>2, <2>3
<1> QED BY <1>1, <1>2, <1>3, <1>4 DEF r

LEMMA OneWord ==
  ASSUME NEW m, NEW S, NEW W
  PROVE  /\ NoneOf(<<m>>, S) <=> m \notin S
         /\ LastIs(<<m>>, W, S) <=> m \in W
         /\ NoneOf(<< >>, S) /\ ~LastIs(<< >>, W, S)
<1>1. DOMAIN <<m>> = {1} /\ <<m>>[1] = m /\ DOMAIN << >> = {}
  OBVIOUS
<1> QED BY <1>1 DEF NoneOf, LastIs
(* Sequences that hold every element of a set once.                        *)

LEMMA OrderFacts ==
  ASSUME NEW S, IsFiniteSet(S), NEW s \in SetToSeqs(S)
  PROVE  s \in Seq(S) /\ IsInjective(s) /\ Range(s) = S
<1> DEFINE k == Cardinality(S)
<1>1. k \in Nat
  BY FS_CardinalityType, Zenon
<1>2. s \in [1..k -> S] /\ \A i, j \in 1..k : i # j => s[i] # s[j]
  BY DEF SetToSeqs
<1>3. s \in Injection(1..k, S)
  BY <1>2, Zenon DEF Injection, IsInjective
<1>4. Cardinality(1..k) = k
  <2>1. Cardinality(1..k) = IF 1 > k THEN 0 ELSE k - 1 + 1
    BY <1>1, FS_Interval
  <2> QED BY <1>1, <2>1
<1>5. s \in Surjection(1..k, S)
  BY <1>3, <1>4, FS_Injection
<1>6. Range(s) = S
  BY <1>2, <1>5, Zenon DEF Range, Surjection
<1>7. s \in Seq(S)
  BY <1>1, <1>2
<1> QED BY <1>3, <1>6, <1>7, Zenon DEF Injection

LEMMA OrdersExist ==
  ASSUME NEW S, IsFiniteSet(S)
  PROVE  SetToSeqs(S) # {}
<1>1. PICK s : s \in Bijection(1..Cardinality(S), S)
  BY FS_CardinalityType, Zenon DEF ExistsBijection
<1>2. s \in [1..Cardinality(S) -> S] /\ IsInjective(s)
  BY <1>1, Zenon DEF Bijection, Injection
<1>3. s \in SetToSeqs(S)
  BY <1>2, Zenon DEF SetToSeqs, IsInjective
<1> QED BY <1>3

LEMMA RangeIsFinite ==
  ASSUME NEW S, NEW s \in Seq(S)
  PROVE  IsFiniteSet(Range(s)) /\ Range(s) \subseteq S
<1>1. Len(s) \in Nat /\ DOMAIN s = 1..Len(s) /\ \A i \in 1..Len(s) : s[i] \in S
  OBVIOUS
<1>2. IsFiniteSet(1..Len(s))
  BY <1>1, FS_Interval
<1>3. s \in Surjection(1..Len(s), Range(s))
  <2>1. s \in [1..Len(s) -> Range(s)]
    BY <1>1 DEF Range
  <2> QED BY <1>1, <2>1, Zenon DEF Range, Surjection
<1>4. IsFiniteSet(Range(s))
  BY <1>2, <1>3, FS_Surjection, Zenon
<1> QED BY <1>1, <1>4 DEF Range

LEMMA RemoveFirstFacts ==
  ASSUME NEW S, NEW s \in Seq(S), IsInjective(s), NEW e
  PROVE  /\ RemoveFirst(s, e) \in Seq(S)
         /\ IsInjective(RemoveFirst(s, e))
         /\ Range(RemoveFirst(s, e)) = Range(s) \ {e}
<1>1. Len(s) \in Nat /\ DOMAIN s = 1..Len(s) /\ \A i \in 1..Len(s) : s[i] \in S
  OBVIOUS
<1>2. CASE ~\E i \in 1..Len(s) : s[i] = e
  <2>1. RemoveFirst(s, e) = s
    BY <1>2, Zenon DEF RemoveFirst
  <2> QED BY <1>1, <1>2, <2>1, Zenon DEF Range
<1>3. CASE \E i \in 1..Len(s) : s[i] = e
  <2>1. PICK i \in 1..Len(s) : s[i] = e
    BY <1>3
  <2>2. {x \in 1..Len(s) : s[x] = e} = {i}
    BY <1>1, <2>1 DEF IsInjective
  <2>3. SelectInSeq(s, LAMBDA v : v = e) = i
    <3>1. SelectInSeq(s, LAMBDA v : v = e) = Min({i})
      BY <2>2, Zenon DEF SelectInSeq
    <3>2. Min({i}) = i
      BY <2>1, <1>1 DEF Min
    <3> QED BY <3>1, <3>2
  <2>4. RemoveFirst(s, e) = SubSeq(s, 1, i - 1) \o SubSeq(s, i + 1, Len(s))
    BY <1>3, <2>3, Zenon DEF RemoveFirst, RemoveAt
  <2> DEFINE a == SubSeq(s, 1, i - 1)
             b == SubSeq(s, i + 1, Len(s))
             r == a \o b
  <2>5. i \in Nat /\ i >= 1 /\ i <= Len(s) /\ Len(s) \in Nat
    BY <1>1, <2>1
  <2>6. /\ r \in Seq(S) /\ DOMAIN r = 1..(Len(s) - 1)
        /\ \A x \in 1..(Len(s) - 1) : r[x] = IF x < i THEN s[x] ELSE s[x + 1]
    <3>1. a \in Seq(S) /\ Len(a) = i - 1 /\ \A x \in 1..(i - 1) : a[x] = s[x]
      BY <1>1, <2>5
    <3>2. b \in Seq(S) /\ Len(b) = Len(s) - i /\ \A x \in 1..(Len(s) - i) : b[x] = s[x + i]
      <4>1. \A y \in (i + 1)..Len(s) : s[y] \in S
        BY <1>1, <2>5
      <4>2. /\ b \in Seq(S) /\ Len(b) = IF i + 1 <= Len(s) THEN Len(s) - (i + 1) + 1 ELSE 0
            /\ \A x \in 1..(Len(s) - (i + 1) + 1) : b[x] = s[i + 1 + x - 1]
        BY <2>5, <4>1, SubSeqProperties
      <4> HIDE DEF b
      <4>3. Len(s) - (i + 1) + 1 = Len(s) - i /\ Len(b) = Len(s) - i
        BY <2>5, <4>2
      <4>4. \A x \in 1..(Len(s) - i) : i + 1 + x - 1 = x + i
        BY <2>5
      <4> QED BY <4>2, <4>3, <4>4
    <3> HIDE DEF a, b
    <3>3. /\ r \in Seq(S) /\ Len(r) = Len(a) + Len(b)
          /\ \A x \in 1..(Len(a) + Len(b)) : r[x] = IF x <= Len(a) THEN a[x] ELSE b[x - Len(a)]
      BY <3>1, <3>2, ConcatProperties
    <3> HIDE DEF r
    <3>4. Len(r) = Len(s) - 1 /\ DOMAIN r = 1..Len(r)
      BY <2>5, <3>1, <3>2, <3>3
    <3>5. ASSUME NEW x \in 1..(Len(s) - 1) PROVE r[x] = IF x < i THEN s[x] ELSE s[x + 1]
      <4>1. CASE x < i
        BY <2>5, <3>1, <3>2, <3>3, <4>1
      <4>2. CASE ~(x < i)
        <5>1. x \in 1..(Len(a) + Len(b)) /\ ~(x <= Len(a)) /\ Len(a) = i - 1
          BY <2>5, <3>1, <3>2, <4>2
        <5>2. r[x] = b[x - (i - 1)]
          BY <3>3, <5>1
        <5>3. x - (i - 1) \in 1..(Len(s) - i) /\ x - (i - 1) + i = x + 1
          BY <2>5, <4>2
        <5> QED BY <3>2, <4>2, <5>2, <5>3
      <4> QED BY <4>1, <4>2
    <3> QED BY <3>3, <3>4, <3>5
  <2> HIDE DEF r
  <2>7. IsInjective(r)
    <3>1. ASSUME NEW x \in 1..(Len(s) - 1), NEW y \in 1..(Len(s) - 1), r[x] = r[y] PROVE x = y
      <4>1. \A p, q \in 1..Len(s) : s[p] = s[q] => p = q
        BY <1>1 DEF IsInjective
      <4>2. /\ x \in 1..Len(s) /\ x + 1 \in 1..Len(s)
            /\ y \in 1..Len(s) /\ y + 1 \in 1..Len(s)
        BY <2>5
      <4>3. (IF x < i THEN s[x] ELSE s[x + 1]) = IF y < i THEN s[y] ELSE s[y + 1]
        BY <2>6, <3>1
      <4>4. (IF x < i THEN x ELSE x + 1) = IF y < i THEN y ELSE y + 1
        BY <4>1, <4>2, <4>3
      <4> QED BY <2>5, <4>4
    <3> QED BY <2>6, <3>1 DEF IsInjective
  <2>8. Range(r) \subseteq Range(s) \ {e}
    <3> SUFFICES ASSUME NEW x \in 1..(Len(s) - 1) PROVE r[x] \in Range(s) \ {e}
      BY <2>6 DEF Range
    <3>1. x \in 1..Len(s) /\ x + 1 \in 1..Len(s)
      BY <1>1
    <3>2. \A y \in 1..Len(s) : y # i => s[y] \in Range(s) \ {e}
      BY <1>1, <2>1 DEF Range, IsInjective
    <3> QED BY <1>1, <2>1, <2>6, <3>1, <3>2
  <2>9. Range(s) \ {e} \subseteq Range(r)
    <3> SUFFICES ASSUME NEW y \in 1..Len(s), s[y] # e PROVE s[y] \in Range(r)
      BY <1>1 DEF Range
    <3>1. y # i
      BY <2>1
    <3>2. CASE y < i
      <4>1. y \in 1..(Len(s) - 1) /\ r[y] = s[y]
        BY <1>1, <2>1, <2>6, <3>2
      <4> QED BY <2>6, <4>1 DEF Range
    <3>3. CASE y > i
      <4>1. y - 1 \in 1..(Len(s) - 1) /\ r[y - 1] = s[y]
        BY <1>1, <2>1, <2>6, <3>3
      <4> QED BY <2>6, <4>1 DEF Range
    <3> QED BY <1>1, <2>1, <3>1, <3>2, <3>3
  <2> QED BY <2>4, <2>6, <2>7, <2>8, <2>9 DEF r
<1> QED BY <1>2, <1>3
LEMMA OrderOfNpcs ==
  NpcsInSomeOrder \in Seq(Npcs) /\ Range(NpcsInSomeOrder) = Npcs
<1>1. NpcsInSomeOrder \in SetToSeqs(Npcs)
  BY OrdersExist, ConstantsAssumption, Zenon DEF NpcsInSomeOrder
<1> QED BY <1>1, OrderFacts, ConstantsAssumption, Zenon

-----------------------------------------------------------------------------
(* What a client ends up with when it has read a queue.                    *)

NoHost(q, n) == \A i \in DOMAIN q : ~OfHost(q[i], n)
NoForm(q, n) == \A i \in DOMAIN q : ~OfForm(q[i], n)

Hosts(q, h, n) == LastHostIs(q, n, "start") \/ (n \in h /\ NoHost(q, n))
Frees(q, v, n) == LastFormFree(q, n) \/ (v = "free" /\ NoForm(q, n))

HostWords(n) == {m \in Message : OfHost(m, n)}
HostSays(n, w) == {m \in Message : m.npc = n /\ m.host = w}
FormWords(n) == {m \in Message : OfForm(m, n)}
SaysFree(m, n) == m.npc = n /\ m.form \in {"create", "flag"} /\ m.flag = "free"
FreeSays(n) == {m \in Message : SaysFree(m, n)}

LEMMA Words ==
  ASSUME NEW n
  PROVE  /\ HostSays(n, "start") \subseteq HostWords(n) /\ HostSays(n, "stop") \subseteq HostWords(n)
         /\ FreeSays(n) \subseteq FormWords(n)
  BY DEF HostSays, HostWords, FreeSays, FormWords, SaysFree, OfHost, OfForm

LEMMA InWords ==
  ASSUME NEW q \in Seq(Message), NEW n, NEW w
  PROVE  /\ LastHostIs(q, n, w) <=> LastIs(q, HostSays(n, w), HostWords(n))
         /\ LastFormFree(q, n) <=> LastIs(q, FreeSays(n), FormWords(n))
         /\ NoHost(q, n) <=> NoneOf(q, HostWords(n))
         /\ NoForm(q, n) <=> NoneOf(q, FormWords(n))
<1>1. \A i \in DOMAIN q : q[i] \in Message
  OBVIOUS
<1>2. \A i \in DOMAIN q : /\ q[i] \in HostWords(n) <=> OfHost(q[i], n)
                          /\ q[i] \in FormWords(n) <=> OfForm(q[i], n)
                          /\ q[i] \in HostSays(n, w) <=> (q[i].npc = n /\ q[i].host = w)
                          /\ q[i] \in FreeSays(n) <=> SaysFree(q[i], n)
  BY <1>1 DEF HostWords, FormWords, HostSays, FreeSays
<1> QED BY <1>2 DEF LastHostIs, LastFormFree, NoHost, NoForm, LastIs, NoneOf, SaysFree

\* Whatever is added to a queue comes last.
LEMMA Heard ==
  ASSUME NEW q \in Seq(Message), NEW s \in Seq(Message), NEW n, NEW h, NEW v
  PROVE  /\ q \o s \in Seq(Message)
         /\ NoHost(q \o s, n) <=> NoHost(s, n) /\ NoHost(q, n)
         /\ NoForm(q \o s, n) <=> NoForm(s, n) /\ NoForm(q, n)
         /\ LastHostIs(q \o s, n, "start")
              <=> LastHostIs(s, n, "start") \/ (NoHost(s, n) /\ LastHostIs(q, n, "start"))
         /\ LastFormFree(q \o s, n) <=> LastFormFree(s, n) \/ (NoForm(s, n) /\ LastFormFree(q, n))
         /\ Hosts(q \o s, h, n) <=> LastHostIs(s, n, "start") \/ (NoHost(s, n) /\ Hosts(q, h, n))
         /\ LastHostIs(q \o s, n, "stop")
              <=> LastHostIs(s, n, "stop") \/ (NoHost(s, n) /\ LastHostIs(q, n, "stop"))
         /\ Frees(q \o s, v, n) <=> LastFormFree(s, n) \/ (NoForm(s, n) /\ Frees(q, v, n))
<1> DEFINE r == q \o s
<1>1. r \in Seq(Message)
  OBVIOUS
<1>2. /\ NoneOf(r, HostWords(n)) <=> NoneOf(q, HostWords(n)) /\ NoneOf(s, HostWords(n))
      /\ \A w \in {"start", "stop"} : LastIs(r, HostSays(n, w), HostWords(n))
           <=> LastIs(s, HostSays(n, w), HostWords(n))
               \/ (NoneOf(s, HostWords(n)) /\ LastIs(q, HostSays(n, w), HostWords(n)))
  BY Words, LaterWordsCount
<1>3. /\ NoneOf(r, FormWords(n)) <=> NoneOf(q, FormWords(n)) /\ NoneOf(s, FormWords(n))
      /\ LastIs(r, FreeSays(n), FormWords(n))
           <=> LastIs(s, FreeSays(n), FormWords(n))
               \/ (NoneOf(s, FormWords(n)) /\ LastIs(q, FreeSays(n), FormWords(n)))
  BY Words, LaterWordsCount
<1>4. ASSUME NEW x \in {q, s, r}
      PROVE  /\ \A w \in {"start", "stop"} :
                  LastHostIs(x, n, w) <=> LastIs(x, HostSays(n, w), HostWords(n))
             /\ LastFormFree(x, n) <=> LastIs(x, FreeSays(n), FormWords(n))
             /\ NoHost(x, n) <=> NoneOf(x, HostWords(n))
             /\ NoForm(x, n) <=> NoneOf(x, FormWords(n))
  <2>1. x \in Seq(Message)
    BY <1>1
  <2> QED BY <2>1, InWords, Zenon
<1> HIDE DEF r
<1>5. /\ NoHost(r, n) <=> NoHost(s, n) /\ NoHost(q, n)
      /\ NoForm(r, n) <=> NoForm(s, n) /\ NoForm(q, n)
      /\ \A w \in {"start", "stop"} : LastHostIs(r, n, w)
           <=> LastHostIs(s, n, w) \/ (NoHost(s, n) /\ LastHostIs(q, n, w))
      /\ LastFormFree(r, n) <=> LastFormFree(s, n) \/ (NoForm(s, n) /\ LastFormFree(q, n))
  BY <1>2, <1>3, <1>4
<1>6. /\ Hosts(r, h, n) <=> LastHostIs(s, n, "start") \/ (NoHost(s, n) /\ Hosts(q, h, n))
      /\ Frees(r, v, n) <=> LastFormFree(s, n) \/ (NoForm(s, n) /\ Frees(q, v, n))
  BY <1>5 DEF Hosts, Frees
<1> QED BY <1>1, <1>5, <1>6 DEF r

LEMMA OneSaid ==
  ASSUME NEW m \in Message, NEW n
  PROVE  /\ <<m>> \in Seq(Message)
         /\ NoHost(<<m>>, n) <=> ~OfHost(m, n)
         /\ NoForm(<<m>>, n) <=> ~OfForm(m, n)
         /\ \A w : LastHostIs(<<m>>, n, w) <=> m.npc = n /\ m.host = w
         /\ LastFormFree(<<m>>, n) <=> SaysFree(m, n)
<1>1. <<m>> \in Seq(Message) /\ DOMAIN <<m>> = {1} /\ <<m>>[1] = m
  OBVIOUS
<1> QED BY <1>1 DEF NoHost, NoForm, LastHostIs, LastFormFree, SaysFree

LEMMA NothingSaid ==
  ASSUME NEW n, NEW h, NEW v
  PROVE  /\ << >> \in Seq(Message)
         /\ NoHost(<< >>, n) /\ NoForm(<< >>, n)
         /\ \A w : ~LastHostIs(<< >>, n, w)
         /\ ~LastFormFree(<< >>, n)
         /\ Hosts(<< >>, h, n) <=> n \in h
         /\ Frees(<< >>, v, n) <=> v = "free"
<1>1. DOMAIN << >> = {} /\ << >> \in Seq(Message)
  OBVIOUS
<1> QED BY <1>1 DEF NoHost, NoForm, LastHostIs, LastFormFree, Hosts, Frees
-----------------------------------------------------------------------------
(* The inductive invariant.                                                *)

\* A client that is not connected has nothing to read and says nothing.
OfflineForgets ==
  \A c \in Clients : conn[c] = "off" =>
    /\ queue[c] = << >> /\ hosted[c] = {} /\ updates[c] = {}
    /\ \A n \in Npcs : view[c][n] = "none"

\* Those near an actor listen to it, once.
Listening ==
  \A n \in Npcs :
    /\ IsInjective(listeners[n])
    /\ \A c \in Clients : conn[c] = "near" <=> c \in Range(listeners[n])

\* What c makes of n when it has read everything agrees with the server.
Agrees(c, n) ==
  /\ owned[n] \in {"animal", "never"} /\ Hosts(queue[c], hosted[c], n) => hosters[n] = c
  /\ LastHostIs(queue[c], n, "stop") => hosters[n] # c
  /\ Frees(queue[c], view[c][n], n)
       => conn[c] = "near" /\ owned[n] # "now" /\ hosters[n] \in {None, c}

AllAgree == \A c \in Clients, n \in Npcs : Agrees(c, n)

Strong == TypeOK /\ OfflineForgets /\ Listening /\ AllAgree

-----------------------------------------------------------------------------
(* Types.                                                                  *)

LEMMA MessageTypes ==
  ASSUME NEW n \in Npcs, NEW other \in BOOLEAN
  PROVE  /\ About(n) \in Message /\ Create(n, other) \in Message
         /\ Destroy(n) \in Message /\ HostStop(n) \in Message
         /\ About(n) = [npc |-> n, form |-> "same", flag |-> "free", host |-> "same"]
         /\ Create(n, other) = [npc |-> n, form |-> "create", flag |-> ViewOf(other), host |-> "same"]
         /\ Destroy(n) = [npc |-> n, form |-> "destroy", flag |-> "free", host |-> "same"]
         /\ HostStop(n) = [npc |-> n, form |-> "same", flag |-> "free", host |-> "stop"]
<1>1. ViewOf(other) \in Views
  BY DEF ViewOf, Views
<1>2. About(n) = [npc |-> n, form |-> "same", flag |-> "free", host |-> "same"]
  BY DEF About
<1>3. Create(n, other) = [npc |-> n, form |-> "create", flag |-> ViewOf(other), host |-> "same"]
  <2> DEFINE f == [About(n) EXCEPT !.form = "create", !.flag = ViewOf(other)]
  <2>1. DOMAIN f = {"npc", "form", "flag", "host"}
    BY DEF About
  <2>2. f.npc = n /\ f.form = "create" /\ f.flag = ViewOf(other) /\ f.host = "same"
    BY DEF About
  <2>3. f = [x \in {"npc", "form", "flag", "host"} |-> f[x]]
    BY <2>1 DEF About
  <2> HIDE DEF f
  <2>4. f = [npc |-> n, form |-> "create", flag |-> ViewOf(other), host |-> "same"]
    BY <2>2, <2>3
  <2> QED BY <2>4 DEF f, Create
<1>4. Destroy(n) = [npc |-> n, form |-> "destroy", flag |-> "free", host |-> "same"]
  BY DEF About, Destroy
<1>5. HostStop(n) = [npc |-> n, form |-> "same", flag |-> "free", host |-> "stop"]
  BY DEF About, HostStop
<1> HIDE DEF About
<1>6. \A f \in {"create", "destroy", "flag", "same"}, v \in Views, h \in {"start", "stop", "same"} :
        [npc |-> n, form |-> f, flag |-> v, host |-> h] \in Message
  BY DEF Message
<1>7. "free" \in Views
  BY DEF Views
<1> QED BY <1>1, <1>2, <1>3, <1>4, <1>5, <1>6, <1>7

LEMMA ToldTypes ==
  ASSUME TypeOK, NEW said, NEW room, Tell(said, room),
         \A c \in Clients : said[c] \in Seq(Message)
  PROVE  /\ queue' \in [Clients -> Seq(Message)]
         /\ \A c \in Clients : queue'[c] = queue[c] \o said[c]
<1>1. \A c \in Clients : queue[c] \in Seq(Message)
  BY DEF TypeOK
<1>2. \A c \in Clients : queue[c] \o said[c] \in Seq(Message)
  BY <1>1, ConcatProperties
<1> QED BY <1>2 DEF Tell

LEMMA GreetingsTypes ==
  ASSUME NEW c \in Clients
  PROVE  /\ Greetings(c) \in Seq(Message)
         /\ [i \in 1..Len(NpcsInSomeOrder) |-> Destroy(NpcsInSomeOrder[i])] \in Seq(Message)
<1> DEFINE o == NpcsInSomeOrder
<1>1. o \in Seq(Npcs)
  BY OrderOfNpcs
<1> HIDE DEF o
<1>2. Len(o) \in Nat /\ \A i \in 1..Len(o) : o[i] \in Npcs
  BY <1>1
<1>3. \A i \in 1..Len(o) : HostedByOther(o[i], c) \in BOOLEAN
  BY DEF HostedByOther
<1>4. \A i \in 1..Len(o) : Create(o[i], HostedByOther(o[i], c)) \in Message /\ Destroy(o[i]) \in Message
  BY <1>2, <1>3, MessageTypes
<1>5. [i \in 1..Len(o) |-> Destroy(o[i])] \in Seq(Message)
  BY <1>2, <1>4, IsASeq
<1>6. [i \in 1..Len(o) |-> Create(o[i], HostedByOther(o[i], c))] \in Seq(Message)
  BY <1>2, <1>4, IsASeq
<1> QED BY <1>5, <1>6, Zenon DEF o, Greetings

LEMMA ResizeTypes ==
  ASSUME TypeOK, NEW covered
  PROVE  /\ Resize(covered) \in [Npcs -> {"missing", "old", "recent"}]
         /\ \A n \in Npcs : Stamp(n) => lastMov' \in [Npcs -> {"missing", "old", "recent"}]
<1>1. \A x : Resize(x) \in [Npcs -> {"missing", "old", "recent"}]
  BY DEF TypeOK, Resize
<1>2. ASSUME NEW n \in Npcs, Stamp(n) PROVE lastMov' \in [Npcs -> {"missing", "old", "recent"}]
  <2>1. PICK x : lastMov' = [Resize(x) EXCEPT ![n] = "recent"]
    BY <1>2 DEF Stamp
  <2> QED BY <1>1, <2>1
<1> QED BY <1>1, <1>2
\* Who hears that c hosts n now: c that it starts, the hoster before that it stops, and
\* whoever is near or hosts a listener about isHostedByOther.
NewsOf(c, n, x) ==
  [HosterNews(n, c, [hosters EXCEPT ![n] = c], x)
     EXCEPT !.host = IF x = c THEN "start" ELSE IF x = hosters[n] THEN "stop" ELSE "same"]

LEMMA NewsFacts ==
  ASSUME TypeOK, NEW c \in Clients, NEW n \in Npcs, NEW x \in Clients, Listening
  PROVE  LET m == NewsOf(c, n, x)
         IN /\ m \in Message /\ m.npc = n
            /\ m.host = IF x = c THEN "start" ELSE IF x = hosters[n] THEN "stop" ELSE "same"
            /\ m.form \in {"flag", "same"}
            /\ conn[x] = "near" => m.form = "flag"
            /\ m.form = "flag" /\ m.flag = "free" => x = c /\ conn[x] = "near"
<1> DEFINE hosts == [hosters EXCEPT ![n] = c]
           via == {i \in DOMAIN listeners[n] : Addressee(listeners[n][i], hosts) = x}
           last == {i \in via : \A j \in via : j <= i}
           other == \A i \in last : listeners[n][i] # c
           word == IF x = c THEN "start" ELSE IF x = hosters[n] THEN "stop" ELSE "same"
           hn == HosterNews(n, c, hosts, x)
           m == [npc |-> n, form |-> IF via = {} THEN "same" ELSE "flag",
                 flag |-> IF via = {} THEN "free" ELSE ViewOf(other), host |-> word]
<1>1. About(n) = [npc |-> n, form |-> "same", flag |-> "free", host |-> "same"]
  BY DEF About
<1>2. other \in BOOLEAN /\ ViewOf(other) \in Views /\ (ViewOf(other) = "free" <=> ~other)
  BY DEF ViewOf, Views
<1>3. word \in {"start", "stop", "same"}
  OBVIOUS
<1>4. NewsOf(c, n, x) = m
  <2>1. CASE via = {}
    <3>1. hn = About(n)
      BY <2>1 DEF HosterNews
    <3> HIDE DEF word, via, hn
    <3>2. [About(n) EXCEPT !.host = word] = [npc |-> n, form |-> "same", flag |-> "free", host |-> word]
      BY <1>1
    <3>3. NewsOf(c, n, x) = [hn EXCEPT !.host = word]
      BY DEF NewsOf, word, hn
    <3> QED BY <2>1, <3>1, <3>2, <3>3
  <2>2. CASE via # {}
    <3> DEFINE f == [About(n) EXCEPT !.form = "flag", !.flag = ViewOf(other)]
    <3>1. hn = f
      BY <2>2 DEF HosterNews
    <3>2. NewsOf(c, n, x) = [hn EXCEPT !.host = word]
      BY DEF NewsOf
    <3> HIDE DEF word, via, hn, other
    <3>3. /\ DOMAIN f = {"npc", "form", "flag", "host"}
          /\ f = [y \in {"npc", "form", "flag", "host"} |-> f[y]]
      BY DEF About
    <3>4. f.npc = n /\ f.form = "flag" /\ f.flag = ViewOf(other) /\ f.host = "same"
      BY DEF About
    <3> HIDE DEF f
    <3>5. f = [npc |-> n, form |-> "flag", flag |-> ViewOf(other), host |-> "same"]
      BY <3>3, <3>4
    <3>6. [f EXCEPT !.host = word] = [npc |-> n, form |-> "flag", flag |-> ViewOf(other), host |-> word]
      BY <3>5
    <3> QED BY <2>2, <3>1, <3>2, <3>6
  <2> QED BY <2>1, <2>2
<1>5. conn[x] = "near" => via # {}
  <2> SUFFICES ASSUME conn[x] = "near" PROVE via # {}
    OBVIOUS
  <2>1. x \in Range(listeners[n])
    BY DEF Listening
  <2>2. PICK i \in DOMAIN listeners[n] : listeners[n][i] = x
    BY <2>1 DEF Range
  <2>3. Addressee(listeners[n][i], hosts) = x
    BY <2>2 DEF Addressee
  <2> QED BY <2>3
<1>6. ASSUME via # {}, ~other PROVE x = c /\ conn[x] = "near"
  <2>1. PICK i \in last : listeners[n][i] = c
    BY <1>6
  <2>2. i \in DOMAIN listeners[n] /\ Addressee(c, hosts) = x
    BY <2>1
  <2>3. x = c
    BY <2>2 DEF Addressee
  <2>4. c \in Range(listeners[n])
    BY <2>1, <2>2, Zenon DEF Range
  <2> QED BY <1>6, <2>3, <2>4, Zenon DEF Listening
<1> HIDE DEF via, other, word, last
<1>7. m \in Message
  <2>1. (IF via = {} THEN "free" ELSE ViewOf(other)) \in Views
    BY <1>2 DEF Views
  <2> QED BY <1>3, <2>1 DEF Message
<1>8. m.npc = n /\ m.host = word /\ m.form \in {"flag", "same"} /\ (m.form = "flag" <=> via # {})
      /\ (m.form = "flag" => m.flag = ViewOf(other))
  OBVIOUS
<1> HIDE DEF m
<1> QED BY <1>2, <1>4, <1>5, <1>6, <1>7, <1>8 DEF word

LEMMA GrantTells ==
  ASSUME TypeOK, Listening, NEW c \in Clients, NEW n \in Npcs, Grant(c, n)
  PROVE  /\ hosters' = [hosters EXCEPT ![n] = c] /\ StampUnchecked(n)
         /\ queue' \in [Clients -> Seq(Message)]
         /\ \A x \in Clients :
              queue'[x] = queue[x] \o (IF Online(x) /\ NewsOf(c, n, x) # About(n)
                                       THEN <<NewsOf(c, n, x)>> ELSE << >>)
<1> DEFINE said == [x \in Clients |-> IF Online(x) /\ NewsOf(c, n, x) # About(n)
                                       THEN <<NewsOf(c, n, x)>> ELSE << >>]
<1>1. Answer(said) /\ hosters' = [hosters EXCEPT ![n] = c] /\ StampUnchecked(n)
  BY Zenon DEF Grant, NewsOf
<1>2. \A x \in Clients : NewsOf(c, n, x) \in Message
  BY NewsFacts
<1>3. \A x \in Clients : said[x] \in Seq(Message)
  BY <1>2
<1> HIDE DEF said
<1>4. Tell(said, MaxUnread + 1)
  BY <1>1 DEF Answer
<1>5. queue' \in [Clients -> Seq(Message)] /\ \A x \in Clients : queue'[x] = queue[x] \o said[x]
  BY <1>3, <1>4, ToldTypes
<1> QED BY <1>1, <1>5 DEF said
LEMMA ListenTypes ==
  ASSUME TypeOK, Listening, NEW c \in Clients, Listen(c), conn[c] # "near"
  PROVE  /\ listeners' \in [Npcs -> Seq(Clients \cup Npcs)]
         /\ \A n \in Npcs : /\ IsInjective(listeners'[n])
                            /\ \A x \in Clients : x \in Range(listeners'[n]) <=> x \in Range(listeners[n]) \cup {c}
<1>1. CASE /\ \A n \in Npcs : listeners[n] = << >>
           /\ \E order \in SetToSeqs(Npcs \cup {c}) : listeners' = [n \in Npcs |-> order]
  <2>1. IsFiniteSet(Npcs \cup {c})
    BY FS_AddElement, ConstantsAssumption
  <2>2. PICK order \in SetToSeqs(Npcs \cup {c}) : listeners' = [n \in Npcs |-> order]
    BY <1>1
  <2>3. order \in Seq(Npcs \cup {c}) /\ IsInjective(order) /\ Range(order) = Npcs \cup {c}
    BY <2>1, OrderFacts, Zenon
  <2>4. order \in Seq(Clients \cup Npcs)
    <3>1. Npcs \cup {c} \subseteq Clients \cup Npcs
      OBVIOUS
    <3> QED BY <2>3, <3>1, SeqMonotonic
  <2>5. Range(<< >>) = {}
    BY DEF Range
  <2>6. \A x \in Clients : x \notin Npcs
    BY ConstantsAssumption
  <2> HIDE DEF Range
  <2>7. \A n \in Npcs : listeners'[n] = order /\ Range(listeners[n]) = {}
    BY <1>1, <2>2, <2>5, Zenon
  <2>8. \A n \in Npcs : IsInjective(listeners'[n]) /\ Range(listeners'[n]) = Npcs \cup {c}
    BY <2>3, <2>7, Zenon
  <2>9. listeners' \in [Npcs -> Seq(Clients \cup Npcs)]
    BY <2>2, <2>4
  <2> QED BY <2>6, <2>7, <2>8, <2>9
<1>2. CASE /\ \A n \in Npcs : listeners[n] # << >>
           /\ listeners' = [n \in Npcs |-> Append(listeners[n], c)]
  <2>1. listeners' \in [Npcs -> Seq(Clients \cup Npcs)]
    BY <1>2 DEF TypeOK
  <2> SUFFICES ASSUME NEW n \in Npcs
               PROVE  /\ IsInjective(listeners'[n])
                      /\ Range(listeners'[n]) = Range(listeners[n]) \cup {c}
    BY <2>1, Zenon
  <2> DEFINE l == listeners[n]
             m == Append(l, c)
  <2>2. l \in Seq(Clients \cup Npcs) /\ listeners'[n] = m
    BY <1>2 DEF TypeOK
  <2>3. c \notin Range(l) /\ IsInjective(l)
    BY DEF Listening
  <2> HIDE DEF l
  <2>4. /\ Len(l) \in Nat /\ DOMAIN l = 1..Len(l) /\ DOMAIN m = 1..(Len(l) + 1)
        /\ \A i \in 1..Len(l) : m[i] = l[i]
        /\ m[Len(l) + 1] = c
    BY <2>2
  <2> HIDE DEF m
  <2>5. \A i \in 1..Len(l) : l[i] # c
    BY <2>3, <2>4, Zenon DEF Range
  <2>6. \A i \in DOMAIN m : i \in 1..Len(l) \/ i = Len(l) + 1
    BY <2>4
  <2>7. IsInjective(m)
    BY <2>3, <2>4, <2>5, <2>6 DEF IsInjective
  <2>8. Range(m) = Range(l) \cup {c}
    <3>1. \A i \in 1..Len(l) : i \in DOMAIN m
      BY <2>4
    <3>2. Len(l) + 1 \in DOMAIN m
      BY <2>4
    <3> QED BY <2>4, <2>6, <3>1, <3>2 DEF Range
  <2> QED BY <2>2, <2>7, <2>8 DEF l
<1> QED BY <1>1, <1>2 DEF Listen

LEMMA UnlistenTypes ==
  ASSUME TypeOK, Listening, NEW c \in Clients, Unlisten(c)
  PROVE  /\ listeners' \in [Npcs -> Seq(Clients \cup Npcs)]
         /\ \A n \in Npcs : /\ IsInjective(listeners'[n])
                            /\ Range(listeners'[n]) = Range(listeners[n]) \ {c}
<1>1. \A n \in Npcs : listeners[n] \in Seq(Clients \cup Npcs) /\ IsInjective(listeners[n])
  BY DEF TypeOK, Listening
<1>2. \A n \in Npcs : /\ RemoveFirst(listeners[n], c) \in Seq(Clients \cup Npcs)
                      /\ IsInjective(RemoveFirst(listeners[n], c))
                      /\ Range(RemoveFirst(listeners[n], c)) = Range(listeners[n]) \ {c}
  BY <1>1, RemoveFirstFacts, Zenon
<1>3. listeners' = [n \in Npcs |-> RemoveFirst(listeners[n], c)]
  BY DEF Unlisten
<1>4. \A n \in Npcs : listeners'[n] = RemoveFirst(listeners[n], c)
  BY <1>3, Zenon
<1>5. listeners' \in [Npcs -> Seq(Clients \cup Npcs)]
  BY <1>2, <1>3
<1> QED BY <1>2, <1>4, <1>5, Zenon
-----------------------------------------------------------------------------
(* One step.                                                               *)

LEMMA HeardOne ==
  ASSUME NEW q \in Seq(Message), NEW m \in Message, NEW n, NEW h, NEW v
  PROVE  /\ Hosts(q \o <<m>>, h, n)
              <=> (m.npc = n /\ m.host = "start") \/ (~OfHost(m, n) /\ Hosts(q, h, n))
         /\ LastHostIs(q \o <<m>>, n, "stop")
              <=> (m.npc = n /\ m.host = "stop") \/ (~OfHost(m, n) /\ LastHostIs(q, n, "stop"))
         /\ Frees(q \o <<m>>, v, n) <=> SaysFree(m, n) \/ (~OfForm(m, n) /\ Frees(q, v, n))
<1>1. /\ <<m>> \in Seq(Message)
      /\ NoHost(<<m>>, n) <=> ~OfHost(m, n)
      /\ NoForm(<<m>>, n) <=> ~OfForm(m, n)
      /\ LastHostIs(<<m>>, n, "start") <=> m.npc = n /\ m.host = "start"
      /\ LastHostIs(<<m>>, n, "stop") <=> m.npc = n /\ m.host = "stop"
      /\ LastFormFree(<<m>>, n) <=> SaysFree(m, n)
  BY OneSaid, Zenon
<1> DEFINE s == <<m>>
<1> HIDE DEF s
<1>2. /\ Hosts(q \o s, h, n) <=> LastHostIs(s, n, "start") \/ (NoHost(s, n) /\ Hosts(q, h, n))
      /\ LastHostIs(q \o s, n, "stop")
           <=> LastHostIs(s, n, "stop") \/ (NoHost(s, n) /\ LastHostIs(q, n, "stop"))
      /\ Frees(q \o s, v, n) <=> LastFormFree(s, n) \/ (NoForm(s, n) /\ Frees(q, v, n))
  <2>1. s \in Seq(Message)
    BY <1>1 DEF s
  <2> QED BY <2>1, Heard, Zenon
<1> QED BY <1>1, <1>2, Zenon DEF s

\* A client that hears nothing of the host or the form of n, and about which nothing
\* changes, still agrees.
LEMMA NothingNew ==
  ASSUME NEW c \in Clients, NEW n \in Npcs, Agrees(c, n),
         queue'[c] = queue[c], hosted'[c] = hosted[c], view'[c] = view[c],
         conn'[c] = conn[c], owned'[n] = owned[n], hosters'[n] = hosters[n]
  PROVE  Agrees(c, n)'
BY DEF Agrees

LEMMA NothingToCome ==
  ASSUME NEW n
  PROVE  ~Hosts(<< >>, {}, n) /\ ~LastHostIs(<< >>, n, "stop") /\ ~Frees(<< >>, "none", n)
<1>1. DOMAIN << >> = {} /\ n \notin {} /\ "none" # "free"
  OBVIOUS
<1> QED BY <1>1 DEF Hosts, Frees, LastHostIs, LastFormFree

LEMMA OffAgrees ==
  ASSUME NEW c \in Clients, NEW n \in Npcs,
         queue'[c] = << >>, hosted'[c] = {}, view'[c][n] = "none"
  PROVE  Agrees(c, n)'
<1>1. /\ ~Hosts(<< >>, {}, n) /\ ~LastHostIs(<< >>, n, "stop") /\ ~Frees(<< >>, "none", n)
  BY NothingToCome, Zenon
<1>2. /\ ~Hosts(queue'[c], hosted'[c], n) /\ ~LastHostIs(queue'[c], n, "stop")
      /\ ~Frees(queue'[c], view'[c][n], n)
  BY <1>1
<1> QED BY <1>2 DEF Agrees

LEMMA InitStrong == Init => Strong
<1> SUFFICES ASSUME Init PROVE Strong
  OBVIOUS
<1>1. << >> \in Seq(Clients \cup Npcs) /\ << >> \in Seq(Message)
  OBVIOUS
<1>2. TypeOK
  BY <1>1 DEF Init, TypeOK
<1>3. OfflineForgets
  BY DEF Init, OfflineForgets
<1>4. Listening
  <2>1. IsInjective(<< >>) /\ Range(<< >>) = {}
    BY DEF IsInjective, Range
  <2>2. \A n \in Npcs : listeners[n] = << >>
    BY DEF Init
  <2>3. \A c \in Clients : conn[c] = "off"
    BY DEF Init
  <2> QED BY <2>1, <2>2, <2>3 DEF Listening
<1>5. ASSUME NEW c \in Clients, NEW n \in Npcs PROVE Agrees(c, n)
  <2>1. queue[c] = << >> /\ hosted[c] = {} /\ view[c][n] = "none"
    BY DEF Init
  <2>2. /\ ~Hosts(<< >>, {}, n) /\ ~LastHostIs(<< >>, n, "stop") /\ ~Frees(<< >>, "none", n)
    BY NothingToCome, Zenon
  <2> QED BY <2>1, <2>2 DEF Agrees
<1> QED BY <1>2, <1>3, <1>4, <1>5 DEF Strong, AllAgree

LEMMA StampTypes ==
  ASSUME TypeOK, NEW n \in Npcs, StampUnchecked(n)
  PROVE  lastMov' \in [Npcs -> {"missing", "old", "recent"}] /\ up' \in BOOLEAN
BY DEF TypeOK, StampUnchecked

LEMMA HostAttemptStep ==
  ASSUME Strong, NEW c \in Clients, NEW n \in Npcs, OnHostAttempt(c, n)
  PROVE  Strong'
<1>1. CASE ~(owned[n] # "now" /\ MayHost(c, n))
  <2>1. /\ UNCHANGED <<hosters, lastMov, up, queue, riding, owned, listeners, conn, updates, view, hosted>>
        /\ attempts' \in [Clients -> SUBSET Npcs]
    BY <1>1 DEF OnHostAttempt, client, Strong, TypeOK
  <2>2. TypeOK'
    BY <2>1 DEF Strong, TypeOK
  <2> QED BY <2>1, <2>2 DEF Strong, OfflineForgets, Listening, AllAgree, Agrees
<1>2. CASE owned[n] # "now" /\ MayHost(c, n)
  <2>1. /\ Grant(c, n)
        /\ UNCHANGED <<riding, owned, listeners, conn, updates, view, hosted>>
        /\ attempts' \in [Clients -> SUBSET Npcs]
    BY <1>2 DEF OnHostAttempt, client, Strong, TypeOK
  <2> USE DEF Strong
  <2>2. /\ hosters' = [hosters EXCEPT ![n] = c] /\ StampUnchecked(n)
        /\ queue' \in [Clients -> Seq(Message)]
        /\ \A x \in Clients :
             queue'[x] = queue[x] \o (IF Online(x) /\ NewsOf(c, n, x) # About(n)
                                      THEN <<NewsOf(c, n, x)>> ELSE << >>)
    BY <2>1, GrantTells, Zenon
  <2>3. TypeOK'
    BY <2>1, <2>2, StampTypes DEF TypeOK
  <2>4. OfflineForgets'
    <3> SUFFICES ASSUME NEW x \in Clients, conn[x] = "off"
                 PROVE  queue'[x] = << >>
      BY <2>1 DEF OfflineForgets
    <3>1. queue'[x] = queue[x] \o << >> /\ queue[x] = << >>
      BY <2>2 DEF Online, OfflineForgets
    <3> QED BY <3>1
  <2>5. Listening'
    BY <2>1 DEF Listening
  <2>6. ASSUME NEW x \in Clients, NEW k \in Npcs PROVE Agrees(x, k)'
    <3> DEFINE m == NewsOf(c, n, x)
               q == queue[x]
               h == hosted[x]
               v == view[x][k]
    <3>1. /\ m \in Message /\ m.npc = n
          /\ m.host = IF x = c THEN "start" ELSE IF x = hosters[n] THEN "stop" ELSE "same"
          /\ m.form \in {"flag", "same"}
          /\ conn[x] = "near" => m.form = "flag"
          /\ m.form = "flag" /\ m.flag = "free" => x = c /\ conn[x] = "near"
      BY NewsFacts
    <3>2. Agrees(x, k)
      BY DEF AllAgree
    <3>3. q \in Seq(Message)
      BY DEF TypeOK
    <3>4. CASE ~Online(x)
      <4>1. queue'[x] = << >>
        BY <2>4, <3>4, <2>1 DEF OfflineForgets, Online
      <4>2. hosted'[x] = {} /\ view'[x][k] = "none"
        BY <2>1, <3>4 DEF OfflineForgets, Online
      <4> QED BY <4>1, <4>2, OffAgrees
    <3>5. CASE Online(x)
      <4>1. /\ Hosts(queue'[x], h, k)
                 <=> (m.npc = k /\ m.host = "start") \/ (~OfHost(m, k) /\ Hosts(q, h, k))
            /\ LastHostIs(queue'[x], k, "stop")
                 <=> (m.npc = k /\ m.host = "stop") \/ (~OfHost(m, k) /\ LastHostIs(q, k, "stop"))
            /\ Frees(queue'[x], v, k) <=> SaysFree(m, k) \/ (~OfForm(m, k) /\ Frees(q, v, k))
        <5>1. CASE m # About(n)
          <6>1. queue'[x] = q \o <<m>>
            BY <2>2, <3>5, <5>1
          <6> HIDE DEF m, q, h, v
          <6>2. /\ Hosts(q \o <<m>>, h, k)
                     <=> (m.npc = k /\ m.host = "start") \/ (~OfHost(m, k) /\ Hosts(q, h, k))
                /\ LastHostIs(q \o <<m>>, k, "stop")
                     <=> (m.npc = k /\ m.host = "stop") \/ (~OfHost(m, k) /\ LastHostIs(q, k, "stop"))
                /\ Frees(q \o <<m>>, v, k) <=> SaysFree(m, k) \/ (~OfForm(m, k) /\ Frees(q, v, k))
            BY <3>1, <3>3, HeardOne, Zenon
          <6> QED BY <6>1, <6>2, Zenon
        <5>2. CASE m = About(n)
          <6>1. queue'[x] = q \o << >> /\ q \o << >> = q
            BY <2>2, <3>3, <5>2, ConcatEmptySeq, Zenon
          <6>2. m.host = "same" /\ m.form = "same"
            BY <5>2 DEF About
          <6>3. ~OfHost(m, k) /\ ~OfForm(m, k) /\ ~SaysFree(m, k)
            BY <6>2 DEF OfHost, OfForm, SaysFree
          <6> HIDE DEF m, q, h, v
          <6> QED BY <6>1, <6>2, <6>3
        <5> QED BY <5>1, <5>2
      <4>2. hosters'[k] = IF k = n THEN c ELSE hosters[k]
        BY <2>2 DEF TypeOK
      <4>3. hosted'[x] = h /\ view'[x][k] = v /\ conn'[x] = conn[x] /\ owned'[k] = owned[k]
        BY <2>1
      <4> HIDE DEF m, q, h, v
      <4>4. /\ owned[k] \in {"animal", "never"} /\ Hosts(q, h, k) => hosters[k] = x
            /\ LastHostIs(q, k, "stop") => hosters[k] # x
            /\ Frees(q, v, k) => conn[x] = "near" /\ owned[k] # "now" /\ hosters[k] \in {None, x}
        BY <3>2 DEF Agrees, q, h, v
      <4>5. CASE k # n
        <5>1. ~OfHost(m, k) /\ ~OfForm(m, k) /\ ~SaysFree(m, k) /\ m.npc # k
          BY <3>1, <4>5 DEF OfHost, OfForm, SaysFree
        <5> QED BY <4>1, <4>2, <4>3, <4>4, <4>5, <5>1 DEF Agrees
      <4>6. CASE k = n
        <5>1. OfHost(m, k) <=> m.host # "same"
          BY <3>1, <4>6 DEF OfHost
        <5>2. OfForm(m, k) <=> m.form = "flag"
          BY <3>1, <4>6 DEF OfForm
        <5>3. SaysFree(m, k) => x = c /\ conn[x] = "near"
          BY <3>1, <4>6 DEF SaysFree
        <5>4. owned[k] \in {"animal", "never"} /\ Hosts(queue'[x], h, k) => x = c
          BY <3>1, <4>1, <4>4, <4>6, <5>1
        <5>5. LastHostIs(queue'[x], k, "stop") => x # c
          BY <3>1, <4>1, <4>6, <5>1
        <5>6. Frees(queue'[x], v, k) => conn[x] = "near" /\ x = c
          BY <3>1, <4>1, <4>4, <5>2, <5>3
        <5> QED BY <1>2, <4>2, <4>3, <4>6, <5>4, <5>5, <5>6 DEF Agrees
      <4> QED BY <4>5, <4>6
    <3> QED BY <3>4, <3>5
  <2> QED BY <2>3, <2>4, <2>5, <2>6 DEF AllAgree
<1> QED BY <1>1, <1>2
LEMMA UpdateMovementStep ==
  ASSUME Strong, NEW c \in Clients, NEW n \in Npcs, NEW valid \in BOOLEAN,
         OnUpdateMovement(c, n, valid)
  PROVE  Strong'
<1> USE DEF Strong
<1>1. /\ n \in updates[c] /\ updates' = [updates EXCEPT ![c] = @ \ {n}]
      /\ UNCHANGED <<riding, owned, listeners, up, conn, attempts, view, hosted>>
  BY DEF OnUpdateMovement, client
<1>2. conn[c] # "off" /\ updates' \in [Clients -> SUBSET Npcs]
      /\ \A x \in Clients : updates[x] = {} => updates'[x] = {}
  BY <1>1 DEF OfflineForgets, TypeOK
<1>3. CASE owned[n] # "now" /\ hosters[n] = c /\ UNCHANGED <<hosters, queue>>
           /\ IF valid THEN Stamp(n) ELSE UNCHANGED lastMov
  <2>1. lastMov' \in [Npcs -> {"missing", "old", "recent"}]
    BY <1>3, ResizeTypes DEF TypeOK
  <2> QED BY <1>1, <1>2, <1>3, <2>1
          DEF TypeOK, OfflineForgets, Listening, AllAgree, Agrees
<1>4. CASE /\ AnswerOnly(c, HostStop(n)) /\ UNCHANGED lastMov
           /\ \/ owned[n] = "now" /\ hosters' = [hosters EXCEPT ![n] = None]
              \/ hosters[n] # c /\ hosters' = hosters
  <2> DEFINE m == HostStop(n)
             said == [x \in Clients |-> IF x = c THEN <<m>> ELSE << >>]
  <2>1. m \in Message /\ m.npc = n /\ m.form = "same" /\ m.host = "stop"
    BY MessageTypes
  <2> HIDE DEF m
  <2>2. Tell(said, MaxUnread + 1)
    BY <1>4 DEF AnswerOnly, Answer, m
  <2>3. \A x \in Clients : said[x] \in Seq(Message)
    BY <2>1
  <2>4. queue' \in [Clients -> Seq(Message)] /\ \A x \in Clients : queue'[x] = queue[x] \o said[x]
    <3> HIDE DEF said
    <3> QED BY <2>2, <2>3, ToldTypes
  <2>5. \A x \in Clients : queue[x] \in Seq(Message) /\ queue[x] \o << >> = queue[x]
    BY ConcatEmptySeq DEF TypeOK
  <2>6. queue'[c] = queue[c] \o <<m>> /\ \A x \in Clients : x # c => queue'[x] = queue[x]
    BY <2>4, <2>5
  <2>7. \A k \in Npcs : hosters'[k] = hosters[k] \/ (k = n /\ owned[n] = "now" /\ hosters'[k] = None)
    BY <1>4 DEF TypeOK
  <2>8. hosters'[n] # c /\ hosters' \in [Npcs -> Clients \cup {None}]
    BY <1>4, ConstantsAssumption DEF TypeOK
  <2>9. TypeOK'
    BY <1>1, <1>2, <1>4, <2>4, <2>8 DEF TypeOK
  <2>10. OfflineForgets' /\ Listening'
    BY <1>1, <1>2, <2>6 DEF OfflineForgets, Listening
  <2>11. ASSUME NEW x \in Clients, NEW k \in Npcs PROVE Agrees(x, k)'
    <3> DEFINE q == queue[x]
               h == hosted[x]
               v == view[x][k]
    <3>1. /\ owned[k] \in {"animal", "never"} /\ Hosts(q, h, k) => hosters[k] = x
          /\ LastHostIs(q, k, "stop") => hosters[k] # x
          /\ Frees(q, v, k) => conn[x] = "near" /\ owned[k] # "now" /\ hosters[k] \in {None, x}
      BY DEF AllAgree, Agrees
    <3>2. hosted'[x] = h /\ view'[x][k] = v /\ conn'[x] = conn[x] /\ owned'[k] = owned[k]
      BY <1>1
    <3>3. /\ Hosts(queue'[x], h, k) => Hosts(q, h, k)
          /\ Frees(queue'[x], v, k) => Frees(q, v, k)
          /\ LastHostIs(queue'[x], k, "stop") => LastHostIs(q, k, "stop") \/ (x = c /\ k = n)
      <4>1. CASE x # c
        BY <2>6, <4>1
      <4>2. CASE x = c
        <5>1. /\ Hosts(q \o <<m>>, h, k)
                   <=> (m.npc = k /\ m.host = "start") \/ (~OfHost(m, k) /\ Hosts(q, h, k))
              /\ LastHostIs(q \o <<m>>, k, "stop")
                   <=> (m.npc = k /\ m.host = "stop") \/ (~OfHost(m, k) /\ LastHostIs(q, k, "stop"))
              /\ Frees(q \o <<m>>, v, k) <=> SaysFree(m, k) \/ (~OfForm(m, k) /\ Frees(q, v, k))
          BY <2>1, <2>5, HeardOne, Zenon
        <5>2. ~SaysFree(m, k)
          BY <2>1 DEF SaysFree
        <5>3. queue'[x] = q \o <<m>>
          BY <2>6, <4>2
        <5> HIDE DEF q, h, v
        <5> QED BY <2>1, <4>2, <5>1, <5>2, <5>3
      <4> QED BY <4>1, <4>2
    <3> HIDE DEF q, h, v
    <3>4. None # x
      BY ConstantsAssumption
    <3>5. hosters'[k] = hosters[k] \/ (k = n /\ owned[k] = "now" /\ hosters'[k] = None)
      BY <2>7
    <3>6. x = c /\ k = n => hosters'[k] # x
      BY <2>8
    <3>7. owned'[k] \in {"animal", "never"} /\ Hosts(queue'[x], hosted'[x], k) => hosters'[k] = x
      BY <3>1, <3>2, <3>3, <3>5
    <3>8. LastHostIs(queue'[x], k, "stop") => hosters'[k] # x
      BY <3>1, <3>3, <3>4, <3>5, <3>6
    <3>9. Frees(queue'[x], view'[x][k], k)
            => conn'[x] = "near" /\ owned'[k] # "now" /\ hosters'[k] \in {None, x}
      BY <3>1, <3>2, <3>3, <3>5
    <3> QED BY <3>7, <3>8, <3>9, Zenon DEF Agrees
  <2> QED BY <2>9, <2>10, <2>11 DEF AllAgree
<1> QED BY <1>3, <1>4 DEF OnUpdateMovement

LEMMA ArriveStep ==
  ASSUME Strong, NEW c \in Clients, Arrive(c)
  PROVE  Strong'
<1> USE DEF Strong
<1> DEFINE g == Greetings(c)
           said == [x \in Clients |-> IF x = c THEN g ELSE << >>]
<1>1. /\ conn' = [conn EXCEPT ![c] = "near"] /\ Listen(c) /\ conn[c] # "near"
      /\ UNCHANGED <<hosters, lastMov, riding, owned, up, attempts, updates, view, hosted>>
  BY DEF Arrive, wire, client
<1>2. g \in Seq(Message)
  BY GreetingsTypes
<1>3. Tell(said, MaxUnread)
  BY DEF Arrive, Announce
<1> HIDE DEF g
<1>4. \A x \in Clients : said[x] \in Seq(Message)
  BY <1>2
<1>5. queue' \in [Clients -> Seq(Message)] /\ \A x \in Clients : queue'[x] = queue[x] \o said[x]
  <2> HIDE DEF said
  <2> QED BY <1>3, <1>4, ToldTypes
<1>6. \A x \in Clients : queue[x] \in Seq(Message) /\ queue[x] \o << >> = queue[x]
  BY ConcatEmptySeq DEF TypeOK
<1>7. queue'[c] = queue[c] \o g /\ \A x \in Clients : x # c => queue'[x] = queue[x]
  BY <1>5, <1>6
<1> HIDE DEF said
<1>8. /\ listeners' \in [Npcs -> Seq(Clients \cup Npcs)]
      /\ \A n \in Npcs : /\ IsInjective(listeners'[n])
                         /\ \A x \in Clients : x \in Range(listeners'[n]) <=> x \in Range(listeners[n]) \cup {c}
  BY <1>1, ListenTypes
<1>9. TypeOK'
  BY <1>1, <1>5, <1>8 DEF TypeOK
<1>10. /\ conn'[c] = "near" /\ \A x \in Clients : x # c => conn'[x] = conn[x]
  BY <1>1 DEF TypeOK
<1>11. OfflineForgets'
  BY <1>1, <1>7, <1>10 DEF OfflineForgets
<1>12. Listening'
  BY <1>8, <1>10 DEF Listening
<1>13. ASSUME NEW n \in Npcs
       PROVE  /\ NoHost(g, n) /\ ~LastHostIs(g, n, "start") /\ ~LastHostIs(g, n, "stop") /\ ~NoForm(g, n)
              /\ LastFormFree(g, n) => owned[n] # "now" /\ hosters[n] \in {None, c}
  <2> DEFINE o == NpcsInSomeOrder
  <2>1. o \in Seq(Npcs) /\ Range(o) = Npcs
    BY OrderOfNpcs
  <2>2. g = [i \in 1..Len(o) |-> Create(o[i], HostedByOther(o[i], c))]
    BY Zenon DEF g, Greetings
  <2> HIDE DEF o
  <2>3. Len(o) \in Nat /\ DOMAIN o = 1..Len(o) /\ \A i \in 1..Len(o) : o[i] \in Npcs
    BY <2>1
  <2>4. DOMAIN g = 1..Len(o)
    BY <2>2
  <2>5. ASSUME NEW i \in 1..Len(o)
        PROVE  /\ g[i].npc = o[i] /\ g[i].form = "create" /\ g[i].host = "same"
               /\ g[i].flag = "free" => owned[o[i]] # "now" /\ hosters[o[i]] \in {None, c}
    <3>1. g[i] = Create(o[i], HostedByOther(o[i], c))
      BY <2>2
    <3>2. HostedByOther(o[i], c) \in BOOLEAN
      BY DEF HostedByOther
    <3>3. g[i] = [npc |-> o[i], form |-> "create", flag |-> ViewOf(HostedByOther(o[i], c)), host |-> "same"]
      BY <2>3, <3>1, <3>2, MessageTypes, Zenon
    <3>4. ViewOf(HostedByOther(o[i], c)) = "free" => ~HostedByOther(o[i], c)
      BY DEF ViewOf
    <3> QED BY <3>3, <3>4 DEF HostedByOther
  <2>6. PICK i \in 1..Len(o) : o[i] = n
    BY <2>1, <2>3 DEF Range
  <2>7. NoHost(g, n) /\ ~LastHostIs(g, n, "start") /\ ~LastHostIs(g, n, "stop")
    BY <2>4, <2>5 DEF NoHost, LastHostIs, OfHost
  <2>8. ~NoForm(g, n)
    BY <2>4, <2>5, <2>6 DEF NoForm, OfForm
  <2>9. LastFormFree(g, n) => owned[n] # "now" /\ hosters[n] \in {None, c}
    BY <2>4, <2>5 DEF LastFormFree
  <2> QED BY <2>7, <2>8, <2>9
<1>14. ASSUME NEW x \in Clients, NEW k \in Npcs PROVE Agrees(x, k)'
  <2> DEFINE q == queue[x]
             h == hosted[x]
             v == view[x][k]
  <2>1. Agrees(x, k)
    BY DEF AllAgree
  <2>2. CASE x # c
    <3>1. queue'[x] = queue[x] /\ conn'[x] = conn[x]
      BY <1>7, <1>10, <2>2
    <3> QED BY <1>1, <2>1, <3>1, NothingNew
  <2>3. CASE x = c
    <3>1. queue'[x] = q \o g /\ conn'[x] = "near"
      BY <1>7, <1>10, <2>3
    <3>2. /\ Hosts(q \o g, h, k) <=> LastHostIs(g, k, "start") \/ (NoHost(g, k) /\ Hosts(q, h, k))
          /\ LastHostIs(q \o g, k, "stop")
               <=> LastHostIs(g, k, "stop") \/ (NoHost(g, k) /\ LastHostIs(q, k, "stop"))
          /\ Frees(q \o g, v, k) <=> LastFormFree(g, k) \/ (NoForm(g, k) /\ Frees(q, v, k))
      BY <1>2, <1>6, Heard, Zenon
    <3>3. /\ Hosts(queue'[x], h, k) <=> Hosts(q, h, k)
          /\ LastHostIs(queue'[x], k, "stop") <=> LastHostIs(q, k, "stop")
          /\ Frees(queue'[x], v, k) => owned[k] # "now" /\ hosters[k] \in {None, x}
      <4> HIDE DEF q, h, v
      <4> QED BY <1>13, <2>3, <3>1, <3>2
    <3>4. hosted'[x] = h /\ view'[x][k] = v /\ owned'[k] = owned[k] /\ hosters'[k] = hosters[k]
      BY <1>1
    <3> QED BY <2>1, <3>1, <3>3, <3>4 DEF Agrees
  <2> QED BY <2>2, <2>3
<1> QED BY <1>9, <1>11, <1>12, <1>14 DEF AllAgree
LEMMA LeaveStep ==
  ASSUME Strong, NEW c \in Clients, Leave(c)
  PROVE  Strong'
<1> USE DEF Strong
<1> DEFINE o == NpcsInSomeOrder
           g == [i \in 1..Len(o) |-> Destroy(o[i])]
           said == [x \in Clients |-> IF x # c THEN << >> ELSE g]
<1>1. /\ conn' = [conn EXCEPT ![c] = "away"] /\ Unlisten(c)
      /\ UNCHANGED <<hosters, lastMov, riding, owned, up, attempts, updates, view, hosted>>
      /\ Tell(said, MaxUnread) /\ conn[c] = "near"
  BY DEF Leave, wire, client, Announce
<1>2. g \in Seq(Message)
  BY GreetingsTypes
<1>3. o \in Seq(Npcs) /\ Range(o) = Npcs
  BY OrderOfNpcs
<1> HIDE DEF o
<1>4. Len(o) \in Nat /\ DOMAIN o = 1..Len(o) /\ \A i \in 1..Len(o) : o[i] \in Npcs
  BY <1>3
<1>5. DOMAIN g = 1..Len(o) /\ \A i \in 1..Len(o) : g[i] = Destroy(o[i])
  BY <1>4
<1>6. \A i \in 1..Len(o) : g[i].npc = o[i] /\ g[i].form = "destroy" /\ g[i].host = "same"
  <2> TAKE i \in 1..Len(o)
  <2>1. Destroy(o[i]) = [npc |-> o[i], form |-> "destroy", flag |-> "free", host |-> "same"]
    BY <1>4, MessageTypes
  <2> QED BY <1>5, <2>1
<1> HIDE DEF g
<1>7. ASSUME NEW n \in Npcs
      PROVE  /\ NoHost(g, n) /\ ~LastHostIs(g, n, "start") /\ ~LastHostIs(g, n, "stop")
             /\ ~NoForm(g, n) /\ ~LastFormFree(g, n)
  <2>1. PICK i \in 1..Len(o) : o[i] = n
    BY <1>3, <1>4 DEF Range
  <2>2. NoHost(g, n) /\ ~LastHostIs(g, n, "start") /\ ~LastHostIs(g, n, "stop")
    BY <1>5, <1>6 DEF NoHost, LastHostIs, OfHost
  <2>3. ~NoForm(g, n) /\ ~LastFormFree(g, n)
    BY <1>5, <1>6, <2>1 DEF NoForm, OfForm, LastFormFree
  <2> QED BY <2>2, <2>3
<1>8. \A x \in Clients : said[x] \in Seq(Message)
  BY <1>2
<1>9. queue' \in [Clients -> Seq(Message)] /\ \A x \in Clients : queue'[x] = queue[x] \o said[x]
  <2> HIDE DEF said
  <2> QED BY <1>1, <1>8, ToldTypes
<1>10. \A x \in Clients : queue[x] \in Seq(Message) /\ queue[x] \o << >> = queue[x]
  BY ConcatEmptySeq DEF TypeOK
<1>11. queue'[c] = queue[c] \o g /\ \A x \in Clients : x # c => queue'[x] = queue[x]
  BY <1>9, <1>10
<1> HIDE DEF said
<1>12. /\ listeners' \in [Npcs -> Seq(Clients \cup Npcs)]
       /\ \A n \in Npcs : IsInjective(listeners'[n]) /\ Range(listeners'[n]) = Range(listeners[n]) \ {c}
  BY <1>1, UnlistenTypes
<1>13. /\ conn'[c] = "away" /\ \A x \in Clients : x # c => conn'[x] = conn[x]
  BY <1>1 DEF TypeOK
<1>14. TypeOK'
  BY <1>1, <1>9, <1>12 DEF TypeOK
<1>15. OfflineForgets'
  BY <1>1, <1>11, <1>13 DEF OfflineForgets
<1>16. Listening'
  BY <1>12, <1>13 DEF Listening
<1>17. ASSUME NEW x \in Clients, NEW k \in Npcs PROVE Agrees(x, k)'
  <2> DEFINE q == queue[x]
             h == hosted[x]
             v == view[x][k]
  <2>1. Agrees(x, k)
    BY DEF AllAgree
  <2>2. CASE x # c
    <3>1. queue'[x] = queue[x] /\ conn'[x] = conn[x]
      BY <1>11, <1>13, <2>2
    <3> QED BY <1>1, <2>1, <3>1, NothingNew
  <2>3. CASE x = c
    <3>1. queue'[x] = q \o g
      BY <1>11, <2>3
    <3>2. /\ Hosts(q \o g, h, k) <=> LastHostIs(g, k, "start") \/ (NoHost(g, k) /\ Hosts(q, h, k))
          /\ LastHostIs(q \o g, k, "stop")
               <=> LastHostIs(g, k, "stop") \/ (NoHost(g, k) /\ LastHostIs(q, k, "stop"))
          /\ Frees(q \o g, v, k) <=> LastFormFree(g, k) \/ (NoForm(g, k) /\ Frees(q, v, k))
      BY <1>2, <1>10, Heard, Zenon
    <3>3. /\ Hosts(queue'[x], h, k) <=> Hosts(q, h, k)
          /\ LastHostIs(queue'[x], k, "stop") <=> LastHostIs(q, k, "stop")
          /\ ~Frees(queue'[x], v, k)
      <4> HIDE DEF q, h, v
      <4> QED BY <1>7, <3>1, <3>2
    <3>4. hosted'[x] = h /\ view'[x][k] = v /\ owned'[k] = owned[k] /\ hosters'[k] = hosters[k]
      BY <1>1
    <3> QED BY <2>1, <3>3, <3>4 DEF Agrees
  <2> QED BY <2>2, <2>3
<1> QED BY <1>14, <1>15, <1>16, <1>17 DEF AllAgree

LEMMA DisconnectStep ==
  ASSUME Strong, NEW c \in Clients, Disconnect(c)
  PROVE  Strong'
<1> USE DEF Strong
<1>1. /\ conn' = [conn EXCEPT ![c] = "off"] /\ Unlisten(c)
      /\ queue' = [queue EXCEPT ![c] = << >>]
      /\ attempts' = [attempts EXCEPT ![c] = {}]
      /\ updates' = [updates EXCEPT ![c] = {}]
      /\ view' = [view EXCEPT ![c] = [n \in Npcs |-> "none"]]
      /\ hosted' = [hosted EXCEPT ![c] = {}]
      /\ UNCHANGED <<hosters, lastMov, riding, owned, up>>
  BY DEF Disconnect
<1>2. /\ listeners' \in [Npcs -> Seq(Clients \cup Npcs)]
      /\ \A n \in Npcs : IsInjective(listeners'[n]) /\ Range(listeners'[n]) = Range(listeners[n]) \ {c}
  BY <1>1, UnlistenTypes
<1>3. TypeOK'
  <2>1. << >> \in Seq(Message)
    OBVIOUS
  <2>2. [n \in Npcs |-> "none"] \in [Npcs -> {"none", "free", "other"}]
    OBVIOUS
  <2>3. view' \in [Clients -> [Npcs -> {"none", "free", "other"}]]
    BY <1>1, <2>2 DEF TypeOK
  <2>4. queue' \in [Clients -> Seq(Message)]
    BY <1>1, <2>1 DEF TypeOK
  <2>5. conn' \in [Clients -> {"off", "away", "near"}] /\ attempts' \in [Clients -> SUBSET Npcs]
        /\ updates' \in [Clients -> SUBSET Npcs] /\ hosted' \in [Clients -> SUBSET Npcs]
    BY <1>1 DEF TypeOK
  <2> QED BY <1>1, <1>2, <2>3, <2>4, <2>5 DEF TypeOK
<1>4. /\ conn'[c] = "off" /\ queue'[c] = << >> /\ updates'[c] = {} /\ hosted'[c] = {}
      /\ \A n \in Npcs : view'[c][n] = "none"
  BY <1>1 DEF TypeOK
<1>5. \A x \in Clients : x # c =>
        /\ conn'[x] = conn[x] /\ queue'[x] = queue[x] /\ updates'[x] = updates[x]
        /\ hosted'[x] = hosted[x] /\ view'[x] = view[x]
  BY <1>1 DEF TypeOK
<1>6. OfflineForgets'
  BY <1>4, <1>5 DEF OfflineForgets
<1>7. Listening'
  BY <1>2, <1>4, <1>5 DEF Listening
<1>8. ASSUME NEW x \in Clients, NEW k \in Npcs PROVE Agrees(x, k)'
  <2>1. CASE x # c
    <3>1. Agrees(x, k)
      BY DEF AllAgree
    <3> QED BY <1>1, <1>5, <2>1, <3>1, NothingNew
  <2>2. CASE x = c
    BY <1>4, <2>2, OffAgrees
  <2> QED BY <2>1, <2>2
<1> QED BY <1>3, <1>6, <1>7, <1>8 DEF AllAgree

LEMMA TakeStep ==
  ASSUME Strong, NEW n \in Npcs, Take(n)
  PROVE  Strong'
<1> USE DEF Strong
<1> DEFINE m == Create(n, TRUE)
           said == [c \in Clients |-> IF c \in Near THEN <<m>> ELSE << >>]
<1>1. /\ owned' = [owned EXCEPT ![n] = "now"]
      /\ hosters' = [hosters EXCEPT ![n] = None]
      /\ \E order \in SetToSeqs(Range(listeners[n])) : listeners' = [listeners EXCEPT ![n] = order]
      /\ UNCHANGED <<lastMov, riding, up, conn, attempts, updates, view, hosted>>
      /\ Tell(said, MaxUnread)
  BY DEF Take, Announce, wire, client
<1>2. m \in Message /\ m.npc = n /\ m.form = "create" /\ m.flag = "other" /\ m.host = "same"
  <2>1. TRUE \in BOOLEAN /\ ViewOf(TRUE) = "other"
    BY DEF ViewOf
  <2>2. m \in Message /\ m = [npc |-> n, form |-> "create", flag |-> ViewOf(TRUE), host |-> "same"]
    BY <2>1, MessageTypes, Zenon
  <2> HIDE DEF m
  <2> QED BY <2>1, <2>2
<1> HIDE DEF m
<1>3. \A x \in Clients : said[x] \in Seq(Message)
  BY <1>2
<1>4. queue' \in [Clients -> Seq(Message)] /\ \A x \in Clients : queue'[x] = queue[x] \o said[x]
  <2> HIDE DEF said
  <2> QED BY <1>1, <1>3, ToldTypes
<1>5. \A x \in Clients : queue[x] \in Seq(Message) /\ queue[x] \o << >> = queue[x]
  BY ConcatEmptySeq DEF TypeOK
<1>6. \A x \in Clients : queue'[x] = IF conn[x] = "near" THEN queue[x] \o <<m>> ELSE queue[x]
  BY <1>4, <1>5 DEF Near
<1> HIDE DEF said
<1>7. /\ listeners' \in [Npcs -> Seq(Clients \cup Npcs)]
      /\ \A k \in Npcs : IsInjective(listeners'[k]) /\ Range(listeners'[k]) = Range(listeners[k])
  <2> DEFINE R == Range(listeners[n])
  <2>1. PICK order \in SetToSeqs(R) : listeners' = [listeners EXCEPT ![n] = order]
    BY <1>1
  <2>2. IsFiniteSet(R) /\ R \subseteq Clients \cup Npcs
    BY RangeIsFinite DEF TypeOK
  <2> HIDE DEF R
  <2>3. order \in Seq(R) /\ IsInjective(order) /\ Range(order) = R
    BY <2>1, <2>2, OrderFacts, Zenon
  <2>4. order \in Seq(Clients \cup Npcs)
    BY <2>2, <2>3, SeqMonotonic
  <2>5. listeners' \in [Npcs -> Seq(Clients \cup Npcs)]
    BY <2>1, <2>4 DEF TypeOK
  <2>6. ASSUME NEW k \in Npcs
        PROVE  IsInjective(listeners'[k]) /\ Range(listeners'[k]) = Range(listeners[k])
    <3>1. CASE k = n
      <4>1. listeners'[k] = order
        BY <2>1, <3>1 DEF TypeOK
      <4> QED BY <2>3, <3>1, <4>1, Zenon DEF R
    <3>2. CASE k # n
      <4>1. listeners'[k] = listeners[k]
        BY <2>1, <3>2 DEF TypeOK
      <4> QED BY <4>1, Zenon DEF Listening
    <3> QED BY <3>1, <3>2
  <2> QED BY <2>5, <2>6
<1>8. owned' \in [Npcs -> {"animal", "never", "now", "left"}] /\ hosters' \in [Npcs -> Clients \cup {None}]
      /\ owned'[n] = "now" /\ hosters'[n] = None
      /\ \A k \in Npcs : k # n => owned'[k] = owned[k] /\ hosters'[k] = hosters[k]
  BY <1>1 DEF TypeOK
<1>9. TypeOK'
  BY <1>1, <1>4, <1>7, <1>8 DEF TypeOK
<1>10. OfflineForgets'
  BY <1>1, <1>6 DEF OfflineForgets
<1>11. Listening'
  BY <1>1, <1>7 DEF Listening
<1>12. ASSUME NEW x \in Clients, NEW k \in Npcs PROVE Agrees(x, k)'
  <2> DEFINE q == queue[x]
             h == hosted[x]
             v == view[x][k]
  <2>1. Agrees(x, k)
    BY DEF AllAgree
  <2>2. hosted'[x] = h /\ view'[x] = view[x] /\ view'[x][k] = v /\ conn'[x] = conn[x]
    BY <1>1
  <2>3. /\ Hosts(q \o <<m>>, h, k)
             <=> (m.npc = k /\ m.host = "start") \/ (~OfHost(m, k) /\ Hosts(q, h, k))
        /\ LastHostIs(q \o <<m>>, k, "stop")
             <=> (m.npc = k /\ m.host = "stop") \/ (~OfHost(m, k) /\ LastHostIs(q, k, "stop"))
        /\ Frees(q \o <<m>>, v, k) <=> SaysFree(m, k) \/ (~OfForm(m, k) /\ Frees(q, v, k))
    BY <1>2, <1>5, HeardOne, Zenon
  <2>4. ~SaysFree(m, k) /\ ~OfHost(m, k) /\ (OfForm(m, k) <=> k = n)
    BY <1>2 DEF SaysFree, OfHost, OfForm
  <2>5. /\ Hosts(q \o <<m>>, h, k) <=> Hosts(q, h, k)
        /\ LastHostIs(q \o <<m>>, k, "stop") <=> LastHostIs(q, k, "stop")
        /\ Frees(q \o <<m>>, v, k) <=> (k # n /\ Frees(q, v, k))
    <3> HIDE DEF q, h, v
    <3> QED BY <1>2, <2>3, <2>4
  <2>6. /\ Hosts(queue'[x], h, k) => Hosts(q, h, k)
        /\ LastHostIs(queue'[x], k, "stop") => LastHostIs(q, k, "stop")
        /\ Frees(queue'[x], v, k) => Frees(q, v, k) /\ k # n
    <3>1. CASE conn[x] = "near"
      <4>1. queue'[x] = q \o <<m>>
        BY <1>6, <3>1
      <4> HIDE DEF q, h, v
      <4> QED BY <2>5, <4>1
    <3>2. CASE conn[x] # "near"
      <4>1. queue'[x] = q
        BY <1>6, <3>2
      <4>2. ~Frees(q, v, k)
        BY <2>1, <3>2 DEF Agrees
      <4> HIDE DEF q, h, v
      <4> QED BY <4>1, <4>2
    <3> QED BY <3>1, <3>2
  <2>7. x # None
    BY ConstantsAssumption
  <2>8. CASE k = n
    BY <1>8, <2>2, <2>6, <2>7, <2>8 DEF Agrees
  <2>9. CASE k # n
    BY <1>8, <2>1, <2>2, <2>6, <2>9 DEF Agrees
  <2> QED BY <2>8, <2>9
<1> QED BY <1>9, <1>10, <1>11, <1>12 DEF AllAgree
\* What only clients, owners and time do: nobody is told anything.
LEMMA QuietStep ==
  ASSUME Strong, TypeOK',
         UNCHANGED <<hosters, listeners, conn, queue, view, hosted>>,
         \A n \in Npcs : owned'[n] = owned[n] \/ (owned[n] = "now" /\ owned'[n] = "left"),
         \A c \in Clients : conn[c] = "off" => updates'[c] = {}
  PROVE  Strong'
<1>1. OfflineForgets' /\ Listening'
  BY DEF Strong, OfflineForgets, Listening
<1>2. AllAgree'
  BY DEF Strong, AllAgree, Agrees
<1> QED BY <1>1, <1>2 DEF Strong

LEMMA OthersStep ==
  ASSUME Strong,
         \/ \E c \in Clients : \/ Lose(c) \/ \E late \in BOOLEAN : Frame(c, late)
                               \/ \E horse \in Animals \cup {None}, covered \in SUBSET Npcs :
                                    OnOwnMovement(c, horse, covered)
         \/ \E n \in Npcs : OwnerMoves(n) \/ Abandon(n)
         \/ Tick
  PROVE  Strong'
<1>1. ASSUME NEW c \in Clients, Lose(c) PROVE Strong'
  <2>1. /\ attempts' \in [Clients -> SUBSET Npcs] /\ updates' \in [Clients -> SUBSET Npcs]
        /\ \A x \in Clients : updates'[x] \subseteq updates[x]
        /\ UNCHANGED <<hosters, lastMov, riding, owned, listeners, up, conn, queue, view, hosted>>
    <3>1. PICK n \in Npcs :
            \/ attempts' = [attempts EXCEPT ![c] = @ \ {n}] /\ UNCHANGED updates
            \/ updates' = [updates EXCEPT ![c] = @ \ {n}] /\ UNCHANGED attempts
      BY <1>1 DEF Lose
    <3>2. UNCHANGED <<hosters, lastMov, riding, owned, listeners, up, conn, queue, view, hosted>>
      BY <1>1 DEF Lose, server, client
    <3>3. /\ attempts' \in [Clients -> SUBSET Npcs] /\ updates' \in [Clients -> SUBSET Npcs]
          /\ \A x \in Clients : updates'[x] \subseteq updates[x]
      <4>1. /\ attempts \in [Clients -> SUBSET Npcs] /\ updates \in [Clients -> SUBSET Npcs]
            /\ attempts[c] \ {n} \in SUBSET Npcs /\ updates[c] \ {n} \in SUBSET Npcs
        BY DEF Strong, TypeOK
      <4>2. CASE attempts' = [attempts EXCEPT ![c] = attempts[c] \ {n}] /\ updates' = updates
        BY <4>1, <4>2
      <4>3. CASE updates' = [updates EXCEPT ![c] = updates[c] \ {n}] /\ attempts' = attempts
        BY <4>1, <4>3
      <4> QED BY <3>1, <4>2, <4>3
    <3> QED BY <3>2, <3>3
  <2>2. TypeOK'
    BY <2>1 DEF Strong, TypeOK
  <2>3. \A x \in Clients : conn[x] = "off" => updates'[x] = {}
    BY <2>1 DEF Strong, OfflineForgets
  <2> QED BY <2>1, <2>2, <2>3, QuietStep
<1>2. ASSUME NEW c \in Clients, NEW late \in BOOLEAN, Frame(c, late) PROVE Strong'
  <2>1. Forms(c) \subseteq Npcs /\ Tries(c, late) \subseteq Npcs
    BY DEF Forms, Tries
  <2>2. /\ attempts' \in [Clients -> SUBSET Npcs] /\ updates' \in [Clients -> SUBSET Npcs]
        /\ \A x \in Clients : x # c => updates'[x] = updates[x]
        /\ conn[c] # "off"
        /\ UNCHANGED <<hosters, lastMov, riding, owned, listeners, up, conn, queue, view, hosted>>
    BY <1>2, <2>1 DEF Frame, server, client, Online, Strong, TypeOK
  <2>3. TypeOK'
    BY <2>2 DEF Strong, TypeOK
  <2>4. \A x \in Clients : conn[x] = "off" => updates'[x] = {}
    BY <2>2 DEF Strong, OfflineForgets
  <2> QED BY <2>2, <2>3, <2>4, QuietStep
<1>3. ASSUME NEW c \in Clients, NEW horse \in Animals \cup {None}, NEW covered \in SUBSET Npcs,
             OnOwnMovement(c, horse, covered)
      PROVE  Strong'
  <2>1. /\ riding' \in [Clients -> Npcs \cup {None}]
        /\ lastMov' \in [Npcs -> {"missing", "old", "recent"}]
        /\ UNCHANGED <<hosters, owned, listeners, up, conn, queue, attempts, updates, view, hosted>>
    BY <1>3, ResizeTypes DEF OnOwnMovement, wire, client, Animals, Strong, TypeOK
  <2>2. TypeOK'
    BY <2>1 DEF Strong, TypeOK
  <2>3. \A x \in Clients : conn[x] = "off" => updates'[x] = {}
    BY <2>1 DEF Strong, OfflineForgets
  <2> QED BY <2>1, <2>2, <2>3, QuietStep
<1>4. ASSUME NEW n \in Npcs, OwnerMoves(n) PROVE Strong'
  <2>1. /\ lastMov' \in [Npcs -> {"missing", "old", "recent"}]
        /\ UNCHANGED <<hosters, riding, owned, listeners, up, conn, queue, attempts, updates, view, hosted>>
    BY <1>4, ResizeTypes DEF OwnerMoves, wire, client, Strong
  <2>2. TypeOK'
    BY <2>1 DEF Strong, TypeOK
  <2>3. \A x \in Clients : conn[x] = "off" => updates'[x] = {}
    BY <2>1 DEF Strong, OfflineForgets
  <2> QED BY <2>1, <2>2, <2>3, QuietStep
<1>5. ASSUME NEW n \in Npcs, Abandon(n) PROVE Strong'
  <2>1. /\ owned' \in [Npcs -> {"animal", "never", "now", "left"}]
        /\ \A k \in Npcs : owned'[k] = owned[k] \/ (owned[k] = "now" /\ owned'[k] = "left")
        /\ UNCHANGED <<hosters, lastMov, riding, listeners, up, conn, queue, attempts, updates, view, hosted>>
    BY <1>5 DEF Abandon, wire, client, Strong, TypeOK
  <2>2. TypeOK'
    BY <2>1 DEF Strong, TypeOK
  <2>3. \A x \in Clients : conn[x] = "off" => updates'[x] = {}
    BY <2>1 DEF Strong, OfflineForgets
  <2> QED BY <2>1, <2>2, <2>3, QuietStep
<1>6. ASSUME Tick PROVE Strong'
  <2>1. /\ lastMov' \in [Npcs -> {"missing", "old", "recent"}]
        /\ UNCHANGED <<hosters, riding, owned, listeners, up, conn, queue, attempts, updates, view, hosted>>
    BY <1>6 DEF Tick, wire, client, Strong, TypeOK
  <2>2. TypeOK'
    BY <2>1 DEF Strong, TypeOK
  <2>3. \A x \in Clients : conn[x] = "off" => updates'[x] = {}
    BY <2>1 DEF Strong, OfflineForgets
  <2> QED BY <2>1, <2>2, <2>3, QuietStep
<1> QED BY <1>1, <1>2, <1>3, <1>4, <1>5, <1>6

\* Reading does not change what a client ends up with.
LEMMA ReadStep ==
  ASSUME Strong, NEW c \in Clients, Read(c)
  PROVE  Strong'
<1> USE DEF Strong
<1> DEFINE q == queue[c]
           m == Head(q)
           t == Tail(q)
<1>1. /\ q # << >> /\ queue' = [queue EXCEPT ![c] = t]
      /\ view' = [view EXCEPT ![c][m.npc] = ShownAs(m, @)]
      /\ hosted' = [hosted EXCEPT ![c] = HostedAs(m, @)]
      /\ UNCHANGED <<hosters, lastMov, riding, owned, listeners, up, conn, attempts, updates>>
  BY DEF Read, server, wire
<1>2. q \in Seq(Message)
  BY DEF TypeOK
<1>3. m \in Message /\ t \in Seq(Message) /\ q = <<m>> \o t
  <2>1. m \in Message /\ t \in Seq(Message)
    BY <1>1, <1>2, HeadTailProperties
  <2>2. q = <<m>> \o t
    BY <1>1, <1>2
  <2> QED BY <2>1, <2>2
<1> HIDE DEF q, m, t
<1>4. m.npc \in Npcs /\ m.form \in {"create", "destroy", "flag", "same"} /\ m.flag \in Views
      /\ m.host \in {"start", "stop", "same"}
  BY <1>3 DEF Message
<1>5. /\ queue'[c] = t /\ hosted'[c] = HostedAs(m, hosted[c])
      /\ \A k \in Npcs : view'[c][k] = IF k = m.npc THEN ShownAs(m, view[c][k]) ELSE view[c][k]
      /\ \A x \in Clients : x # c => queue'[x] = queue[x] /\ hosted'[x] = hosted[x] /\ view'[x] = view[x]
  BY <1>1, <1>4 DEF TypeOK
<1>6. \A now \in {"none", "free", "other"} : ShownAs(m, now) \in {"none", "free", "other"}
  BY <1>4 DEF ShownAs, Views
<1>7. \A now \in SUBSET Npcs : HostedAs(m, now) \in SUBSET Npcs
  BY <1>4 DEF HostedAs
<1>8. TypeOK'
  <2>1. hosted' \in [Clients -> SUBSET Npcs]
    BY <1>1, <1>7 DEF TypeOK
  <2>2. view[c] \in [Npcs -> {"none", "free", "other"}] /\ view[c][m.npc] \in {"none", "free", "other"}
    BY <1>4 DEF TypeOK
  <2>3. [view[c] EXCEPT ![m.npc] = ShownAs(m, @)] \in [Npcs -> {"none", "free", "other"}]
    BY <1>4, <1>6, <2>2
  <2>4. view' = [view EXCEPT ![c] = [view[c] EXCEPT ![m.npc] = ShownAs(m, @)]]
    BY <1>1
  <2>5. view' \in [Clients -> [Npcs -> {"none", "free", "other"}]]
    BY <2>3, <2>4 DEF TypeOK
  <2>6. queue' \in [Clients -> Seq(Message)]
    BY <1>1, <1>3 DEF TypeOK
  <2> QED BY <1>1, <2>1, <2>5, <2>6 DEF TypeOK
<1>9. conn[c] # "off"
  BY <1>1 DEF OfflineForgets, q
<1>10. OfflineForgets' /\ Listening'
  BY <1>1, <1>5, <1>9 DEF OfflineForgets, Listening
<1>11. ASSUME NEW x \in Clients, NEW k \in Npcs PROVE Agrees(x, k)'
  <2>1. Agrees(x, k)
    BY DEF AllAgree
  <2>2. CASE x # c
    BY <1>1, <1>5, <2>1, <2>2, NothingNew
  <2>3. CASE x = c
    <3> DEFINE h == hosted[c]
               v == view[c][k]
    <3>1. /\ Hosts(q, h, k) <=> LastHostIs(t, k, "start") \/ (NoHost(t, k) /\ Hosts(<<m>>, h, k))
          /\ LastHostIs(q, k, "stop")
               <=> LastHostIs(t, k, "stop") \/ (NoHost(t, k) /\ LastHostIs(<<m>>, k, "stop"))
          /\ Frees(q, v, k) <=> LastFormFree(t, k) \/ (NoForm(t, k) /\ Frees(<<m>>, v, k))
      <4>1. <<m>> \in Seq(Message)
        BY <1>3
      <4> QED BY <1>3, <4>1, Heard, Zenon
    <3>2. /\ Hosts(<<m>>, h, k) <=> (m.npc = k /\ m.host = "start") \/ (k \in h /\ ~OfHost(m, k))
          /\ Frees(<<m>>, v, k) <=> SaysFree(m, k) \/ (v = "free" /\ ~OfForm(m, k))
      BY <1>3, OneSaid, Zenon DEF Hosts, Frees
    <3>3. k \in HostedAs(m, h) <=> (m.npc = k /\ m.host = "start") \/ (k \in h /\ ~OfHost(m, k))
      BY <1>4 DEF HostedAs, OfHost
    <3>4. (IF k = m.npc THEN ShownAs(m, v) ELSE v) = "free"
            => SaysFree(m, k) \/ (v = "free" /\ ~OfForm(m, k))
      BY <1>4 DEF ShownAs, SaysFree, OfForm
    <3>5. Hosts(queue'[c], hosted'[c], k) <=> Hosts(q, h, k)
      BY <1>5, <3>1, <3>2, <3>3 DEF Hosts
    <3>6. Frees(queue'[c], view'[c][k], k) => Frees(q, v, k)
      BY <1>5, <3>1, <3>2, <3>4 DEF Frees
    <3>7. LastHostIs(queue'[c], k, "stop") => LastHostIs(q, k, "stop")
      BY <1>5, <3>1
    <3> QED BY <1>1, <2>1, <2>3, <3>5, <3>6, <3>7 DEF Agrees, q
  <2> QED BY <2>2, <2>3
<1> QED BY <1>8, <1>10, <1>11 DEF AllAgree
LEMMA StrongStep == Strong /\ [Next]_vars => Strong'
<1> SUFFICES ASSUME Strong, [Next]_vars PROVE Strong'
  OBVIOUS
<1>1. CASE UNCHANGED vars
  <2>1. UNCHANGED <<hosters, lastMov, riding, owned, listeners, up, conn, queue, attempts, updates, view, hosted>>
    BY <1>1 DEF vars, server, wire, client
  <2>2. TypeOK'
    BY <2>1 DEF Strong, TypeOK
  <2>3. \A c \in Clients : conn[c] = "off" => updates'[c] = {}
    BY <2>1 DEF Strong, OfflineForgets
  <2> QED BY <2>1, <2>2, <2>3, QuietStep
<1>2. ASSUME NEW c \in Clients, Arrive(c) \/ Leave(c) \/ Disconnect(c) \/ Read(c) PROVE Strong'
  BY <1>2, ArriveStep, LeaveStep, DisconnectStep, ReadStep
<1>3. ASSUME NEW c \in Clients, NEW n \in Npcs, OnHostAttempt(c, n) PROVE Strong'
  BY <1>3, HostAttemptStep
<1>4. ASSUME NEW c \in Clients, NEW n \in Npcs, NEW valid \in BOOLEAN, OnUpdateMovement(c, n, valid)
      PROVE  Strong'
  BY <1>4, UpdateMovementStep
<1>5. ASSUME NEW n \in Npcs, Take(n) PROVE Strong'
  BY <1>5, TakeStep
<1>6. ASSUME \/ \E c \in Clients : \/ Lose(c) \/ \E late \in BOOLEAN : Frame(c, late)
                                   \/ \E horse \in Animals \cup {None}, covered \in SUBSET Npcs :
                                        OnOwnMovement(c, horse, covered)
             \/ \E n \in Npcs : OwnerMoves(n) \/ Abandon(n)
             \/ Tick
      PROVE  Strong'
  BY <1>6, OthersStep
<1> QED BY <1>1, <1>2, <1>3, <1>4, <1>5, <1>6, Zenon DEF Next

\* What Strong says of queues, views and hosters holds in every state, whatever is lost,
\* late or unread (OnHostAttempt, SendToNeighbours, CreateFormCallbacks).
THEOREM StrongHolds == Spec => []Strong
<1> QED BY InitStrong, StrongStep, PTL DEF Spec

-----------------------------------------------------------------------------
(* What the runs check, for every instance.                                *)

LEMMA StrongMeans == Strong => Inv /\ HostsAreHosters
<1> SUFFICES ASSUME Strong PROVE Inv /\ HostsAreHosters
  OBVIOUS
<1>1. \A c \in Clients, n \in Npcs :
        /\ WillHost(c, n) <=> Hosts(queue[c], hosted[c], n)
        /\ WillBeFree(c, n) <=> Frees(queue[c], view[c][n], n)
  BY DEF WillHost, WillBeFree, Hosts, Frees, NoHost, NoForm
<1>2. TypeOK /\ \A c \in Clients, n \in Npcs : Agrees(c, n)
  BY DEF Strong, AllAgree
<1>3. HostsAreHosters /\ HosterNotStopped /\ FreeMeansFree
  BY <1>1, <1>2 DEF Agrees, HostsAreHosters, HosterNotStopped, FreeMeansFree
<1> QED BY <1>2, <1>3 DEF Inv

\* The hoster of an actor is never told last to stop, and a client that may ask for an
\* actor, once it has read everything, does so for one that nobody else drives or hosts
\* (UpdateHoster, OnHostAttempt, SendToNeighbours, isHostedByOther).
THEOREM InvHolds == Spec => []Inv
<1> QED BY StrongHolds, StrongMeans, PTL

\* Two clients never go on simulating one actor: whoever will host it, when it has read
\* what it was sent, is its hoster (HostStart and HostStop of OnHostAttempt).
THEOREM HostsAreHostersHolds == Spec => []HostsAreHosters
<1> QED BY StrongHolds, StrongMeans, PTL
=============================================================================
