--------------------------- MODULE Outbound_proofs ---------------------------
(***************************************************************************)
(* Proofs about Outbound, for any lists of actions, nested to any depth,   *)
(* and any number of failing calls.                                        *)
(***************************************************************************)
EXTENDS Outbound, FiniteSetTheorems, SequenceTheorems, WellFoundedInduction, TLAPS

-----------------------------------------------------------------------------
(***************************************************************************)
(* Sequences of steps: what they do, mark and count, with one step more or *)
(* less at the front and end to end.                                       *)
(***************************************************************************)

LEMMA StepsType ==
  /\ \A m \in {"busy", "ok", "bad"} : React(m) \in Steps
  /\ \A d \in Media \cup {"send", "persist", "record", "job", "mute", "dispatch", "await",
                          "socket"} : Step(d) \in Steps
  BY DEF Steps

LEMMA StepMarks ==
  ASSUME NEW x \in Steps
  PROVE  /\ x.do # "react" => x.mark = "none"
         /\ x.mark \in {"none", "busy", "ok", "bad"}
         /\ x.do = "react" => x.mark # "none"
  BY DEF Steps, React, Step, Media

LEMMA InDoes ==
  ASSUME NEW s, NEW x
  PROVE  /\ x \in Does(s) <=> \E k \in DOMAIN s : s[k].do = x
         /\ x \in Marks(s) <=> \E k \in DOMAIN s : s[k].mark = x
<1>1. x \in Does(s) <=> \E k \in DOMAIN s : s[k].do = x
  BY DEF Does
<1>2. x \in Marks(s) <=> \E k \in DOMAIN s : s[k].mark = x
  BY DEF Marks
<1> QED
  BY <1>1, <1>2

\* The parts of a sequence with its head taken off.
LEMMA TailSteps ==
  ASSUME NEW s \in Seq(Steps), s # <<>>
  PROVE  /\ Tail(s) \in Seq(Steps) /\ Head(s) = s[1] /\ s[1] \in Steps
         /\ Len(s) \in Nat /\ Len(s) > 0 /\ Len(Tail(s)) = Len(s) - 1
         /\ \A k \in 1..Len(s) - 1 : Tail(s)[k] = s[k + 1]
         /\ DOMAIN s = 1..Len(s) /\ DOMAIN Tail(s) = 1..Len(s) - 1
  OBVIOUS

LEMMA TailLong ==
  ASSUME NEW s \in Seq(Steps), Len(s) > 1
  PROVE  Tail(s) # <<>> /\ Tail(s)[1] = s[2] /\ s # <<>>
<1>1. s # <<>>
  OBVIOUS
<1>2. Len(Tail(s)) = Len(s) - 1 /\ Len(s) \in Nat
  BY <1>1, TailSteps
<1>3. 1 \in 1..Len(s) - 1
  BY <1>2
<1>4. Tail(s)[1] = s[1 + 1]
  BY <1>1, <1>3, TailSteps
<1>5. Tail(s) # <<>>
  <2>1. Len(<<>>) = 0
    OBVIOUS
  <2>2. ASSUME Tail(s) = <<>> PROVE Len(Tail(s)) = 0
    BY <2>1, <2>2, Zenon
  <2> QED
    BY <1>2, <2>2
<1> QED
  BY <1>1, <1>4, <1>5

\* The parts of two sequences end to end.
LEMMA CatSteps ==
  ASSUME NEW s \in Seq(Steps), NEW t \in Seq(Steps)
  PROVE  /\ s \o t \in Seq(Steps) /\ Len(s \o t) = Len(s) + Len(t)
         /\ Len(s) \in Nat /\ Len(t) \in Nat
         /\ DOMAIN s = 1..Len(s) /\ DOMAIN t = 1..Len(t)
         /\ DOMAIN (s \o t) = 1..Len(s) + Len(t)
         /\ \A k \in 1..Len(s) : (s \o t)[k] = s[k]
         /\ \A k \in 1..Len(t) : (s \o t)[Len(s) + k] = t[k]
         /\ \A k \in 1..Len(s) + Len(t) :
              k \in 1..Len(s) \/ (k - Len(s) \in 1..Len(t) /\ (s \o t)[k] = t[k - Len(s)])
         /\ s # <<>> => s \o t # <<>> /\ Len(s) > 0
         /\ t # <<>> => s \o t # <<>> /\ Len(t) > 0
         /\ s = <<>> => s \o t = t
  OBVIOUS

LEMMA CatHead ==
  ASSUME NEW s \in Seq(Steps), NEW t \in Seq(Steps), s # <<>>
  PROVE  Head(s \o t) = Head(s) /\ s \o t # <<>>
<1>1. 1 \in 1..Len(s) /\ Head(s) = s[1]
  BY TailSteps
<1>2. (s \o t)[1] = s[1]
  BY <1>1, CatSteps
<1>3. s \o t \in Seq(Steps) /\ s \o t # <<>>
  BY CatSteps
<1>4. Head(s \o t) = (s \o t)[1]
  BY <1>3, TailSteps, Zenon
<1> QED
  BY <1>1, <1>2, <1>3, <1>4

LEMMA Regroup ==
  ASSUME NEW r \in Seq(Steps), NEW s \in Seq(Steps), NEW t \in Seq(Steps)
  PROVE  (r \o s) \o t = r \o (s \o t)
  BY ConcatAssociative

LEMMA Joined ==
  ASSUME NEW s, NEW t, NEW u,
         \A k \in DOMAIN s : \E j \in DOMAIN u : s[k] = u[j],
         \A k \in DOMAIN t : \E j \in DOMAIN u : t[k] = u[j],
         \A j \in DOMAIN u :
           (\E k \in DOMAIN s : u[j] = s[k]) \/ (\E k \in DOMAIN t : u[j] = t[k])
  PROVE  Does(u) = Does(s) \cup Does(t) /\ Marks(u) = Marks(s) \cup Marks(t)
<1>1. ASSUME NEW x
      PROVE  x \in Does(u) <=> x \in Does(s) \/ x \in Does(t)
  <2>1. x \in Does(u) <=> \E k \in DOMAIN u : u[k].do = x
    BY InDoes
  <2>2. x \in Does(s) <=> \E k \in DOMAIN s : s[k].do = x
    BY InDoes
  <2>3. x \in Does(t) <=> \E k \in DOMAIN t : t[k].do = x
    BY InDoes
  <2> QED
    BY <2>1, <2>2, <2>3
<1>2. ASSUME NEW x
      PROVE  x \in Marks(u) <=> x \in Marks(s) \/ x \in Marks(t)
  <2>1. x \in Marks(u) <=> \E k \in DOMAIN u : u[k].mark = x
    BY InDoes
  <2>2. x \in Marks(s) <=> \E k \in DOMAIN s : s[k].mark = x
    BY InDoes
  <2>3. x \in Marks(t) <=> \E k \in DOMAIN t : t[k].mark = x
    BY InDoes
  <2> QED
    BY <2>1, <2>2, <2>3
<1> QED
  BY <1>1, <1>2

LEMMA CatDoes ==
  ASSUME NEW s \in Seq(Steps), NEW t \in Seq(Steps)
  PROVE  /\ Does(s \o t) = Does(s) \cup Does(t)
         /\ Marks(s \o t) = Marks(s) \cup Marks(t)
<1>1. \A k \in DOMAIN s : \E j \in DOMAIN (s \o t) : s[k] = (s \o t)[j]
  <2> TAKE k \in DOMAIN s
  <2>1. k \in DOMAIN (s \o t) /\ s[k] = (s \o t)[k]
    BY CatSteps
  <2> QED
    BY <2>1
<1>2. \A k \in DOMAIN t : \E j \in DOMAIN (s \o t) : t[k] = (s \o t)[j]
  <2> TAKE k \in DOMAIN t
  <2>1. Len(s) + k \in DOMAIN (s \o t) /\ t[k] = (s \o t)[Len(s) + k]
    BY CatSteps
  <2> QED
    BY <2>1
<1>3. \A j \in DOMAIN (s \o t) :
        \/ \E k \in DOMAIN s : (s \o t)[j] = s[k]
        \/ \E k \in DOMAIN t : (s \o t)[j] = t[k]
  <2> SUFFICES ASSUME NEW j \in DOMAIN (s \o t), j \notin DOMAIN s
               PROVE  \E k \in DOMAIN t : (s \o t)[j] = t[k]
    BY CatSteps
  <2>1. j - Len(s) \in DOMAIN t /\ (s \o t)[j] = t[j - Len(s)]
    BY CatSteps
  <2> QED
    BY <2>1
<1> QED
  BY <1>1, <1>2, <1>3, Joined

LEMMA OneDoes ==
  ASSUME NEW x
  PROVE  Does(<<x>>) = {x.do} /\ Marks(<<x>>) = {x.mark}
  BY DEF Does, Marks

LEMMA TailDoes ==
  ASSUME NEW s \in Seq(Steps), s # <<>>
  PROVE  /\ Does(s) = {Head(s).do} \cup Does(Tail(s))
         /\ Marks(s) = {Head(s).mark} \cup Marks(Tail(s))
<1>1. s = <<Head(s)>> \o Tail(s)
  BY TailSteps
<1>2. <<Head(s)>> \in Seq(Steps) /\ Tail(s) \in Seq(Steps)
  BY TailSteps
<1>3. /\ Does(<<Head(s)>> \o Tail(s)) = Does(<<Head(s)>>) \cup Does(Tail(s))
      /\ Marks(<<Head(s)>> \o Tail(s)) = Marks(<<Head(s)>>) \cup Marks(Tail(s))
  BY <1>2, CatDoes, Zenon
<1>4. Does(<<Head(s)>>) = {Head(s).do} /\ Marks(<<Head(s)>>) = {Head(s).mark}
  BY OneDoes
<1> QED
  BY <1>1, <1>3, <1>4, Zenon

\* Counting.
Counted(s, d) == {k \in DOMAIN s : s[k].do \in {d, "dispatch"}}

LEMMA CountType ==
  ASSUME NEW s \in Seq(Steps), NEW d
  PROVE  /\ IsFiniteSet(Counted(s, d)) /\ Counted(s, d) \subseteq 1..Len(s)
         /\ Count(s, d) = Cardinality(Counted(s, d)) /\ Count(s, d) \in Nat
<1>1. Len(s) \in Nat /\ DOMAIN s = 1..Len(s) /\ Counted(s, d) \subseteq 1..Len(s)
  BY DEF Counted
<1>2. IsFiniteSet(1..Len(s))
  BY <1>1, FS_Interval
<1>3. IsFiniteSet(Counted(s, d))
  BY <1>1, <1>2, FS_Subset
<1> QED
  BY <1>1, <1>3, FS_CardinalityType DEF Count, Counted

\* A set of places moved by n has as many members.
LEMMA Moved ==
  ASSUME NEW S, IsFiniteSet(S), S \subseteq Nat, NEW n \in Nat
  PROVE  LET T == {k + n : k \in S} IN IsFiniteSet(T) /\ Cardinality(T) = Cardinality(S)
<1> DEFINE T == {k + n : k \in S}
           f == [k \in S |-> k + n]
<1>1. f \in [S -> T]
  OBVIOUS
<1>2. \A j, k \in S : f[j] = f[k] => j = k
  OBVIOUS
<1>3. \A x \in T : \E k \in S : f[k] = x
  OBVIOUS
<1> HIDE DEF f, T
<1>4. ExistsBijection(S, T)
  BY <1>1, <1>2, <1>3
  DEF ExistsBijection, Bijection, Injection, Surjection, IsInjective
<1>5. IsFiniteSet(T) /\ Cardinality(T) = Cardinality(S)
  BY <1>4, FS_Bijection
<1> QED
  BY <1>5 DEF T

LEMMA CountEmpty == \A d : Count(<<>>, d) = 0
<1> TAKE d
<1>1. {k \in DOMAIN <<>> : <<>>[k].do \in {d, "dispatch"}} = {}
  OBVIOUS
<1> QED
  BY <1>1, FS_EmptySet DEF Count

LEMMA CountOne ==
  ASSUME NEW x \in Steps, NEW d
  PROVE  Count(<<x>>, d) = IF x.do \in {d, "dispatch"} THEN 1 ELSE 0
<1> DEFINE C == {k \in DOMAIN <<x>> : <<x>>[k].do \in {d, "dispatch"}}
<1>1. C = IF x.do \in {d, "dispatch"} THEN {1} ELSE {}
  OBVIOUS
<1> QED
  BY <1>1, FS_EmptySet, FS_Singleton DEF Count

LEMMA CountCat ==
  ASSUME NEW s \in Seq(Steps), NEW t \in Seq(Steps), NEW d
  PROVE  Count(s \o t, d) = Count(s, d) + Count(t, d)
<1> DEFINE M == {k + Len(s) : k \in Counted(t, d)}
<1>1. Counted(s \o t, d) = Counted(s, d) \cup M
  <2>1. \A k \in Counted(s, d) : k \in Counted(s \o t, d)
    BY CatSteps DEF Counted
  <2>2. \A k \in Counted(t, d) : k + Len(s) \in Counted(s \o t, d)
    BY CatSteps DEF Counted
  <2>3. ASSUME NEW k \in Counted(s \o t, d) PROVE k \in Counted(s, d) \cup M
    <3>1. CASE k \in 1..Len(s)
      BY <3>1, <2>3, CatSteps DEF Counted
    <3>2. CASE k \notin 1..Len(s)
      <4>1. k - Len(s) \in Counted(t, d) /\ k = (k - Len(s)) + Len(s)
        BY <3>2, <2>3, CatSteps DEF Counted
      <4> QED
        BY <4>1
    <3> QED
      BY <3>1, <3>2
  <2> QED
    BY <2>1, <2>2, <2>3
<1>2. Counted(s, d) \cap M = {}
  <2>1. \A k \in Counted(s, d) : k \in Nat /\ k <= Len(s)
    BY CatSteps DEF Counted
  <2>2. \A k \in Counted(t, d) : k \in Nat /\ k > 0
    BY CatSteps DEF Counted
  <2> QED
    BY <2>1, <2>2, CatSteps
<1>3. IsFiniteSet(M) /\ Cardinality(M) = Count(t, d)
  <2>1. IsFiniteSet(Counted(t, d)) /\ Counted(t, d) \subseteq Nat /\ Len(s) \in Nat
    BY CountType, CatSteps
  <2>2. IsFiniteSet(M) /\ Cardinality(M) = Cardinality(Counted(t, d))
    BY <2>1, Moved, Zenon
  <2> QED
    BY <2>2, CountType
<1>4. Cardinality(Counted(s, d) \cup M) =
        Cardinality(Counted(s, d)) + Cardinality(M) - Cardinality(Counted(s, d) \cap M)
  BY <1>3, CountType, FS_Union
<1>5. Cardinality(Counted(s, d) \cap M) = 0
  BY <1>2, FS_EmptySet
<1>6. s \o t \in Seq(Steps)
  BY CatSteps
<1> HIDE DEF M
<1>7. Count(s \o t, d) = Cardinality(Counted(s, d) \cup M)
  BY <1>1, <1>6, CountType
<1> QED
  BY <1>3, <1>4, <1>5, <1>7, CountType

LEMMA CountCons ==
  ASSUME NEW x \in Steps, NEW t \in Seq(Steps), NEW d
  PROVE  Count(<<x>> \o t, d) = Count(t, d) + IF x.do \in {d, "dispatch"} THEN 1 ELSE 0
<1>1. <<x>> \in Seq(Steps)
  OBVIOUS
<1>2. Count(<<x>> \o t, d) = Count(<<x>>, d) + Count(t, d)
  BY <1>1, CountCat
<1>3. Count(t, d) \in Nat
  BY CountType
<1> QED
  BY <1>2, <1>3, CountOne

LEMMA CountTail ==
  ASSUME NEW s \in Seq(Steps), s # <<>>, NEW d
  PROVE  Count(s, d) = Count(Tail(s), d) + IF Head(s).do \in {d, "dispatch"} THEN 1 ELSE 0
<1>1. s = <<Head(s)>> \o Tail(s)
  BY TailSteps
<1>2. Head(s) \in Steps /\ Tail(s) \in Seq(Steps)
  BY TailSteps
<1>3. Count(<<Head(s)>> \o Tail(s), d)
        = Count(Tail(s), d) + IF Head(s).do \in {d, "dispatch"} THEN 1 ELSE 0
  BY <1>2, CountCons, Zenon
<1> QED
  BY <1>1, <1>3, Zenon

-----------------------------------------------------------------------------
(***************************************************************************)
(* The plans, put together from their pieces.                              *)
(***************************************************************************)

\* What a piece does, marks and counts.
Looks(s, D, M, c) ==
  s \in Seq(Steps) /\ Does(s) = D /\ Marks(s) = M /\ \A d \in Replies : Count(s, d) = c

LEMMA LooksCat ==
  ASSUME NEW s, NEW D, NEW M, NEW c \in Nat, Looks(s, D, M, c),
         NEW t, NEW E, NEW N, NEW e \in Nat, Looks(t, E, N, e),
         NEW F, F = D \cup E, NEW O, O = M \cup N, NEW n, n = c + e
  PROVE  Looks(s \o t, F, O, n)
<1>1. s \in Seq(Steps) /\ t \in Seq(Steps)
  BY DEF Looks
<1>2. s \o t \in Seq(Steps)
  BY <1>1, CatSteps
<1>3. Does(s \o t) = D \cup E /\ Marks(s \o t) = M \cup N
  BY <1>1, CatDoes DEF Looks
<1>4. \A d \in Replies : Count(s \o t, d) = c + e
  BY <1>1, CountCat DEF Looks
<1> QED
  BY <1>2, <1>3, <1>4 DEF Looks

LEMMA LooksEmpty == Looks(<<>>, {}, {}, 0)
<1>1. Does(<<>>) = {} /\ Marks(<<>>) = {}
  BY DEF Does, Marks
<1> QED
  BY <1>1, CountEmpty DEF Looks

LEMMA LooksOne ==
  /\ \A d \in Media \cup {"record", "job", "mute", "await", "socket"} :
       Looks(<<Step(d)>>, {d}, {"none"}, 0)
  /\ Looks(<<Step("dispatch")>>, {"dispatch"}, {"none"}, 1)
  /\ \A m \in {"busy", "ok", "bad"} : Looks(<<React(m)>>, {"react"}, {m}, 0)
<1>1. ASSUME NEW x \in Steps
      PROVE  /\ <<x>> \in Seq(Steps)
             /\ Does(<<x>>) = {x.do} /\ Marks(<<x>>) = {x.mark}
             /\ \A d \in Replies : Count(<<x>>, d) = IF x.do \in {d, "dispatch"} THEN 1 ELSE 0
  BY OneDoes, CountOne
<1>2. ASSUME NEW d \in Media \cup {"record", "job", "mute", "await", "socket"}
      PROVE  Looks(<<Step(d)>>, {d}, {"none"}, 0)
  <2>1. Step(d) \in Steps /\ Step(d).do = d /\ Step(d).mark = "none"
    BY StepsType DEF Step
  <2> QED
    BY <1>1, <2>1 DEF Looks, Replies, Media
<1>3. Looks(<<Step("dispatch")>>, {"dispatch"}, {"none"}, 1)
  <2>1. /\ Step("dispatch") \in Steps
        /\ Step("dispatch").do = "dispatch" /\ Step("dispatch").mark = "none"
    BY StepsType DEF Step
  <2> QED
    BY <1>1, <2>1 DEF Looks
<1>4. ASSUME NEW m \in {"busy", "ok", "bad"}
      PROVE  Looks(<<React(m)>>, {"react"}, {m}, 0)
  <2>1. React(m) \in Steps /\ React(m).do = "react" /\ React(m).mark = m
    BY StepsType DEF React
  <2> QED
    BY <1>1, <2>1 DEF Looks, Replies
<1> QED
  BY <1>2, <1>3, <1>4

LEMMA Pairs ==
  ASSUME NEW x, NEW y, NEW z
  PROVE  /\ <<x, y>> = <<x>> \o <<y>>
         /\ <<x, y, z>> = <<x, y>> \o <<z>>
<1>1. <<x, y>> = <<x>> \o <<y>>
  <2> DEFINE l == <<x, y>>
             r == <<x>> \o <<y>>
  <2>1. l \in Seq({x, y}) /\ Len(l) = 2 /\ l[1] = x /\ l[2] = y
    OBVIOUS
  <2>2. r \in Seq({x, y}) /\ Len(r) = 2
    OBVIOUS
  <2>3. r[1] = x /\ r[2] = y
    OBVIOUS
  <2> HIDE DEF l, r
  <2>4. l = r
    BY <2>1, <2>2, <2>3
  <2> QED
    BY <2>4 DEF l, r
<1>2. <<x, y, z>> = <<x, y>> \o <<z>>
  <2> DEFINE l == <<x, y, z>>
             r == <<x, y>> \o <<z>>
  <2>1. l \in Seq({x, y, z}) /\ Len(l) = 3 /\ l[1] = x /\ l[2] = y /\ l[3] = z
    OBVIOUS
  <2>2. r \in Seq({x, y, z}) /\ Len(r) = 3
    OBVIOUS
  <2>3. r[1] = x /\ r[2] = y /\ r[3] = z
    OBVIOUS
  <2> HIDE DEF l, r
  <2>4. l = r
    BY <2>1, <2>2, <2>3
  <2> QED
    BY <2>4 DEF l, r
<1> QED
  BY <1>1, <1>2

LEMMA LooksText == Looks(SendTextAndPersist, {"send", "persist"}, {"none"}, 1)
<1> DEFINE a == Step("send")
           b == Step("persist")
<1>1. /\ a \in Steps /\ b \in Steps /\ a.do = "send" /\ b.do = "persist"
      /\ a.mark = "none" /\ b.mark = "none"
  BY StepsType DEF Step
<1>2. SendTextAndPersist = <<a>> \o <<b>>
  BY Pairs DEF SendTextAndPersist
<1> HIDE DEF a, b
<1>3. <<a>> \in Seq(Steps) /\ <<b>> \in Seq(Steps)
  BY <1>1
<1>4. <<a>> \o <<b>> \in Seq(Steps)
  BY <1>3, CatSteps
<1>5. Does(<<a>> \o <<b>>) = {"send", "persist"} /\ Marks(<<a>> \o <<b>>) = {"none"}
  <2>1. /\ Does(<<a>> \o <<b>>) = Does(<<a>>) \cup Does(<<b>>)
        /\ Marks(<<a>> \o <<b>>) = Marks(<<a>>) \cup Marks(<<b>>)
    BY <1>3, CatDoes, Zenon
  <2>2. Does(<<a>>) = {"send"} /\ Does(<<b>>) = {"persist"}
    BY <1>1, OneDoes
  <2>3. Marks(<<a>>) = {"none"} /\ Marks(<<b>>) = {"none"}
    BY <1>1, OneDoes
  <2> QED
    BY <2>1, <2>2, <2>3
<1>6. \A d \in Replies : Count(<<a>> \o <<b>>, d) = 1
  <2> TAKE d \in Replies
  <2>1. Count(<<a>> \o <<b>>, d) = Count(<<a>>, d) + Count(<<b>>, d)
    BY <1>3, CountCat, Zenon
  <2>2. /\ Count(<<a>>, d) = IF a.do \in {d, "dispatch"} THEN 1 ELSE 0
        /\ Count(<<b>>, d) = IF b.do \in {d, "dispatch"} THEN 1 ELSE 0
    BY <1>1, CountOne, Zenon
  <2> QED
    BY <1>1, <2>1, <2>2 DEF Replies
<1> QED
  BY <1>2, <1>4, <1>5, <1>6 DEF Looks

\* The first step closes.
LEMMA ClosesFirst ==
  ASSUME NEW m \in Closing, NEW t \in Seq(Steps)
  PROVE  Closes(<<React(m)>> \o t)
<1>1. <<React(m)>> \in Seq(Steps) /\ <<React(m)>> # <<>> /\ <<React(m)>>[1].mark = m
  BY StepsType DEF Closing, React
<1>2. 1 \in 1..Len(<<React(m)>>)
  OBVIOUS
<1>3. <<React(m)>> \o t # <<>> /\ (<<React(m)>> \o t)[1] = <<React(m)>>[1]
  BY <1>1, <1>2, CatSteps
<1> QED
  BY <1>1, <1>3 DEF Closes

\* The order within a try: the mark of being processed, then what may fail
\* for want of media, then what replies.
BusyFirst(s) == \A k \in DOMAIN s : s[k].mark = "busy" => k = 1
Sending == Replies \cup {"dispatch"}

LEMMA BusyAlone ==
  ASSUME NEW s, "busy" \notin Marks(s) \/ Len(s) = 1, s \in Seq(Steps)
  PROVE  BusyFirst(s)
<1>1. CASE "busy" \notin Marks(s)
  BY <1>1 DEF BusyFirst, Marks
<1>2. CASE Len(s) = 1
  <2>1. DOMAIN s = {1}
    BY <1>2
  <2> QED
    BY <2>1 DEF BusyFirst
<1> QED
  BY <1>1, <1>2

LEMMA BusyCat ==
  ASSUME NEW s \in Seq(Steps), NEW t \in Seq(Steps), BusyFirst(s), "busy" \notin Marks(t)
  PROVE  BusyFirst(s \o t)
<1>1. \A k \in DOMAIN t : t[k].mark # "busy"
  BY DEF Marks
<1> QED
  BY <1>1, CatSteps DEF BusyFirst

LEMMA MediaOnly ==
  ASSUME NEW s, Does(s) \cap Sending = {}
  PROVE  MediaComeFirst(s)
  BY DEF MediaComeFirst, Does, Sending

LEMMA MediaCat ==
  ASSUME NEW s \in Seq(Steps), NEW t \in Seq(Steps),
         MediaComeFirst(s), Does(t) \cap Media = {}
  PROVE  MediaComeFirst(s \o t)
<1> SUFFICES ASSUME NEW j \in DOMAIN (s \o t), NEW k \in DOMAIN (s \o t), j < k,
                    (s \o t)[k].do \in Media
             PROVE  (s \o t)[j].do \notin Sending
  BY DEF MediaComeFirst, Sending
<1>1. \A i \in DOMAIN t : t[i].do \notin Media
  BY DEF Does
<1>2. k \in DOMAIN s /\ (s \o t)[k] = s[k]
  BY <1>1, CatSteps
<1>3. j \in DOMAIN s /\ (s \o t)[j] = s[j]
  BY <1>2, CatSteps
<1> QED
  BY <1>2, <1>3 DEF MediaComeFirst, Sending

\* What a kind of action adds to the replies that are due.
Adds(kind) == IF kind \in {"noop", "job", "delete"} THEN 0 ELSE 1

Fits(kind, plan) ==
  /\ \A rest \in Seq(Kinds) :
       LET f == Frame(kind, rest, plan)
       IN  /\ Sound(f) /\ f.rest = rest
           /\ \A d \in Replies : Count(f.try, d) + Count(f.after, d) = Adds(kind)
           /\ kind \in {"job", "mute"} => kind \in Does(f.try) \cup Does(f.after)

LEMMA FitsPlan ==
  ASSUME NEW kind \in Kinds, NEW try \in Seq(Steps), NEW after \in Seq(Steps),
         NEW catch \in Seq(Steps), NEW quiet \in BOOLEAN,
         "dispatch" \notin Does(after) \cup Does(catch),
         "dispatch" \in Does(try) => kind \in {"spoken", "translate"},
         quiet => (Does(after) \cup Does(catch)) \cap {"job", "mute"} = {},
         BusyFirst(try),
         "busy" \in Marks(try) =>
           /\ Len(try) > 1 /\ Closes(catch)
           /\ Marks(try) \cap Closing # {} \/ Closes(after),
         "busy" \in Marks(after) =>
           BusyFirst(after) /\ Len(after) > 1 /\ after[2].mark \in Closing,
         "busy" \notin Marks(catch),
         (Does(after) \cup Does(catch)) \cap Media = {},
         MediaComeFirst(try),
         Does(try) \cap Media # {} =>
           /\ catch # <<>>
           /\ \A d \in Replies : Count(catch, d) = Adds(kind),
         \A d \in Replies : Count(try, d) + Count(after, d) = Adds(kind),
         kind \in {"job", "mute"} => kind \in Does(try) \cup Does(after)
  PROVE  Fits(kind, Plan(try, after, catch, quiet))
<1> SUFFICES ASSUME NEW rest \in Seq(Kinds)
             PROVE  LET f == Frame(kind, rest, Plan(try, after, catch, quiet))
                    IN  /\ Sound(f) /\ f.rest = rest
                        /\ \A d \in Replies : Count(f.try, d) + Count(f.after, d) = Adds(kind)
                        /\ kind \in {"job", "mute"} => kind \in Does(f.try) \cup Does(f.after)
  BY DEF Fits
<1> DEFINE f == Frame(kind, rest, Plan(try, after, catch, quiet))
<1>1. /\ f.kind = kind /\ f.rest = rest /\ f.try = try /\ f.after = after /\ f.catch = catch
      /\ f.quiet = quiet
  BY DEF Frame, Plan
<1>2. f \in Frames
  BY DEF Frame, Plan, Frames
<1> HIDE DEF f
<1>3. kind # "none"
  BY DEF Kinds
<1>4. DispatchIsTried(f)
  BY <1>1 DEF DispatchIsTried
<1>5. BusyComesFirst(f)
  <2>1. \A k \in DOMAIN try : try[k].mark = "busy" => k = 1 /\ "busy" \in Marks(try)
    BY DEF BusyFirst, Marks
  <2>2. \A k \in DOMAIN after : after[k].mark = "busy" => "busy" \in Marks(after)
    BY DEF Marks
  <2> QED
    BY <1>1, <2>1, <2>2 DEF BusyComesFirst, BusyFirst
<1>6. QuietOwesNothing(f)
  BY <1>1 DEF QuietOwesNothing
<1>7. FallbackReplies(f)
  BY <1>1 DEF FallbackReplies
<1> QED
  BY <1>1, <1>2, <1>3, <1>4, <1>5, <1>6, <1>7 DEF Sound, f

\* An action without a try.
LEMMA FitsPlain ==
  ASSUME NEW kind \in Kinds, NEW s, NEW D, NEW M, Looks(s, D, M, Adds(kind)),
         D \cap (Media \cup {"dispatch"}) = {},
         "busy" \in M => BusyFirst(s) /\ Len(s) > 1 /\ s[2].mark \in Closing,
         kind \in {"job", "mute"} => kind \in D
  PROVE  Fits(kind, Plain(s))
<1>1. /\ s \in Seq(Steps) /\ Does(s) = D /\ Marks(s) = M
      /\ \A d \in Replies : Count(s, d) = Adds(kind)
  BY DEF Looks
<1>2. /\ <<>> \in Seq(Steps) /\ Does(<<>>) = {} /\ Marks(<<>>) = {}
      /\ \A d \in Replies : Count(<<>>, d) = 0
  BY LooksEmpty DEF Looks
<1>3. BusyFirst(<<>>) /\ MediaComeFirst(<<>>)
  BY <1>2 DEF BusyFirst, MediaComeFirst
<1>4. \A d \in Replies : Count(<<>>, d) + Count(s, d) = Adds(kind)
  BY <1>1, <1>2 DEF Adds
<1> HIDE DEF Adds
<1> QED
  BY <1>1, <1>2, <1>3, <1>4, FitsPlan DEF Plain

LEMMA FitsSimple ==
  ASSUME NEW kind \in {"noop", "text", "job", "video", "delete", "mute"},
         NEW plan \in Plans(kind)
  PROVE  Fits(kind, plan)
<1> USE DEF Kinds, Adds
<1>1. CASE kind = "noop"
  <2>1. plan = Plain(<<>>)
    BY <1>1 DEF Plans
  <2> QED
    BY <1>1, <2>1, LooksEmpty, FitsPlain
<1>2. CASE kind \in {"text", "video"}
  <2>1. plan = Plain(SendTextAndPersist)
    BY <1>2 DEF Plans, ReplyVideo
  <2>2. Adds(kind) = 1 /\ kind \in Kinds
    BY <1>2
  <2> QED
    BY <1>2, <2>1, <2>2, LooksText, FitsPlain DEF Media
<1>3. CASE kind = "job"
  <2>1. plan = Plain(<<Step("job")>>)
    BY <1>3 DEF Plans, EnqueueJob
  <2> QED
    BY <1>3, <2>1, LooksOne, FitsPlain DEF Media
<1>4. CASE kind = "delete"
  <2>1. plan = Plain(<<Step("record")>>)
    BY <1>4 DEF Plans, DeleteMessage
  <2> QED
    BY <1>4, <2>1, LooksOne, FitsPlain DEF Media
<1>5. CASE kind = "mute"
  <2> DEFINE s == (<<Step("mute")>> \o SendTextAndPersist) \o <<Step("record")>>
  <2>1. plan = Plain(s)
    BY <1>5 DEF Plans, Mute
  <2>2. /\ Looks(<<Step("mute")>>, {"mute"}, {"none"}, 0)
        /\ Looks(<<Step("record")>>, {"record"}, {"none"}, 0)
    BY LooksOne
  <2>3. Looks(<<Step("mute")>> \o SendTextAndPersist, {"mute", "send", "persist"}, {"none"}, 1)
    BY <2>2, LooksText, LooksCat
  <2>4. Looks(s, {"mute", "send", "persist", "record"}, {"none"}, 1)
    BY <2>2, <2>3, LooksCat
  <2> HIDE DEF s
  <2> QED
    BY <1>5, <2>1, <2>4, FitsPlain DEF Media
<1> QED
  BY <1>1, <1>2, <1>3, <1>4, <1>5

\* An action with a try: what try, after and catch do (D, E, F) and count
\* (c, e, g) suits it.
Suits(kind, D, c, E, e, F, g) ==
  /\ kind \in Kinds \ {"job", "mute"} /\ c + e = Adds(kind)
  /\ "dispatch" \notin E \cup F
  /\ "dispatch" \in D => kind \in {"spoken", "translate"}
  /\ (E \cup F) \cap ({"job", "mute"} \cup Media) = {}
  /\ D \cap Media # {} => F # {} /\ g = Adds(kind)

Tried(kind, try, D, M, c, after, E, N, e, catch, F, O, g) ==
  /\ Suits(kind, D, c, E, e, F, g)
  /\ Looks(try, D, M, c) /\ Looks(after, E, N, e) /\ Looks(catch, F, O, g)
  /\ BusyFirst(try) /\ MediaComeFirst(try)
  /\ "busy" \notin N /\ "busy" \notin O
  /\ "busy" \in M => Len(try) > 1 /\ Closes(catch) /\ (M \cap Closing # {} \/ Closes(after))

LEMMA FitsTried ==
  ASSUME NEW kind, NEW quiet \in BOOLEAN, NEW try, NEW after, NEW catch,
         NEW D, NEW c, NEW E, NEW e, NEW F, NEW g, NEW M, NEW N, NEW O,
         Tried(kind, try, D, M, c, after, E, N, e, catch, F, O, g)
  PROVE  Fits(kind, Plan(try, after, catch, quiet))
<1> USE DEF Tried
<1>1. /\ try \in Seq(Steps) /\ Does(try) = D /\ Marks(try) = M
      /\ \A d \in Replies : Count(try, d) = c
  BY DEF Looks
<1>2. /\ after \in Seq(Steps) /\ Does(after) = E /\ Marks(after) = N
      /\ \A d \in Replies : Count(after, d) = e
  BY DEF Looks
<1>3. /\ catch \in Seq(Steps) /\ Does(catch) = F /\ Marks(catch) = O
      /\ \A d \in Replies : Count(catch, d) = g
  BY DEF Looks
<1>4. F # {} => catch # <<>>
  BY <1>3 DEF Does
<1>5. \A d \in Replies : Count(try, d) + Count(after, d) = Adds(kind)
  BY <1>1, <1>2 DEF Suits
<1> QED
  BY <1>1, <1>2, <1>3, <1>4, <1>5, FitsPlan DEF Suits

\* The pieces the plans are put together from.
LEMMA LooksPieces ==
  /\ \A d \in Media \cup {"record", "job", "mute", "await", "socket"} :
       /\ Looks(<<Step(d)>>, {d}, {"none"}, 0)
       /\ MediaComeFirst(<<Step(d)>>) /\ BusyFirst(<<Step(d)>>)
  /\ Looks(<<>>, {}, {}, 0) /\ MediaComeFirst(<<>>) /\ BusyFirst(<<>>)
  /\ Looks(SendTextAndPersist, {"send", "persist"}, {"none"}, 1)
  /\ MediaComeFirst(SendTextAndPersist) /\ BusyFirst(SendTextAndPersist)
<1>1. ASSUME NEW s, NEW D, NEW M, NEW c, Looks(s, D, M, c), "busy" \notin M
      PROVE  BusyFirst(s)
  BY <1>1, BusyAlone DEF Looks
<1>2. ASSUME NEW s, NEW D, NEW M, NEW c, Looks(s, D, M, c), D \cap Sending = {} \/ D \cap Media = {}
      PROVE  MediaComeFirst(s)
  <2>1. CASE D \cap Sending = {}
    BY <1>2, <2>1, MediaOnly DEF Looks
  <2>2. CASE D \cap Media = {}
    BY <1>2, <2>2 DEF Looks, MediaComeFirst, Does
  <2> QED
    BY <1>2, <2>1, <2>2
<1>3. \A d \in Media \cup {"record", "job", "mute", "await", "socket"} :
        {d} \cap Sending = {}
  BY DEF Media, Sending, Replies
<1>4. {"send", "persist"} \cap Media = {}
  BY DEF Media
<1> QED
  BY <1>1, <1>2, <1>3, <1>4, LooksOne, LooksEmpty, LooksText

LEMMA FitsVoice ==
  ASSUME NEW plan \in Plans("voice")
  PROVE  Fits("voice", plan)
<1> DEFINE text == SendTextAndPersist
           none == <<>>
           transcode == <<Step("transcode")>>
<1>1. \/ plan = Plain(text)
      \/ plan = Plan(none, text, text, FALSE)
      \/ plan = Plan(transcode, text, text, FALSE)
  BY DEF Plans, ReplyAudio, NormalizeToVoiceNote
<1>2. Adds("voice") = 1 /\ "voice" \in Kinds \ {"job", "mute"}
  BY DEF Adds, Kinds
<1>3. Fits("voice", Plain(text))
  BY <1>2, LooksText, FitsPlain DEF Media
<1>4. /\ Looks(transcode, {"transcode"}, {"none"}, 0)
      /\ MediaComeFirst(transcode) /\ BusyFirst(transcode)
  BY LooksPieces DEF Media
<1>5. /\ Looks(none, {}, {}, 0) /\ MediaComeFirst(none) /\ BusyFirst(none)
      /\ Looks(text, {"send", "persist"}, {"none"}, 1)
  BY LooksPieces
<1>6. /\ Suits("voice", {}, 0, {"send", "persist"}, 1, {"send", "persist"}, 1)
      /\ Suits("voice", {"transcode"}, 0, {"send", "persist"}, 1, {"send", "persist"}, 1)
  BY <1>2 DEF Suits, Media
<1> HIDE DEF text, none, transcode
<1> DEFINE T == {"send", "persist"}
           n == {"none"}
<1>7. /\ Tried("voice", transcode, {"transcode"}, n, 0, text, T, n, 1, text, T, n, 1)
      /\ Tried("voice", none, {}, {}, 0, text, T, n, 1, text, T, n, 1)
  BY <1>4, <1>5, <1>6 DEF Tried
<1> QED
  BY <1>1, <1>3, <1>7, FitsTried

LEMMA FitsImage ==
  ASSUME NEW plan \in Plans("image")
  PROVE  Fits("image", plan)
<1> DEFINE text == SendTextAndPersist
           none == <<>>
<1>1. plan = Plan(text, none, text, TRUE) \/ plan = Plan(none, text, none, TRUE)
  BY DEF Plans, ReplyImage
<1>2. Adds("image") = 1 /\ "image" \in Kinds \ {"job", "mute"}
  BY DEF Adds, Kinds
<1>3. /\ Looks(none, {}, {}, 0) /\ MediaComeFirst(none) /\ BusyFirst(none)
      /\ Looks(text, {"send", "persist"}, {"none"}, 1)
      /\ MediaComeFirst(text) /\ BusyFirst(text)
  BY LooksPieces
<1>4. /\ Suits("image", {"send", "persist"}, 1, {}, 0, {"send", "persist"}, 1)
      /\ Suits("image", {}, 0, {"send", "persist"}, 1, {}, 0)
  BY <1>2 DEF Suits, Media
<1> HIDE DEF text, none
<1> DEFINE T == {"send", "persist"}
           n == {"none"}
<1>5. /\ Tried("image", text, T, n, 1, none, {}, {}, 0, text, T, n, 1)
      /\ Tried("image", none, {}, {}, 0, text, T, n, 1, none, {}, {}, 0)
  BY <1>3, <1>4 DEF Tried
<1> QED
  BY <1>1, <1>5, FitsTried

LEMMA FitsHidetag ==
  ASSUME NEW plan \in Plans("hidetag")
  PROVE  Fits("hidetag", plan)
<1> DEFINE record == <<Step("record")>>
           failed == HidetagFailed
           text == SendTextAndPersist
<1>1. PICK content \in HidetagContents :
        \/ plan = Plan(content \o text, record, failed, FALSE)
        \/ plan = Plan(content, failed, failed, FALSE)
  BY DEF Plans, Hidetag
<1>2. Adds("hidetag") = 1 /\ "hidetag" \in Kinds \ {"job", "mute"}
  BY DEF Adds, Kinds
<1>3. /\ Looks(record, {"record"}, {"none"}, 0)
      /\ Looks(text, {"send", "persist"}, {"none"}, 1)
  BY LooksPieces
<1>4. Looks(failed, {"send", "persist", "record"}, {"none"}, 1)
  BY <1>3, LooksCat DEF HidetagFailed
<1>5. PICK D \in SUBSET {"download", "convert"}, M \in SUBSET {"none"} : Looks(content, D, M, 0)
  <2>1. /\ Looks(<<Step("download")>>, {"download"}, {"none"}, 0)
        /\ Looks(<<Step("convert")>>, {"convert"}, {"none"}, 0)
    BY LooksPieces DEF Media
  <2>2. Looks(<<Step("download")>> \o <<Step("convert")>>, {"download", "convert"}, {"none"}, 0)
    BY <2>1, LooksCat
  <2>3. <<Step("download"), Step("convert")>> = <<Step("download")>> \o <<Step("convert")>>
    BY Pairs
  <2>4. content \in {<<>>, <<Step("download")>>, <<Step("download"), Step("convert")>>}
    BY DEF HidetagContents
  <2> QED
    BY <2>1, <2>2, <2>3, <2>4, LooksEmpty
<1>6. content \in Seq(Steps) /\ Does(content) = D /\ Marks(content) = M
  BY <1>5 DEF Looks
<1>7. MediaComeFirst(content) /\ BusyFirst(content)
  BY <1>5, <1>6, MediaOnly, BusyAlone DEF Sending, Replies
<1> DEFINE try == content \o text
           Dt == D \cup {"send", "persist"}
           Mt == M \cup {"none"}
<1>8. Looks(try, Dt, Mt, 1)
  BY <1>3, <1>5, LooksCat
<1>9. MediaComeFirst(try) /\ BusyFirst(try)
  <2>1. /\ text \in Seq(Steps) /\ Does(text) \cap Media = {} /\ "busy" \notin Marks(text)
    BY <1>3 DEF Looks, Media
  <2> QED
    BY <1>6, <1>7, <2>1, MediaCat, BusyCat
<1>10. /\ Suits("hidetag", D, 0, {"send", "persist", "record"}, 1,
                {"send", "persist", "record"}, 1)
       /\ Suits("hidetag", Dt, 1, {"record"}, 0, {"send", "persist", "record"}, 1)
  BY <1>2, <1>5 DEF Suits, Media
<1>11. "busy" \notin M \cup Mt
  BY <1>5
<1> HIDE DEF record, failed, text, try, Dt, Mt
<1> DEFINE T == {"send", "persist", "record"}
           n == {"none"}
<1>12. /\ Tried("hidetag", try, Dt, Mt, 1, record, {"record"}, n, 0, failed, T, n, 1)
       /\ Tried("hidetag", content, D, M, 0, failed, T, n, 1, failed, T, n, 1)
  BY <1>3, <1>4, <1>5, <1>7, <1>8, <1>9, <1>10, <1>11 DEF Tried
<1>13. /\ Fits("hidetag", Plan(try, record, failed, FALSE))
       /\ Fits("hidetag", Plan(content, failed, failed, FALSE))
  BY <1>12, FitsTried
<1> QED
  BY <1>1, <1>13 DEF try

\* The pieces of the actions that mark the message.
LEMMA LooksMarks ==
  /\ Looks(<<React("busy")>>, {"react"}, {"busy"}, 0)
  /\ Looks(<<React("ok")>>, {"react"}, {"ok"}, 0)
  /\ Looks(<<React("bad")>>, {"react"}, {"bad"}, 0)
  /\ Looks(Apology, {"react", "send", "persist"}, {"bad", "none"}, 1)
  /\ Closes(Apology)
<1>1. \A m \in {"busy", "ok", "bad"} : Looks(<<React(m)>>, {"react"}, {m}, 0)
  BY LooksOne
<1>2. Looks(<<React("bad")>>, {"react"}, {"bad"}, 0)
  BY <1>1
<1>3. Looks(Apology, {"react", "send", "persist"}, {"bad", "none"}, 1)
  BY <1>2, LooksText, LooksCat DEF Apology
<1>4. Closes(Apology)
  BY LooksText, ClosesFirst DEF Apology, Looks, Closing
<1> QED
  BY <1>1, <1>3, <1>4

\* Marked, and then answered by an apology.
LEMMA FitsApology ==
  ASSUME NEW kind \in {"spoken", "sticker"}
  PROVE  Fits(kind, Plain(<<React("busy")>> \o Apology))
<1> DEFINE b == <<React("busy")>>
           a == Apology
           s == b \o a
<1>1. /\ Looks(b, {"react"}, {"busy"}, 0)
      /\ Looks(a, {"react", "send", "persist"}, {"bad", "none"}, 1) /\ Closes(a)
      /\ Len(b) = 1
  BY LooksMarks
<1> HIDE DEF b, a
<1>2. b \in Seq(Steps) /\ a \in Seq(Steps) /\ "busy" \notin Marks(a)
  BY <1>1 DEF Looks
<1>3. Looks(s, {"react", "send", "persist"}, {"busy", "bad", "none"}, 1)
  BY <1>1, LooksCat
<1>4. BusyFirst(s)
  BY <1>1, <1>2, BusyAlone, BusyCat
<1>5. Len(s) > 1 /\ s[2].mark \in Closing
  <2>1. a # <<>> /\ a[1].mark \in Closing
    BY <1>1 DEF Closes
  <2>2. 1 \in 1..Len(a) /\ Len(a) \in Nat
    BY <1>2, <2>1
  <2>3. s[Len(b) + 1] = a[1] /\ Len(s) = Len(b) + Len(a)
    BY <1>2, <2>2, CatSteps
  <2> QED
    BY <1>1, <2>1, <2>2, <2>3
<1>6. kind \in Kinds /\ Adds(kind) = 1 /\ kind \notin {"job", "mute"}
  BY DEF Kinds, Adds
<1> HIDE DEF s
<1>7. Fits(kind, Plain(s))
  BY <1>3, <1>4, <1>5, <1>6, FitsPlain DEF Media
<1> QED
  BY <1>7 DEF s, b, a

\* The way to a transcript.
Hearing == <<Step("socket"), Step("download"), Step("transcribe")>>

LEMMA LooksHearing ==
  /\ Looks(Hearing, {"socket", "download", "transcribe"}, {"none"}, 0)
  /\ MediaComeFirst(Hearing) /\ BusyFirst(Hearing)
<1>1. /\ Looks(<<Step("socket")>>, {"socket"}, {"none"}, 0)
      /\ Looks(<<Step("download")>>, {"download"}, {"none"}, 0)
      /\ Looks(<<Step("transcribe")>>, {"transcribe"}, {"none"}, 0)
  BY LooksPieces DEF Media
<1>2. Looks(<<Step("socket")>> \o <<Step("download")>>, {"socket", "download"}, {"none"}, 0)
  BY <1>1, LooksCat
<1>3. <<Step("socket"), Step("download")>> = <<Step("socket")>> \o <<Step("download")>>
  BY Pairs
<1>4. Looks(<<Step("socket"), Step("download")>> \o <<Step("transcribe")>>,
            {"socket", "download", "transcribe"}, {"none"}, 0)
  <2>1. Looks(<<Step("socket"), Step("download")>>, {"socket", "download"}, {"none"}, 0)
    BY <1>2, <1>3
  <2> HIDE DEF Looks
  <2> QED
    BY <1>1, <2>1, LooksCat
<1>5. Hearing = <<Step("socket"), Step("download")>> \o <<Step("transcribe")>>
  BY Pairs DEF Hearing
<1>6. Looks(Hearing, {"socket", "download", "transcribe"}, {"none"}, 0)
  BY <1>4, <1>5
<1> QED
  BY <1>6, MediaOnly, BusyAlone DEF Looks, Sending, Replies

LEMMA FitsTranscript ==
  ASSUME NEW kind \in {"transcribe", "translate"}, NEW plan \in Plans(kind)
  PROVE  Fits(kind, plan)
<1> DEFINE text == SendTextAndPersist
           dispatch == <<Step("dispatch")>>
           none == <<>>
<1>1. Failed(kind) = text /\ Failed("translate") = text
  <2>1. text \in Seq(Steps) /\ <<>> \in Seq(Steps)
    BY LooksText DEF Looks
  <2>2. <<>> \o text = text
    BY <2>1, CatSteps
  <2> QED
    BY <2>2 DEF Failed, Progress
<1>2. Progress(kind, "busy") \o Hearing = Hearing
  BY LooksHearing, CatSteps DEF Progress, Looks
<1>3. \A steps \in Transcribed(kind) : steps = text \/ (steps = dispatch /\ kind = "translate")
  BY <1>1 DEF Transcribed, EmptyTranscript, TranscribeOnly, DispatchTemplate
<1>4. Progress(kind, "busy") \o Failed(kind) = text
  <2>1. Progress(kind, "busy") = <<>> /\ text \in Seq(Steps) /\ <<>> \in Seq(Steps)
    BY LooksText DEF Progress, Looks
  <2> QED
    BY <1>1, <2>1, CatSteps
<1>5. \/ plan = Plain(text)
      \/ plan = Plan(Hearing \o text, none, text, FALSE)
      \/ (plan = Plan(Hearing \o dispatch, none, text, FALSE) /\ kind = "translate")
  <2>1. Plans(kind) = Audio(kind)
    BY DEF Plans
  <2>2. \/ plan \in {Plain(text), Plain(Progress(kind, "busy") \o Failed(kind))}
        \/ \E steps \in Transcribed(kind) :
             plan = Plan(Progress(kind, "busy") \o Hearing \o steps, <<>>, Failed(kind), FALSE)
    BY <2>1 DEF Audio, Hearing
  <2> QED
    BY <1>1, <1>2, <1>3, <1>4, <2>2
<1>6. Adds(kind) = 1 /\ kind \in Kinds \ {"job", "mute"}
  BY DEF Adds, Kinds
<1> DEFINE T == {"send", "persist"}
           H == {"socket", "download", "transcribe"}
           n == {"none"}
<1>7. /\ Looks(none, {}, {}, 0) /\ Looks(text, T, n, 1)
      /\ Looks(dispatch, {"dispatch"}, n, 1) /\ Looks(Hearing, H, n, 0)
  BY LooksPieces, LooksOne, LooksHearing
<1>8. Fits(kind, Plain(text))
  BY <1>6, <1>7, FitsPlain DEF Media
<1> HIDE DEF text, dispatch, none
<1> DEFINE t == Hearing \o text
           d == Hearing \o dispatch
           HT == H \cup T
           HD == H \cup {"dispatch"}
<1>9. Looks(t, HT, n, 1) /\ Looks(d, HD, n, 1)
  BY <1>7, LooksCat
<1>10. /\ text \in Seq(Steps) /\ Does(text) \cap Media = {} /\ "busy" \notin Marks(text)
       /\ dispatch \in Seq(Steps) /\ Does(dispatch) \cap Media = {}
       /\ "busy" \notin Marks(dispatch) /\ Hearing \in Seq(Steps)
  BY <1>7 DEF Looks, Media
<1>11. MediaComeFirst(t) /\ BusyFirst(t) /\ MediaComeFirst(d) /\ BusyFirst(d)
  BY <1>10, LooksHearing, MediaCat, BusyCat
<1>12. /\ Suits(kind, HT, 1, {}, 0, T, 1)
       /\ kind = "translate" => Suits(kind, HD, 1, {}, 0, T, 1)
  BY <1>6 DEF Suits, Media
<1> HIDE DEF t, d, HT, HD
<1>13. /\ Tried(kind, t, HT, n, 1, none, {}, {}, 0, text, T, n, 1)
       /\ kind = "translate" => Tried(kind, d, HD, n, 1, none, {}, {}, 0, text, T, n, 1)
  BY <1>7, <1>9, <1>11, <1>12 DEF Tried
<1>14. /\ Fits(kind, Plan(t, none, text, FALSE))
       /\ kind = "translate" => Fits(kind, Plan(d, none, text, FALSE))
  BY <1>13, FitsTried
<1> QED
  BY <1>5, <1>8, <1>14 DEF t, d

\* An action that marks the message, does what needs media and then what
\* replies and closes, with an apology as its catch.
LEMMA FitsMarked ==
  ASSUME NEW kind \in {"spoken", "sticker"},
         NEW way, NEW D, Looks(way, D, {"none"}, 0), "dispatch" \notin D,
         NEW steps, NEW S, NEW N, Looks(steps, S, N, 1),
         S \cap Media = {}, "dispatch" \in S => kind = "spoken",
         "busy" \notin N, N \cap Closing # {}
  PROVE  Fits(kind, Plan((<<React("busy")>> \o way) \o steps, <<>>, Apology, FALSE))
<1> DEFINE b == <<React("busy")>>
           none == <<>>
           Dw == {"react"} \cup D
           Dt == Dw \cup S
           Mt == {"busy", "none"} \cup N
           F == {"react", "send", "persist"}
           O == {"bad", "none"}
           w == b \o way
           t == w \o steps
<1>1. /\ Looks(b, {"react"}, {"busy"}, 0) /\ Len(b) = 1
      /\ Looks(Apology, F, O, 1) /\ Closes(Apology) /\ Looks(none, {}, {}, 0)
  BY LooksMarks, LooksPieces
<1> HIDE DEF b, none
<1>2. /\ b \in Seq(Steps) /\ way \in Seq(Steps) /\ steps \in Seq(Steps)
      /\ Does(way) = D /\ Marks(way) = {"none"} /\ Does(steps) = S /\ Marks(steps) = N
  BY <1>1 DEF Looks
<1>3. Looks(w, Dw, {"busy", "none"}, 0)
  BY <1>1, LooksCat
<1>4. BusyFirst(w)
  BY <1>1, <1>2, BusyAlone, BusyCat
<1>5. D \cap Sending = {}
  <2>1. \A d \in Replies : Count(way, d) = 0
    BY DEF Looks
  <2>2. ASSUME NEW d \in Sending, d \in D PROVE FALSE
    <3>1. PICK k \in DOMAIN way : way[k].do = d
      BY <1>2, <2>2 DEF Does
    <3>2. d \in Replies
      BY <2>2 DEF Sending
    <3>3. k \in Counted(way, d)
      BY <3>1 DEF Counted
    <3>4. IsFiniteSet(Counted(way, d)) /\ Cardinality(Counted(way, d)) = 0
      BY <1>2, <2>1, <3>2, CountType
    <3> QED
      BY <3>3, <3>4, FS_EmptySet
  <2> QED
    BY <2>2
<1>6. MediaComeFirst(w)
  BY <1>3, <1>5, MediaOnly DEF Looks, Sending, Replies
<1>7. w \in Seq(Steps) /\ Len(w) = 1 + Len(way) /\ Len(way) \in Nat
  BY <1>1, <1>2, CatSteps
<1> HIDE DEF w
<1>8. Looks(t, Dt, Mt, 1)
  BY <1>3, LooksCat
<1>9. BusyFirst(t) /\ MediaComeFirst(t)
  BY <1>2, <1>4, <1>6, <1>7, BusyCat, MediaCat
<1>10. Len(t) > 1
  <2>1. Len(t) = Len(w) + Len(steps) /\ Len(steps) \in Nat
    BY <1>2, <1>7, CatSteps
  <2>2. steps # <<>>
    BY <1>2 DEF Marks
  <2> QED
    BY <1>2, <1>7, <2>1, <2>2
<1>11. kind \in Kinds \ {"job", "mute"} /\ Adds(kind) = 1
  BY DEF Kinds, Adds
<1>12. Suits(kind, Dt, 1, {}, 0, F, 1)
  BY <1>11 DEF Suits, Media
<1>13. "busy" \notin O
  OBVIOUS
<1> HIDE DEF t, Dt, F, O
<1>14. Tried(kind, t, Dt, Mt, 1, none, {}, {}, 0, Apology, F, O, 1)
  BY <1>1, <1>8, <1>9, <1>10, <1>12, <1>13 DEF Tried
<1>15. Fits(kind, Plan(t, none, Apology, FALSE))
  BY <1>14, FitsTried
<1> QED
  BY <1>15 DEF t, w, b, none

LEMMA FitsSpoken ==
  ASSUME NEW plan \in Plans("spoken")
  PROVE  Fits("spoken", plan)
<1> DEFINE text == SendTextAndPersist
           ok == <<React("ok")>>
           dispatch == <<Step("dispatch")>>
           b == <<React("busy")>>
<1>1. Failed("spoken") = Apology /\ \A m : Progress("spoken", m) = <<React(m)>>
  BY DEF Failed, Progress, Apology
<1>2. \A steps \in Transcribed("spoken") :
        steps = Apology \/ steps = text \o ok \/ steps = dispatch \o ok
  BY <1>1 DEF Transcribed, EmptyTranscript, RouteSpeech
<1>3. \/ plan = Plain(text) \/ plan = Plain(b \o Apology)
      \/ \E steps \in Transcribed("spoken") :
           plan = Plan((b \o Hearing) \o steps, <<>>, Apology, FALSE)
  BY <1>1 DEF Plans, Audio, Hearing
<1>4. /\ Looks(text, {"send", "persist"}, {"none"}, 1)
      /\ Looks(ok, {"react"}, {"ok"}, 0) /\ Looks(dispatch, {"dispatch"}, {"none"}, 1)
      /\ Looks(Apology, {"react", "send", "persist"}, {"bad", "none"}, 1)
  BY LooksText, LooksOne, LooksMarks
<1> HIDE DEF text, ok, dispatch
<1>5. /\ Looks(text \o ok, {"send", "persist", "react"}, {"none", "ok"}, 1)
      /\ Looks(dispatch \o ok, {"dispatch", "react"}, {"none", "ok"}, 1)
  BY <1>4, LooksCat
<1>6. \A steps \in Transcribed("spoken") : \E S, N :
        /\ Looks(steps, S, N, 1) /\ S \cap Media = {}
        /\ "busy" \notin N /\ N \cap Closing # {}
  <2>1. /\ {"send", "persist", "react"} \cap Media = {}
        /\ {"dispatch", "react"} \cap Media = {}
        /\ "busy" \notin {"none", "ok"} /\ {"none", "ok"} \cap Closing # {}
        /\ "busy" \notin {"bad", "none"} /\ {"bad", "none"} \cap Closing # {}
        /\ {"react", "send", "persist"} \cap Media = {}
    BY DEF Media, Closing
  <2> HIDE DEF Looks
  <2>2. TAKE steps \in Transcribed("spoken")
  <2>3. CASE steps = Apology
    BY <1>4, <2>1, <2>3, Zenon
  <2>4. CASE steps = text \o ok
    BY <1>5, <2>1, <2>4, Zenon
  <2>5. CASE steps = dispatch \o ok
    BY <1>5, <2>1, <2>5, Zenon
  <2> QED
    BY <1>2, <2>3, <2>4, <2>5
<1>7. Looks(Hearing, {"socket", "download", "transcribe"}, {"none"}, 0)
  BY LooksHearing
<1>8. ASSUME NEW steps \in Transcribed("spoken")
      PROVE  Fits("spoken", Plan((b \o Hearing) \o steps, <<>>, Apology, FALSE))
  <2>1. PICK S, N : /\ Looks(steps, S, N, 1) /\ S \cap Media = {}
                    /\ "busy" \notin N /\ N \cap Closing # {}
    BY <1>6
  <2> QED
    BY <1>7, <2>1, FitsMarked
<1>9. Fits("spoken", Plain(text))
  <2>1. "spoken" \in Kinds /\ Adds("spoken") = 1
    BY DEF Kinds, Adds
  <2> QED
    BY <1>4, <2>1, FitsPlain DEF Media
<1>10. Fits("spoken", Plain(b \o Apology))
  BY FitsApology
<1> QED
  BY <1>3, <1>8, <1>9, <1>10

LEMMA FitsSticker ==
  ASSUME NEW plan \in Plans("sticker")
  PROVE  Fits("sticker", plan)
<1> DEFINE text == SendTextAndPersist
           ok == <<React("ok")>>
           b == <<React("busy")>>
           download == <<Step("download")>>
           convert == <<Step("convert")>>
           measured == <<Step("probe"), Step("convert")>>
           F == {"react", "send", "persist"}
<1>1. \/ plan = Plain(text)
      \/ \E source \in MediaSources : plan = StickerPlan(source)
  BY DEF Plans, Sticker
<1>2. "sticker" \in Kinds \ {"job", "mute"} /\ Adds("sticker") = 1
  BY DEF Kinds, Adds
<1>3. Fits("sticker", Plain(text))
  BY <1>2, LooksText, FitsPlain DEF Media
<1>4. /\ Looks(ok, {"react"}, {"ok"}, 0) /\ Looks(b, {"react"}, {"busy"}, 0)
      /\ Looks(download, {"download"}, {"none"}, 0) /\ Looks(convert, {"convert"}, {"none"}, 0)
      /\ Looks(text, {"send", "persist"}, {"none"}, 1)
      /\ Looks(Apology, F, {"bad", "none"}, 1) /\ Closes(Apology) /\ Len(b) = 1
  BY LooksPieces, LooksMarks DEF Media
<1>5. Looks(measured, {"probe", "convert"}, {"none"}, 0)
  <2>1. Looks(<<Step("probe")>>, {"probe"}, {"none"}, 0)
    BY LooksPieces DEF Media
  <2>2. Looks(<<Step("probe")>> \o convert, {"probe", "convert"}, {"none"}, 0)
    BY <1>4, <2>1, LooksCat
  <2>3. measured = <<Step("probe")>> \o convert
    BY Pairs
  <2> QED
    BY <2>2, <2>3
<1>6. <<React("busy"), Step("download")>> = b \o download
  BY Pairs
<1>7. CASE plan = StickerPlan("none")
  <2>1. plan = Plain(b \o Apology)
    BY <1>7 DEF StickerPlan
  <2> QED
    BY <2>1, FitsApology
<1>8. CASE plan = StickerPlan("long_video")
  <2> DEFINE t == b \o download
             Dt == {"react", "download"}
             Mt == {"busy", "none"}
             O == {"bad", "none"}
  <2>1. plan = Plan(t, Apology, Apology, FALSE)
    BY <1>6, <1>8 DEF StickerPlan
  <2> HIDE DEF b, download
  <2>2. /\ b \in Seq(Steps) /\ download \in Seq(Steps) /\ "busy" \notin Marks(download)
        /\ Does(download) \cap Sending = {} /\ Does(b) \cap Sending = {}
        /\ download # <<>>
    <3>1. "download" \notin Sending /\ "react" \notin Sending
      BY DEF Sending, Replies
    <3> QED
      BY <1>4, <3>1 DEF Looks, download
  <2>3. Looks(t, Dt, Mt, 0)
    BY <1>4, LooksCat
  <2>4. BusyFirst(t) /\ Len(t) > 1
    BY <1>4, <2>2, BusyAlone, BusyCat, CatSteps
  <2>5. MediaComeFirst(t)
    BY <2>3, MediaOnly DEF Looks, Sending, Replies
  <2>6. Suits("sticker", Dt, 0, F, 1, F, 1)
    BY <1>2 DEF Suits, Media
  <2>7. "busy" \notin O
    OBVIOUS
  <2> HIDE DEF t, Dt, F, O
  <2>8. Tried("sticker", t, Dt, Mt, 0, Apology, F, O, 1, Apology, F, O, 1)
    BY <1>4, <2>3, <2>4, <2>5, <2>6, <2>7 DEF Tried, O
  <2>9. Fits("sticker", Plan(t, Apology, Apology, FALSE))
    BY <2>8, FitsTried
  <2> QED
    BY <2>1, <2>9
<1>9. CASE \E way \in {convert, measured} :
             plan = Plan(((b \o download) \o way) \o text \o ok, <<>>, Apology, FALSE)
  <2>1. PICK way \in {convert, measured} :
          plan = Plan(((b \o download) \o way) \o text \o ok, <<>>, Apology, FALSE)
    BY <1>9
  <2>2. PICK W : Looks(way, W, {"none"}, 0) /\ "dispatch" \notin W
    <3>1. "dispatch" \notin {"convert"} /\ "dispatch" \notin {"probe", "convert"}
      OBVIOUS
    <3> QED
      BY <1>4, <1>5, <3>1
  <2> HIDE DEF text, ok, b, download, convert, measured
  <2>3. Looks(download \o way, {"download"} \cup W, {"none"}, 0)
    BY <1>4, <2>2, LooksCat
  <2>4. Looks(text \o ok, {"send", "persist", "react"}, {"none", "ok"}, 1)
    BY <1>4, LooksCat
  <2>5. /\ {"send", "persist", "react"} \cap Media = {}
        /\ "busy" \notin {"none", "ok"} /\ {"none", "ok"} \cap Closing # {}
    BY DEF Media, Closing
  <2>6. Fits("sticker", Plan((b \o (download \o way)) \o (text \o ok), <<>>, Apology, FALSE))
    BY <2>2, <2>3, <2>4, <2>5, FitsMarked DEF b
  <2>7. ((b \o download) \o way) \o text \o ok = (b \o (download \o way)) \o (text \o ok)
    <3>1. /\ b \in Seq(Steps) /\ download \in Seq(Steps) /\ way \in Seq(Steps)
          /\ text \in Seq(Steps) /\ ok \in Seq(Steps)
      BY <1>4, <2>2 DEF Looks
    <3>2. (b \o download) \o way = b \o (download \o way)
      BY <3>1, Regroup, Zenon
    <3>3. b \o (download \o way) \in Seq(Steps)
      BY <3>1, CatSteps
    <3>4. ASSUME NEW c \in Seq(Steps) PROVE (c \o text) \o ok = c \o (text \o ok)
      BY <3>1, Regroup, Zenon
    <3> QED
      BY <3>2, <3>3, <3>4
  <2> QED
    BY <2>1, <2>6, <2>7
<1>10. \A source \in MediaSources \ {"none", "long_video"} : \E way \in {convert, measured} :
         StickerPlan(source)
           = Plan(((b \o download) \o way) \o text \o ok, <<>>, Apology, FALSE)
  BY <1>6 DEF MediaSources, StickerPlan, Transform
<1> QED
  BY <1>1, <1>3, <1>7, <1>8, <1>9, <1>10 DEF MediaSources

\* Every plan of every kind of action.
LEMMA EveryPlanFits ==
  ASSUME NEW kind \in Kinds, NEW plan \in Plans(kind)
  PROVE  Fits(kind, plan)
<1>1. CASE kind \in {"noop", "text", "job", "video", "delete", "mute"}
  BY <1>1, FitsSimple
<1>2. CASE kind \in {"transcribe", "translate"}
  BY <1>2, FitsTranscript
<1>3. CASE kind \in {"voice", "image", "hidetag", "spoken", "sticker"}
  BY <1>3, FitsVoice, FitsImage, FitsHidetag, FitsSpoken, FitsSticker
<1> QED
  BY <1>1, <1>2, <1>3 DEF Kinds

-----------------------------------------------------------------------------
(***************************************************************************)
(* One list: what a step leaves of it is sound again.                      *)
(***************************************************************************)

LEMMA FrameType ==
  ASSUME NEW f \in Frames
  PROVE  /\ f.kind \in Kinds \cup {"none"} /\ f.rest \in Seq(Kinds) /\ f.quiet \in BOOLEAN
         /\ f.try \in Seq(Steps) /\ f.after \in Seq(Steps) /\ f.catch \in Seq(Steps)
  BY DEF Frames

\* What is done next is the head of the try or, once it is done, of the rest.
LEMMA Now ==
  ASSUME NEW f \in Frames, Remaining(f) # <<>>
  PROVE  /\ f.try # <<>> => Head(Remaining(f)) = Head(f.try)
         /\ f.try = <<>> => f.after # <<>> /\ Head(Remaining(f)) = Head(f.after)
<1>1. f.try \in Seq(Steps) /\ f.after \in Seq(Steps)
  BY FrameType
<1>2. CASE f.try # <<>>
  <2>1. Head(f.try \o f.after) = Head(f.try)
    BY <1>1, <1>2, CatHead
  <2> QED
    BY <1>2, <2>1 DEF Remaining
<1>3. CASE f.try = <<>>
  <2>1. Remaining(f) = f.after
    BY <1>1, <1>3, CatSteps DEF Remaining
  <2> QED
    BY <1>3, <2>1
<1> QED
  BY <1>2, <1>3

\* Nothing is left to do of an action with neither.
LEMMA NothingLeft ==
  ASSUME NEW f \in Frames, Remaining(f) = <<>>
  PROVE  f.try = <<>> /\ f.after = <<>>
<1>1. f.try \in Seq(Steps) /\ f.after \in Seq(Steps)
  BY FrameType
<1> QED
  BY <1>1, CatSteps DEF Remaining

LEMMA RestParts ==
  ASSUME NEW f \in Frames, Remaining(f) # <<>>
  PROVE  /\ Rest(f) \in Frames
         /\ Rest(f).kind = f.kind /\ Rest(f).rest = f.rest /\ Rest(f).catch = f.catch
         /\ Rest(f).quiet = f.quiet
         /\ f.try # <<>> => Rest(f).try = Tail(f.try) /\ Rest(f).after = f.after
         /\ f.try = <<>> => Rest(f).try = f.try /\ Rest(f).after = Tail(f.after)
<1>1. f.try # <<>> => Tail(f.try) \in Seq(Steps)
  BY FrameType
<1>2. f.try = <<>> => Tail(f.after) \in Seq(Steps)
  BY FrameType, Now
<1> QED
  BY <1>1, <1>2 DEF Rest, Frames

\* Past the head of a try no message is marked as being processed.
LEMMA TailBusy ==
  ASSUME NEW s \in Seq(Steps), s # <<>>, BusyFirst(s)
  PROVE  \A k \in DOMAIN Tail(s) : Tail(s)[k].mark # "busy"
<1> SUFFICES ASSUME NEW k \in DOMAIN Tail(s), Tail(s)[k].mark = "busy" PROVE FALSE
  OBVIOUS
<1>1. k \in 1..Len(s) - 1 /\ k + 1 \in DOMAIN s /\ Tail(s)[k] = s[k + 1] /\ k + 1 # 1
  BY TailSteps
<1> QED
  BY <1>1 DEF BusyFirst

LEMMA TailMedia ==
  ASSUME NEW s \in Seq(Steps), s # <<>>, MediaComeFirst(s)
  PROVE  /\ MediaComeFirst(Tail(s))
         /\ Does(Tail(s)) \cap Media # {} => Head(s).do \notin Sending
<1>1. ASSUME NEW j \in DOMAIN Tail(s), NEW k \in DOMAIN Tail(s), j < k, Tail(s)[k].do \in Media
      PROVE  Tail(s)[j].do \notin Sending
  <2>1. /\ j + 1 \in DOMAIN s /\ k + 1 \in DOMAIN s /\ j + 1 < k + 1
        /\ Tail(s)[j] = s[j + 1] /\ Tail(s)[k] = s[k + 1]
    BY <1>1, TailSteps
  <2> QED
    BY <1>1, <2>1 DEF MediaComeFirst, Sending
<1>2. ASSUME NEW x \in Does(Tail(s)), x \in Media PROVE Head(s).do \notin Sending
  <2>1. PICK k \in DOMAIN Tail(s) : Tail(s)[k].do = x
    BY <1>2 DEF Does
  <2>2. 1 \in DOMAIN s /\ k + 1 \in DOMAIN s /\ 1 < k + 1 /\ Tail(s)[k] = s[k + 1] /\ Head(s) = s[1]
    BY TailSteps
  <2> QED
    BY <1>2, <2>1, <2>2 DEF MediaComeFirst, Sending
<1> QED
  BY <1>1, <1>2 DEF MediaComeFirst, Sending

LEMMA RestSound ==
  ASSUME NEW f, Sound(f), Remaining(f) # <<>>
  PROVE  Sound(Rest(f))
<1> DEFINE g == Rest(f)
<1>1. f \in Frames
  BY DEF Sound
<1>2. /\ f.try \in Seq(Steps) /\ f.after \in Seq(Steps) /\ f.catch \in Seq(Steps)
  BY <1>1, FrameType
<1>3. /\ g \in Frames /\ g.kind = f.kind /\ g.rest = f.rest /\ g.catch = f.catch
      /\ g.quiet = f.quiet
  BY <1>1, RestParts
<1>4. CASE f.try # <<>>
  <2>1. g.try = Tail(f.try) /\ g.after = f.after
    BY <1>1, <1>4, RestParts
  <2> HIDE DEF g
  <2>2. f.kind # "none"
    BY <1>4 DEF Sound
  <2>3. Does(g.try) \subseteq Does(f.try)
    BY <1>2, <1>4, <2>1, TailDoes
  <2>4. DispatchIsTried(g)
    BY <1>3, <2>1, <2>3 DEF Sound, DispatchIsTried
  <2>5. BusyFirst(f.try)
    BY DEF Sound, BusyComesFirst, BusyFirst
  <2>6. \A k \in DOMAIN g.try : g.try[k].mark # "busy"
    BY <1>2, <1>4, <2>1, <2>5, TailBusy
  <2>7. BusyComesFirst(g)
    BY <1>3, <2>1, <2>6 DEF Sound, BusyComesFirst
  <2>8. QuietOwesNothing(g)
    BY <1>3, <2>1 DEF Sound, QuietOwesNothing
  <2>9. /\ MediaComeFirst(g.try)
        /\ Does(g.try) \cap Media # {} => Head(f.try).do \notin Sending
    BY <1>2, <1>4, <2>1, TailMedia DEF Sound, FallbackReplies
  <2>10. ASSUME Does(g.try) \cap Media # {}
         PROVE  /\ g.catch # <<>>
                /\ \A d \in Replies : Count(g.catch, d) = Count(g.try, d) + Count(g.after, d)
    <3>1. Does(f.try) \cap Media # {}
      BY <2>3, <2>10
    <3>2. /\ f.catch # <<>>
          /\ \A d \in Replies : Count(f.catch, d) = Count(f.try, d) + Count(f.after, d)
      BY <3>1 DEF Sound, FallbackReplies
    <3>3. \A d \in Replies : Count(f.try, d) = Count(g.try, d)
      <4> TAKE d \in Replies
      <4>1. Count(f.try, d)
              = Count(Tail(f.try), d) + IF Head(f.try).do \in {d, "dispatch"} THEN 1 ELSE 0
        BY <1>2, <1>4, CountTail
      <4>2. Head(f.try).do \notin {d, "dispatch"}
        BY <2>9, <2>10 DEF Sending
      <4>3. Count(Tail(f.try), d) \in Nat
        BY <1>2, <1>4, CountType, TailSteps
      <4> QED
        BY <2>1, <4>1, <4>2, <4>3
    <3> QED
      BY <1>3, <2>1, <3>2, <3>3
  <2>11. FallbackReplies(g)
    BY <1>3, <2>1, <2>9, <2>10 DEF Sound, FallbackReplies
  <2> QED
    BY <1>3, <2>2, <2>4, <2>7, <2>8, <2>11 DEF Sound, g
<1>5. CASE f.try = <<>>
  <2>1. g.try = <<>> /\ g.after = Tail(f.after) /\ f.after # <<>>
    BY <1>1, <1>5, RestParts, Now
  <2> HIDE DEF g
  <2>2. f.kind # "none"
    BY <2>1 DEF Sound
  <2>3. Does(g.after) \subseteq Does(f.after)
    BY <1>2, <2>1, TailDoes
  <2>4. DispatchIsTried(g)
    BY <1>3, <1>5, <2>1, <2>3 DEF Sound, DispatchIsTried
  <2>5. BusyFirst(f.after)
    BY DEF Sound, BusyComesFirst, BusyFirst
  <2>6. \A k \in DOMAIN g.after : g.after[k].mark # "busy"
    BY <1>2, <2>1, <2>5, TailBusy
  <2>7. BusyComesFirst(g)
    BY <1>3, <2>1, <2>6 DEF Sound, BusyComesFirst
  <2>8. QuietOwesNothing(g)
    BY <1>3, <2>3 DEF Sound, QuietOwesNothing
  <2>9. FallbackReplies(g)
    <3>1. Does(g.try) = {} /\ MediaComeFirst(g.try)
      BY <2>1, LooksEmpty DEF Looks, MediaComeFirst
    <3> QED
      BY <1>3, <2>3, <3>1 DEF Sound, FallbackReplies
  <2> QED
    BY <1>3, <2>2, <2>4, <2>7, <2>8, <2>9 DEF Sound, g
<1> QED
  BY <1>4, <1>5

LEMMA OpenSound ==
  ASSUME NEW list \in Seq(Kinds)
  PROVE  /\ Sound(Open(list)) /\ Open(list).rest = list
         /\ Open(list).try = <<>> /\ Open(list).after = <<>>
<1> DEFINE f == Open(list)
<1>1. /\ f \in Frames /\ f.kind = "none" /\ f.rest = list /\ f.try = <<>> /\ f.after = <<>>
      /\ f.catch = <<>> /\ f.quiet = FALSE
  BY DEF Open, Frame, Plain, Plan, Frames
<1> HIDE DEF f
<1>2. Does(<<>>) = {} /\ Marks(<<>>) = {} /\ MediaComeFirst(<<>>)
  BY LooksEmpty DEF Looks, MediaComeFirst
<1>3. DispatchIsTried(f) /\ QuietOwesNothing(f) /\ FallbackReplies(f)
  BY <1>1, <1>2 DEF DispatchIsTried, QuietOwesNothing, FallbackReplies
<1>4. BusyComesFirst(f)
  BY <1>1, <1>2 DEF BusyComesFirst
<1> QED
  BY <1>1, <1>3, <1>4 DEF Sound, f

LEMMA CaughtSound ==
  ASSUME NEW f, Sound(f), Catches(f)
  PROVE  /\ Sound(Caught(f)) /\ Caught(f).rest = f.rest /\ Caught(f).try = <<>>
         /\ f.try # <<>> => Caught(f).after = f.catch
<1> DEFINE g == Caught(f)
<1>1. f \in Frames /\ f.quiet \in BOOLEAN
  BY FrameType DEF Sound
<1>2. Does(<<>>) = {} /\ Marks(<<>>) = {} /\ MediaComeFirst(<<>>)
  BY LooksEmpty DEF Looks, MediaComeFirst
<1>3. f.kind # "none"
  BY <1>1 DEF Sound, Catches
<1>4. CASE f.try # <<>>
  <2>1. /\ g \in Frames /\ g.kind = f.kind /\ g.rest = f.rest /\ g.quiet = f.quiet
        /\ g.try = <<>> /\ g.after = f.catch /\ g.catch = <<>>
    <3>1. g = [f EXCEPT !.try = <<>>, !.after = f.catch, !.catch = <<>>]
      BY <1>4 DEF Caught
    <3>2. f.catch \in Seq(Steps) /\ <<>> \in Seq(Steps)
      BY <1>1, FrameType
    <3> HIDE DEF g
    <3> QED
      BY <1>1, <3>1, <3>2 DEF Frames
  <2> HIDE DEF g
  <2>2. DispatchIsTried(g) /\ QuietOwesNothing(g) /\ FallbackReplies(g)
    BY <1>2, <2>1 DEF Sound, DispatchIsTried, QuietOwesNothing, FallbackReplies
  <2>3. BusyComesFirst(g)
    <3>1. \A k \in DOMAIN g.after : g.after[k].mark # "busy"
      BY <2>1 DEF Sound, BusyComesFirst, Marks
    <3> QED
      BY <1>2, <2>1, <3>1 DEF BusyComesFirst
  <2> QED
    BY <1>3, <2>1, <2>2, <2>3 DEF Sound, g
<1>5. CASE f.try = <<>>
  <2>1. /\ g \in Frames /\ g.kind = f.kind /\ g.rest = f.rest /\ g.quiet = f.quiet
        /\ g.try = <<>> /\ g.after = <<>> /\ g.catch = f.catch
    BY <1>1, <1>5 DEF Caught, Frames
  <2> HIDE DEF g
  <2>2. DispatchIsTried(g) /\ QuietOwesNothing(g) /\ FallbackReplies(g)
    BY <1>2, <2>1 DEF Sound, DispatchIsTried, QuietOwesNothing, FallbackReplies
  <2>3. BusyComesFirst(g)
    BY <1>2, <2>1 DEF Sound, BusyComesFirst
  <2> QED
    BY <1>3, <1>5, <2>1, <2>2, <2>3 DEF Sound, g
<1> QED
  BY <1>4, <1>5

\* Speech that is dispatched: other steps in the place of the dispatch.
InPlace(f, s) == [f EXCEPT !.try = s \o Tail(@)]

LEMMA DispatchIsNext ==
  ASSUME NEW f, Sound(f), Remaining(f) # <<>>, Head(Remaining(f)).do = "dispatch"
  PROVE  /\ f.try # <<>> /\ Head(f.try).do = "dispatch" /\ f.kind \in {"spoken", "translate"}
         /\ f.try \in Seq(Steps) /\ Head(f.try).mark = "none"
<1>1. f \in Frames /\ f.try \in Seq(Steps) /\ f.after \in Seq(Steps)
  BY FrameType DEF Sound
<1>2. f.try # <<>>
  <2> SUFFICES ASSUME f.try = <<>> PROVE FALSE
    OBVIOUS
  <2>1. f.after # <<>> /\ Head(f.after).do = "dispatch"
    BY <1>1, Now
  <2>2. "dispatch" \in Does(f.after)
    BY <1>1, <2>1, TailDoes
  <2> QED
    BY <2>2 DEF Sound, DispatchIsTried
<1>3. Head(f.try).do = "dispatch" /\ Head(f.try) \in Steps
  BY <1>1, <1>2, Now, TailSteps
<1>4. "dispatch" \in Does(f.try)
  BY <1>1, <1>2, <1>3, TailDoes
<1> QED
  BY <1>1, <1>2, <1>3, <1>4, StepMarks DEF Sound, DispatchIsTried

LEMMA InPlaceSound ==
  ASSUME NEW f, Sound(f), f.try # <<>>, Head(f.try).do = "dispatch",
         NEW s, NEW D, NEW M, NEW c, Looks(s, D, M, c),
         D \cap (Media \cup {"dispatch"}) = {}, "busy" \notin M
  PROVE  /\ Sound(InPlace(f, s)) /\ InPlace(f, s).try = s \o Tail(f.try)
         /\ InPlace(f, s).rest = f.rest /\ InPlace(f, s).after = f.after
         /\ InPlace(f, s).catch = f.catch
<1> DEFINE g == InPlace(f, s)
           t == Tail(f.try)
<1>1. f \in Frames /\ f.try \in Seq(Steps)
  BY FrameType DEF Sound
<1>2. s \in Seq(Steps) /\ Does(s) = D /\ Marks(s) = M
  BY DEF Looks
<1>3. t \in Seq(Steps) /\ s \o t \in Seq(Steps)
  BY <1>1, <1>2, TailSteps, CatSteps
<1>4. /\ g \in Frames /\ g.kind = f.kind /\ g.rest = f.rest /\ g.quiet = f.quiet
      /\ g.try = s \o t /\ g.after = f.after /\ g.catch = f.catch
  BY <1>1, <1>3 DEF InPlace, Frames
<1>5. Does(t) \subseteq Does(f.try) /\ Does(t) \cap Media = {}
  <2>1. Head(f.try).do \in Sending
    BY DEF Sending
  <2>2. MediaComeFirst(f.try)
    BY DEF Sound, FallbackReplies
  <2> QED
    BY <1>1, <2>1, <2>2, TailDoes, TailMedia
<1>6. \A k \in DOMAIN t : t[k].mark # "busy"
  <2>1. BusyFirst(f.try)
    BY DEF Sound, BusyComesFirst, BusyFirst
  <2> QED
    BY <1>1, <2>1, TailBusy
<1> HIDE DEF t, g
<1>7. Does(s \o t) = D \cup Does(t) /\ Marks(s \o t) = M \cup Marks(t)
  BY <1>2, <1>3, CatDoes
<1>8. f.kind # "none"
  BY DEF Sound
<1>9. "busy" \notin Marks(g.try)
  <2>1. "busy" \notin Marks(t)
    BY <1>6 DEF Marks
  <2> QED
    BY <1>4, <1>7, <2>1
<1>10. DispatchIsTried(g)
  BY <1>4, <1>5, <1>7 DEF Sound, DispatchIsTried
<1>11. QuietOwesNothing(g)
  BY <1>4 DEF Sound, QuietOwesNothing
<1>12. BusyComesFirst(g)
  <2>1. \A k \in DOMAIN g.try : g.try[k].mark # "busy"
    BY <1>9 DEF Marks
  <2> QED
    BY <1>4, <2>1 DEF Sound, BusyComesFirst
<1>13. FallbackReplies(g)
  <2>1. Does(g.try) \cap Media = {}
    BY <1>4, <1>5, <1>7
  <2>2. MediaComeFirst(g.try)
    BY <2>1 DEF MediaComeFirst, Does
  <2> QED
    BY <1>4, <2>1, <2>2 DEF Sound, FallbackReplies
<1> QED
  BY <1>4, <1>8, <1>10, <1>11, <1>12, <1>13 DEF Sound, g, t

\* The transcript as a text, and the wait for the dispatched list.
LEMMA InPlaceSteps ==
  ASSUME NEW f \in Frames, f.try # <<>>
  PROVE  /\ [Rest(f) EXCEPT !.try = SendTextAndPersist \o @] = InPlace(f, SendTextAndPersist)
         /\ [f EXCEPT !.try = <<Step("await")>> \o Tail(@)] = InPlace(f, <<Step("await")>>)
  BY DEF Rest, InPlace, Frames

\* What a step does to the closing reaction that is still to come.
LEMMA WillRest ==
  ASSUME NEW f \in Frames, Remaining(f) # <<>>, WillClose(f),
         Head(Remaining(f)).mark \notin Closing
  PROVE  WillClose(Rest(f))
<1>1. /\ f.try \in Seq(Steps) /\ f.after \in Seq(Steps)
  BY FrameType
<1>2. CASE f.try # <<>>
  <2>1. Head(f.try) = f.try[1] /\ f.try[1].mark \notin Closing
    BY <1>1, <1>2, Now, TailSteps
  <2>2. /\ Rest(f).try = Tail(f.try) /\ Rest(f).after = f.after /\ Rest(f).catch = f.catch
    BY <1>2, RestParts
  <2>3. Closes(f.catch) /\ (Marks(f.try) \cap Closing # {} \/ Closes(f.after))
    BY <1>2, <2>1 DEF WillClose, Closes
  <2>4. Marks(f.try) \cap Closing # {} => Marks(Tail(f.try)) \cap Closing # {}
    BY <1>1, <1>2, <2>1, TailDoes
  <2>5. Tail(f.try) = <<>> => Marks(Tail(f.try)) = {}
    BY DEF Marks
  <2> QED
    BY <2>2, <2>3, <2>4, <2>5 DEF WillClose
<1>3. CASE f.try = <<>>
  <2>1. f.after # <<>> /\ Head(Remaining(f)) = f.after[1]
    BY <1>1, <1>3, Now, TailSteps
  <2> QED
    BY <1>3, <2>1 DEF WillClose, Closes
<1> QED
  BY <1>2, <1>3

LEMMA WillAfterBusy ==
  ASSUME NEW f, Sound(f), Remaining(f) # <<>>, Head(Remaining(f)).mark = "busy"
  PROVE  WillClose(Rest(f))
<1>1. /\ f \in Frames /\ f.try \in Seq(Steps) /\ f.after \in Seq(Steps)
  BY FrameType DEF Sound
<1>2. CASE f.try # <<>>
  <2>1. f.try[1].mark = "busy" /\ 1 \in DOMAIN f.try /\ Head(f.try) = f.try[1]
    BY <1>1, <1>2, Now, TailSteps
  <2>2. /\ Rest(f).try = Tail(f.try) /\ Rest(f).after = f.after /\ Rest(f).catch = f.catch
    BY <1>1, <1>2, RestParts
  <2>3. /\ Len(f.try) > 1 /\ Closes(f.catch)
        /\ Marks(f.try) \cap Closing # {} \/ Closes(f.after)
    BY <2>1 DEF Sound, BusyComesFirst
  <2>4. Marks(f.try) \cap Closing # {} => Marks(Tail(f.try)) \cap Closing # {}
    <3>1. "busy" \notin Closing
      BY DEF Closing
    <3> QED
      BY <1>1, <1>2, <2>1, <3>1, TailDoes
  <2>5. Tail(f.try) # <<>>
    BY <1>1, <2>3, TailLong
  <2> QED
    BY <2>2, <2>3, <2>4, <2>5 DEF WillClose
<1>3. CASE f.try = <<>>
  <2>1. f.after # <<>> /\ f.after[1].mark = "busy" /\ 1 \in DOMAIN f.after
    BY <1>1, <1>3, Now, TailSteps
  <2>2. Rest(f).try = <<>> /\ Rest(f).after = Tail(f.after)
    BY <1>1, <1>3, RestParts
  <2>3. Len(f.after) > 1 /\ f.after[2].mark \in Closing
    BY <2>1 DEF Sound, BusyComesFirst
  <2>4. Tail(f.after) # <<>> /\ Tail(f.after)[1] = f.after[2]
    BY <1>1, <2>3, TailLong
  <2> QED
    BY <2>2, <2>3, <2>4 DEF WillClose, Closes
<1> QED
  BY <1>2, <1>3

LEMMA WillInPlace ==
  ASSUME NEW f, Sound(f), f.try # <<>>, Head(f.try).do = "dispatch", WillClose(f),
         NEW s \in Seq(Steps), s # <<>>,
         InPlace(f, s).try = s \o Tail(f.try), InPlace(f, s).after = f.after,
         InPlace(f, s).catch = f.catch
  PROVE  WillClose(InPlace(f, s))
<1>1. /\ f \in Frames /\ f.try \in Seq(Steps)
  BY FrameType DEF Sound
<1>2. Tail(f.try) \in Seq(Steps) /\ Head(f.try) = f.try[1] /\ Head(f.try).mark = "none"
  BY <1>1, TailSteps, StepMarks
<1>3. "none" \notin Closing
  BY DEF Closing
<1>4. Closes(f.catch) /\ (Marks(f.try) \cap Closing # {} \/ Closes(f.after))
  BY <1>2, <1>3 DEF WillClose, Closes
<1>5. Marks(f.try) \cap Closing # {} => Marks(Tail(f.try)) \cap Closing # {}
  BY <1>1, <1>2, <1>3, TailDoes
<1>6. Marks(s \o Tail(f.try)) = Marks(s) \cup Marks(Tail(f.try)) /\ s \o Tail(f.try) # <<>>
  BY <1>2, CatDoes, CatSteps
<1> QED
  BY <1>4, <1>5, <1>6 DEF WillClose

\* An exception is not raised by a reaction, so it finds the catch.
LEMMA WillCatch ==
  ASSUME NEW f, Sound(f), Remaining(f) # <<>>, Head(Remaining(f)).mark = "none", WillClose(f)
  PROVE  Catches(f) /\ WillClose(Caught(f))
<1>1. /\ f \in Frames /\ f.try \in Seq(Steps) /\ f.after \in Seq(Steps)
  BY FrameType DEF Sound
<1>2. "none" \notin Closing
  BY DEF Closing
<1>3. CASE f.try # <<>>
  <2>1. f.try[1].mark = "none"
    BY <1>1, <1>3, Now, TailSteps
  <2>2. Closes(f.catch)
    BY <1>2, <1>3, <2>1 DEF WillClose, Closes
  <2>3. Catches(f)
    BY <1>3, <2>2 DEF Catches, Closes
  <2>4. Caught(f).try = <<>> /\ Caught(f).after = f.catch
    BY <1>3, <2>3, CaughtSound
  <2> QED
    BY <2>2, <2>3, <2>4 DEF WillClose
<1>4. CASE f.try = <<>>
  <2>1. f.after[1].mark = "none"
    BY <1>1, <1>4, Now, TailSteps
  <2> QED
    BY <1>2, <1>4, <2>1 DEF WillClose, Closes
<1> QED
  BY <1>3, <1>4

LEMMA WillNot ==
  ASSUME NEW f \in Frames, Remaining(f) = <<>>
  PROVE  ~WillClose(f)
  BY NothingLeft DEF WillClose, Closes

\* What a step does to a job or a mute that is still to come.
LEMMA AheadRest ==
  ASSUME NEW f \in Frames, Remaining(f) # <<>>, NEW d, Ahead(f, d), Head(Remaining(f)).do # d
  PROVE  Ahead(Rest(f), d)
<1>1. /\ f.try \in Seq(Steps) /\ f.after \in Seq(Steps) /\ Rest(f).rest = f.rest
  BY FrameType, RestParts
<1>2. CASE f.try # <<>>
  <2>1. Rest(f).try = Tail(f.try) /\ Rest(f).after = f.after /\ Head(f.try).do # d
    BY <1>2, RestParts, Now
  <2>2. d \in Does(f.try) => d \in Does(Tail(f.try))
    BY <1>1, <1>2, <2>1, TailDoes
  <2> QED
    BY <1>1, <2>1, <2>2 DEF Ahead
<1>3. CASE f.try = <<>>
  <2>1. /\ Rest(f).try = f.try /\ Rest(f).after = Tail(f.after) /\ f.after # <<>>
        /\ Head(f.after).do # d
    BY <1>3, RestParts, Now
  <2>2. d \in Does(f.after) => d \in Does(Tail(f.after))
    BY <1>1, <2>1, TailDoes
  <2> QED
    BY <1>1, <2>1, <2>2 DEF Ahead
<1> QED
  BY <1>2, <1>3

LEMMA AheadInPlace ==
  ASSUME NEW f, Sound(f), f.try # <<>>, Head(f.try).do = "dispatch",
         NEW d \in {"job", "mute"}, Ahead(f, d), NEW s \in Seq(Steps),
         InPlace(f, s).try = s \o Tail(f.try), InPlace(f, s).after = f.after,
         InPlace(f, s).rest = f.rest
  PROVE  Ahead(InPlace(f, s), d)
<1>1. f.try \in Seq(Steps)
  BY FrameType DEF Sound
<1>2. d \in Does(f.try) => d \in Does(Tail(f.try))
  BY <1>1, TailDoes
<1>3. Does(s \o Tail(f.try)) = Does(s) \cup Does(Tail(f.try))
  BY <1>1, TailSteps, CatDoes
<1> QED
  BY <1>2, <1>3 DEF Ahead

\* Only a list whose try is over may pass an exception over, and then nothing
\* is owed in the rest of its action.
LEMMA AheadCaught ==
  ASSUME NEW f, Sound(f), Catches(f), f.try = <<>>,
         NEW d \in {"job", "mute"}, Ahead(f, d)
  PROVE  Ahead(Caught(f), d)
<1>1. Caught(f).rest = f.rest
  BY CaughtSound
<1>2. d \notin Does(f.after)
  BY DEF Catches, Sound, QuietOwesNothing
<1>3. Does(<<>>) = {}
  BY LooksEmpty DEF Looks
<1> QED
  BY <1>1, <1>2, <1>3 DEF Ahead

-----------------------------------------------------------------------------
(***************************************************************************)
(* The stack of lists.                                                     *)
(***************************************************************************)

Below(fs, i) == SubSeq(fs, 1, i - 1)
Waits(f) == f.try # <<>> /\ Head(f.try).do = "await"

\* Lists that wait for an inner one, and the whole stack.
Waiting(fs) ==
  fs \in Seq(Frames) /\ \A i \in 1..Len(fs) : Sound(fs[i]) /\ Waits(fs[i])
Stacked(fs) ==
  /\ fs \in Seq(Frames)
  /\ \A i \in 1..Len(fs) : Sound(fs[i])
  /\ \A i \in 1..Len(fs) - 1 : Waits(fs[i])
Lists(fs) == {fs[i] : i \in DOMAIN fs}

LEMMA Framed ==
  TypeOK => (FramesAreSound <=> Stacked(frames) /\ (frames = <<>> <=> stage # "running"))
  BY DEF TypeOK, FramesAreSound, Stacked, Waits

LEMMA InLists ==
  ASSUME NEW fs, NEW f
  PROVE  f \in Lists(fs) <=> \E i \in DOMAIN fs : fs[i] = f
  BY DEF Lists

LEMMA BelowParts ==
  ASSUME NEW fs \in Seq(Frames), NEW i \in 1..Len(fs)
  PROVE  /\ Below(fs, i) \in Seq(Frames) /\ Len(Below(fs, i)) = i - 1
         /\ \A j \in 1..i - 1 : Below(fs, i)[j] = fs[j]
  BY DEF Below

LEMMA AppendParts ==
  ASSUME NEW gs \in Seq(Frames), NEW f \in Frames
  PROVE  /\ Append(gs, f) \in Seq(Frames) /\ Len(Append(gs, f)) = Len(gs) + 1
         /\ Len(gs) \in Nat /\ Append(gs, f)[Len(gs) + 1] = f
         /\ \A j \in 1..Len(gs) : Append(gs, f)[j] = gs[j]
         /\ DOMAIN Append(gs, f) = 1..Len(gs) + 1 /\ DOMAIN gs = 1..Len(gs)
         /\ Append(gs, f) # <<>>
  OBVIOUS

LEMMA BelowWaits ==
  ASSUME NEW fs, Stacked(fs), NEW i \in 1..Len(fs)
  PROVE  Waiting(Below(fs, i)) /\ Sound(fs[i]) /\ fs[i] \in Frames /\ Len(fs) \in Nat
<1>1. fs \in Seq(Frames) /\ Len(fs) \in Nat
  BY DEF Stacked
<1>2. Sound(fs[i]) /\ fs[i] \in Frames
  BY <1>1 DEF Stacked, Sound
<1>3. \A j \in 1..i - 1 : Sound(fs[j]) /\ Waits(fs[j])
  BY <1>1 DEF Stacked
<1> QED
  BY <1>1, <1>2, <1>3, BelowParts DEF Waiting

LEMMA OntoStack ==
  ASSUME NEW gs, Waiting(gs), NEW f, Sound(f)
  PROVE  /\ Stacked(Append(gs, f)) /\ Append(gs, f) # <<>> /\ gs \in Seq(Frames)
         /\ Waits(f) => Waiting(Append(gs, f))
<1>1. gs \in Seq(Frames) /\ f \in Frames
  BY DEF Waiting, Sound
<1> DEFINE hs == Append(gs, f)
<1>2. /\ hs \in Seq(Frames) /\ Len(hs) = Len(gs) + 1 /\ Len(gs) \in Nat
      /\ hs[Len(gs) + 1] = f /\ \A j \in 1..Len(gs) : hs[j] = gs[j]
      /\ hs # <<>>
  BY <1>1, AppendParts
<1> HIDE DEF hs
<1>3. \A j \in 1..Len(hs) : Sound(hs[j])
  BY <1>2 DEF Waiting
<1>4. \A j \in 1..Len(gs) : Waits(hs[j])
  BY <1>2 DEF Waiting
<1>5. Stacked(hs)
  BY <1>2, <1>3, <1>4 DEF Stacked
<1>6. Waits(f) => Waiting(hs)
  BY <1>2, <1>3, <1>4 DEF Waiting
<1> QED
  BY <1>1, <1>2, <1>5, <1>6 DEF hs

LEMMA WaitingStack ==
  ASSUME NEW gs, Waiting(gs)
  PROVE  Stacked(gs)
<1>1. gs \in Seq(Frames) /\ Len(gs) \in Nat
  BY DEF Waiting
<1> QED
  BY <1>1 DEF Waiting, Stacked

LEMMA ListsOnto ==
  ASSUME NEW gs \in Seq(Frames), NEW f \in Frames, NEW x
  PROVE  x \in Lists(Append(gs, f)) <=> x \in Lists(gs) \/ x = f
<1> DEFINE hs == Append(gs, f)
<1>1. /\ DOMAIN hs = 1..Len(gs) + 1 /\ DOMAIN gs = 1..Len(gs) /\ Len(gs) \in Nat
      /\ hs[Len(gs) + 1] = f /\ \A j \in 1..Len(gs) : hs[j] = gs[j]
  BY AppendParts
<1> HIDE DEF hs
<1>2. x \in Lists(hs) <=> \E j \in DOMAIN hs : hs[j] = x
  BY InLists
<1>3. x \in Lists(gs) <=> \E j \in DOMAIN gs : gs[j] = x
  BY InLists
<1>4. ASSUME NEW j \in DOMAIN hs, hs[j] = x PROVE x \in Lists(gs) \/ x = f
  BY <1>1, <1>3, <1>4
<1>5. ASSUME NEW j \in DOMAIN gs, gs[j] = x PROVE x \in Lists(hs)
  BY <1>1, <1>2, <1>5
<1>6. x = f => x \in Lists(hs)
  BY <1>1, <1>2
<1>7. x \in Lists(hs) <=> x \in Lists(gs) \/ x = f
  BY <1>2, <1>3, <1>4, <1>5, <1>6
<1> QED
  BY <1>7 DEF hs

\* A list of the stack is below another or is not.
LEMMA ListsBelow ==
  ASSUME NEW fs \in Seq(Frames), NEW i \in 1..Len(fs), NEW x
  PROVE  /\ x \in Lists(Below(fs, i)) => x \in Lists(fs)
         /\ x \in Lists(fs) =>
              \/ x \in Lists(Below(fs, i))
              \/ \E j \in i..Len(fs) : x = fs[j]
<1> DEFINE gs == Below(fs, i)
<1>1. /\ DOMAIN gs = 1..i - 1 /\ \A j \in 1..i - 1 : gs[j] = fs[j]
      /\ DOMAIN fs = 1..Len(fs) /\ Len(fs) \in Nat
  BY BelowParts
<1> HIDE DEF gs
<1>2. x \in Lists(fs) <=> \E j \in DOMAIN fs : fs[j] = x
  BY InLists
<1>3. x \in Lists(gs) <=> \E j \in DOMAIN gs : gs[j] = x
  BY InLists
<1>4. ASSUME NEW j \in DOMAIN gs, gs[j] = x PROVE x \in Lists(fs)
  BY <1>1, <1>2, <1>4
<1>5. ASSUME NEW j \in DOMAIN fs, fs[j] = x
      PROVE  x \in Lists(gs) \/ \E k \in i..Len(fs) : x = fs[k]
  <2>1. CASE j < i
    BY <1>1, <1>3, <1>5, <2>1
  <2>2. CASE ~(j < i)
    BY <1>1, <1>5, <2>2
  <2> QED
    BY <2>1, <2>2
<1> QED
  BY <1>2, <1>3, <1>4, <1>5 DEF gs

LEMMA ListsTop ==
  ASSUME NEW fs \in Seq(Frames), fs # <<>>, NEW x
  PROVE  /\ Len(fs) \in 1..Len(fs)
         /\ x \in Lists(fs) => x \in Lists(Below(fs, Len(fs))) \/ x = fs[Len(fs)]
<1>1. Len(fs) \in 1..Len(fs)
  OBVIOUS
<1>2. \A j \in Len(fs)..Len(fs) : j = Len(fs)
  OBVIOUS
<1> QED
  BY <1>1, <1>2, ListsBelow

LEMMA NoLists == \A x : x \notin Lists(<<>>)
  BY DEF Lists

\* A set of places has a last one.
LEMMA LastPlace ==
  ASSUME NEW n \in Nat, NEW S \in SUBSET (1..n), S # {}
  PROVE  \E x \in S : \A y \in S : y <= x
<1> DEFINE T == {t \in Nat : n - t \in S}
<1>1. \A y \in S : y \in 1..n /\ n - y \in Nat /\ n - (n - y) = y
  OBVIOUS
<1>2. T # {}
  BY <1>1
<1> DEFINE R == OpToRel(<, Nat)
<1>3. IsWellFoundedOn(R, Nat)
  BY NatLessThanWellFounded, Zenon
<1>4. \A a, b \in Nat : a < b => <<a, b>> \in R
  BY DEF OpToRel
<1> HIDE DEF R
<1>5. T \subseteq Nat
  OBVIOUS
<1>6. \A y \in S : n - y \in T
  BY <1>1
<1>7. \A t \in T : t \in Nat /\ n - t \in S
  OBVIOUS
<1> HIDE DEF T
<1>8. \E t \in T : \A u \in T : ~(<<u, t>> \in R)
  BY <1>2, <1>3, <1>5, WFMin
<1>9. PICK t \in T : \A u \in T : ~(u < t)
  BY <1>4, <1>5, <1>8
<1>10. \A y \in S : y <= n - t
  <2> TAKE y \in S
  <2>1. ~(n - y < t) /\ y \in Nat /\ t \in Nat
    BY <1>1, <1>6, <1>7, <1>9
  <2> QED
    BY <2>1
<1> QED
  BY <1>7, <1>10

-----------------------------------------------------------------------------
(***************************************************************************)
(* Types, and the soundness of the lists.                                  *)
(***************************************************************************)

under == Below(frames, Len(frames))

LEMMA TopParts ==
  ASSUME TypeOK, FramesAreSound, frames # <<>>
  PROVE  /\ frames \in Seq(Frames) /\ Stacked(frames) /\ Len(frames) \in 1..Len(frames)
         /\ Sound(top) /\ top \in Frames /\ Waiting(under) /\ under \in Seq(Frames)
         /\ stage = "running"
<1>1. frames \in Seq(Frames) /\ Stacked(frames) /\ stage = "running"
  BY Framed DEF TypeOK
<1>2. Len(frames) \in 1..Len(frames)
  BY <1>1
<1>3. Waiting(under) /\ Sound(top) /\ top \in Frames
  BY <1>1, <1>2, BelowWaits DEF under, top
<1> QED
  BY <1>1, <1>2, <1>3 DEF Waiting

LEMMA DoingParts ==
  ASSUME TypeOK, FramesAreSound, NEW d, Doing(d)
  PROVE  /\ stage = "running" /\ frames # <<>> /\ Remaining(top) # <<>>
         /\ Head(Remaining(top)).do = d /\ Head(Remaining(top)) \in Steps
<1>1. stage = "running" /\ frames # <<>> /\ Remaining(top) # <<>> /\ Head(Remaining(top)).do = d
  BY DEF Doing, Running
<1>2. top \in Frames
  BY <1>1, TopParts
<1>3. top.try \in Seq(Steps) /\ top.after \in Seq(Steps)
  BY <1>2, FrameType
<1>4. Remaining(top) \in Seq(Steps)
  BY <1>3, CatSteps DEF Remaining
<1> QED
  BY <1>1, <1>4, TailSteps

LEMMA ThenGoIs ==
  ASSUME TypeOK, FramesAreSound, frames # <<>>, NEW f \in Frames
  PROVE  ThenGo(f) = Append(under, f)
<1> DEFINE l == ThenGo(f)
           r == Append(under, f)
           n == Len(frames)
<1>1. frames \in Seq(Frames) /\ n \in 1..n /\ n \in Nat /\ under \in Seq(Frames)
  BY TopParts
<1>2. Len(under) = n - 1 /\ \A j \in 1..n - 1 : under[j] = frames[j]
  BY <1>1, BelowParts DEF under
<1>3. r \in Seq(Frames) /\ Len(r) = n /\ r[n] = f /\ \A j \in 1..n - 1 : r[j] = frames[j]
  BY <1>1, <1>2, AppendParts
<1>4. l \in Seq(Frames) /\ Len(l) = n /\ l[n] = f /\ \A j \in 1..n - 1 : l[j] = frames[j]
  BY <1>1 DEF ThenGo
<1> HIDE DEF l, r
<1>5. \A j \in 1..n : l[j] = r[j]
  BY <1>1, <1>3, <1>4
<1>6. l = r
  BY <1>1, <1>3, <1>4, <1>5
<1> QED
  BY <1>6 DEF l, r

\* The two ways a step ends.
LEMMA ContinueIs ==
  ASSUME TypeOK, FramesAreSound, NEW d, Doing(d), Continue
  PROVE  /\ frames' = Append(under, Rest(top)) /\ Rest(top) \in Frames /\ Sound(Rest(top))
         /\ stage' = stage /\ noticed' = noticed
<1>1. frames # <<>> /\ Remaining(top) # <<>>
  BY DoingParts
<1>2. Sound(Rest(top)) /\ Rest(top) \in Frames
  BY <1>1, TopParts, RestSound DEF Sound
<1>3. frames' = ThenGo(Rest(top)) /\ stage' = stage /\ noticed' = noticed
  BY DEF Continue
<1> QED
  BY <1>1, <1>2, <1>3, ThenGoIs

LEMMA RaiseIs ==
  ASSUME TypeOK, FramesAreSound, frames # <<>>, Raise
  PROVE  \/ /\ \A i \in DOMAIN frames : ~Catches(frames[i])
            /\ frames' = <<>> /\ stage' = "failed" /\ noticed' = TRUE
         \/ \E i \in 1..Len(frames) :
              /\ Catches(frames[i]) /\ \A j \in 1..Len(frames) : Catches(frames[j]) => j <= i
              /\ frames' = Append(Below(frames, i), Caught(frames[i]))
              /\ noticed' = (noticed \/ frames[i].try # <<>>) /\ stage' = stage
<1> DEFINE catching == {x \in DOMAIN frames : Catches(frames[x])}
           i == CHOOSE x \in catching : \A y \in catching : y <= x
<1>1. frames \in Seq(Frames) /\ DOMAIN frames = 1..Len(frames) /\ Len(frames) \in Nat
  BY TopParts
<1>2. CASE catching = {}
  BY <1>2 DEF Raise
<1>3. CASE catching # {}
  <2>1. \E x \in catching : \A y \in catching : y <= x
    BY <1>1, <1>3, LastPlace
  <2>2. i \in catching /\ \A y \in catching : y <= i
    BY <2>1
  <2>3. /\ frames' = Append(SubSeq(frames, 1, i - 1), Caught(frames[i]))
        /\ noticed' = (noticed \/ frames[i].try # <<>>) /\ stage' = stage
    BY <1>3 DEF Raise
  <2> HIDE DEF i
  <2> QED
    BY <1>1, <2>2, <2>3 DEF Below
<1> QED
  BY <1>2, <1>3

\* What every step keeps of the stack.
Kept ==
  /\ Stacked(frames') /\ (frames' = <<>> <=> stage' # "running")
  /\ stage' \in {"received", "running", "succeeded", "failed", "done"} /\ noticed' \in BOOLEAN

LEMMA KeptRunning ==
  ASSUME TypeOK, NEW gs, Waiting(gs), NEW f, Sound(f),
         frames' = Append(gs, f), stage' = "running", noticed' \in BOOLEAN
  PROVE  Kept
  BY OntoStack DEF Kept

LEMMA KeptUnchanged ==
  ASSUME TypeOK, FramesAreSound, frames' = frames, stage' = stage, noticed' = noticed
  PROVE  Kept
<1>1. Stacked(frames) /\ (frames = <<>> <=> stage # "running")
  BY Framed
<1> QED
  BY <1>1 DEF Kept, TypeOK

LEMMA EmptyStack == Stacked(<<>>) /\ Waiting(<<>>) /\ <<>> \in Seq(Frames)
<1>1. <<>> \in Seq(Frames) /\ Len(<<>>) = 0
  OBVIOUS
<1> QED
  BY <1>1 DEF Stacked, Waiting

LEMMA KeptStep ==
  ASSUME TypeOK, FramesAreSound, NEW d, Doing(d), Continue \/ Raise
  PROVE  Kept
<1>1. frames # <<>> /\ stage = "running"
  BY DoingParts
<1>2. Waiting(under)
  BY <1>1, TopParts
<1>3. noticed \in BOOLEAN
  BY DEF TypeOK
<1>4. CASE Continue
  <2>1. /\ frames' = Append(under, Rest(top)) /\ Sound(Rest(top))
        /\ stage' = stage /\ noticed' = noticed
    BY <1>4, ContinueIs
  <2> QED
    BY <1>1, <1>2, <1>3, <2>1, KeptRunning
<1>5. CASE Raise
  <2>1. CASE frames' = <<>> /\ stage' = "failed" /\ noticed' = TRUE
    BY <2>1, EmptyStack DEF Kept
  <2>2. CASE \E i \in 1..Len(frames) :
               /\ Catches(frames[i])
               /\ frames' = Append(Below(frames, i), Caught(frames[i]))
               /\ noticed' = (noticed \/ frames[i].try # <<>>) /\ stage' = stage
    <3>1. PICK i \in 1..Len(frames) :
            /\ Catches(frames[i])
            /\ frames' = Append(Below(frames, i), Caught(frames[i]))
            /\ noticed' = (noticed \/ frames[i].try # <<>>) /\ stage' = stage
      BY <2>2
    <3>2. Waiting(Below(frames, i)) /\ Sound(frames[i])
      BY <1>1, TopParts, BelowWaits
    <3>3. Sound(Caught(frames[i]))
      BY <3>1, <3>2, CaughtSound
    <3>4. noticed' \in BOOLEAN
      BY <3>1
    <3> QED
      BY <1>1, <3>1, <3>2, <3>3, <3>4, KeptRunning
  <2> QED
    BY <1>1, <1>5, <2>1, <2>2, RaiseIs
<1> QED
  BY <1>4, <1>5

\* The next action of a list.
LEMMA TakenIs ==
  ASSUME TypeOK, FramesAreSound, TakeAction
  PROVE  \E kind \in Kinds, f \in Frames :
           /\ frames' = Append(under, f) /\ Sound(f)
           /\ top.rest = <<kind>> \o f.rest /\ top.rest # <<>> /\ f.rest = Tail(top.rest)
           /\ \A d \in Replies : Count(f.try, d) + Count(f.after, d) = Adds(kind)
           /\ kind \in {"job", "mute"} => kind \in Does(f.try) \cup Does(f.after)
<1> DEFINE kind == Head(top.rest)
           rest == Tail(top.rest)
<1>1. frames # <<>> /\ top.rest # <<>>
  BY DEF TakeAction, Running
<1>2. top.rest \in Seq(Kinds)
  BY <1>1, TopParts, FrameType
<1>3. kind \in Kinds /\ rest \in Seq(Kinds) /\ top.rest = <<kind>> \o rest
  BY <1>1, <1>2
<1>4. PICK plan \in Plans(kind) : frames' = ThenGo(Frame(kind, rest, plan))
  BY DEF TakeAction
<1>5. Fits(kind, plan)
  BY <1>3, EveryPlanFits
<1> DEFINE f == Frame(kind, rest, plan)
<1> HIDE DEF kind, rest
<1>6. /\ Sound(f) /\ f.rest = rest
      /\ \A d \in Replies : Count(f.try, d) + Count(f.after, d) = Adds(kind)
      /\ kind \in {"job", "mute"} => kind \in Does(f.try) \cup Does(f.after)
  BY <1>3, <1>5 DEF Fits
<1>7. f \in Frames
  BY <1>6 DEF Sound
<1>8. frames' = Append(under, f)
  BY <1>1, <1>4, <1>7, ThenGoIs
<1> HIDE DEF f
<1> QED
  BY <1>1, <1>3, <1>6, <1>7, <1>8 DEF rest

\* A dispatched text: the transcript in its place, or a list of its own.
AwaitInPlace(f) == InPlace(f, <<Step("await")>>)
TextInPlace(f) == InPlace(f, SendTextAndPersist)

LEMMA DispatchedIs ==
  ASSUME TypeOK, FramesAreSound, DispatchStep
  PROVE  \/ OneFault /\ Raise /\ UNCHANGED <<due, owed>>
         \/ /\ frames' = Append(under, TextInPlace(top))
            /\ UNCHANGED <<due, owed, faults, stage, noticed>>
         \/ \E list \in Seq(Kinds) :
              /\ frames' = Append(Append(under, AwaitInPlace(top)), Open(list))
              /\ due' = due - 1 + Replying(list) /\ owed' = owed \cup Owing(list)
              /\ UNCHANGED <<faults, stage, noticed>>
<1>1. Doing("dispatch")
  BY DEF DispatchStep
<1>2. frames # <<>> /\ Remaining(top) # <<>> /\ Head(Remaining(top)).do = "dispatch"
  BY <1>1, DoingParts
<1>3. Sound(top) /\ top \in Frames
  BY <1>2, TopParts
<1>4. top.try # <<>> /\ Head(top.try).do = "dispatch" /\ top.kind \in {"spoken", "translate"}
  BY <1>2, <1>3, DispatchIsNext
<1>5. /\ TranscriptFallback = TextInPlace(top)
      /\ [top EXCEPT !.try = <<Step("await")>> \o Tail(@)] = AwaitInPlace(top)
  BY <1>3, <1>4, InPlaceSteps DEF TranscriptFallback, TextInPlace, AwaitInPlace
<1>6. TextInPlace(top) \in Frames /\ AwaitInPlace(top) \in Frames
  <2>1. /\ Looks(<<Step("await")>>, {"await"}, {"none"}, 0)
        /\ Looks(SendTextAndPersist, {"send", "persist"}, {"none"}, 1)
    BY LooksPieces
  <2>2. /\ {"await"} \cap (Media \cup {"dispatch"}) = {}
        /\ {"send", "persist"} \cap (Media \cup {"dispatch"}) = {}
    BY DEF Media
  <2>3. Sound(TextInPlace(top)) /\ Sound(AwaitInPlace(top))
    BY <1>3, <1>4, <2>1, <2>2, InPlaceSound DEF TextInPlace, AwaitInPlace
  <2> QED
    BY <2>3 DEF Sound
<1>7. /\ ThenGo(TextInPlace(top)) = Append(under, TextInPlace(top))
      /\ ThenGo(AwaitInPlace(top)) = Append(under, AwaitInPlace(top))
  BY <1>2, <1>6, ThenGoIs
<1>8. Dispatched[top.kind] \subseteq Seq(Kinds)
  BY <1>4, ListsAssumption
<1>9. \/ \E list \in Dispatched[top.kind] :
           \/ /\ frames' = ThenGo(TranscriptFallback)
              /\ UNCHANGED <<due, owed, faults, stage, noticed>>
           \/ /\ frames' = Append(ThenGo([top EXCEPT !.try = <<Step("await")>> \o Tail(@)]),
                                  Open(list))
              /\ due' = due - 1 + Replying(list)
              /\ owed' = owed \cup Owing(list)
              /\ UNCHANGED <<faults, stage, noticed>>
      \/ OneFault /\ Raise /\ UNCHANGED <<due, owed>>
  BY DEF DispatchStep
<1> QED
  BY <1>5, <1>7, <1>8, <1>9

LEMMA DispatchParts ==
  ASSUME TypeOK, FramesAreSound, Doing("dispatch")
  PROVE  /\ Sound(top) /\ top.try \in Seq(Steps) /\ top.try # <<>>
         /\ Head(top.try).do = "dispatch"
         /\ Sound(TextInPlace(top)) /\ Sound(AwaitInPlace(top)) /\ Waits(AwaitInPlace(top))
         /\ \A f \in {TextInPlace(top), AwaitInPlace(top)} :
              /\ f \in Frames /\ f.rest = top.rest /\ f.after = top.after
              /\ WillClose(top) => WillClose(f)
              /\ \A d \in {"job", "mute"} : Ahead(top, d) => Ahead(f, d)
         /\ TextInPlace(top).try = SendTextAndPersist \o Tail(top.try)
         /\ AwaitInPlace(top).try = <<Step("await")>> \o Tail(top.try)
<1>1. frames # <<>> /\ Remaining(top) # <<>> /\ Head(Remaining(top)).do = "dispatch"
  BY DoingParts
<1>2. Sound(top) /\ top \in Frames
  BY <1>1, TopParts
<1>3. top.try # <<>> /\ Head(top.try).do = "dispatch" /\ top.try \in Seq(Steps)
  BY <1>1, <1>2, DispatchIsNext
<1>4. /\ Looks(<<Step("await")>>, {"await"}, {"none"}, 0)
      /\ Looks(SendTextAndPersist, {"send", "persist"}, {"none"}, 1)
      /\ <<Step("await")>> \in Seq(Steps) /\ SendTextAndPersist \in Seq(Steps)
      /\ <<Step("await")>> # <<>> /\ SendTextAndPersist # <<>>
  BY LooksPieces DEF Looks, SendTextAndPersist
<1>5. /\ {"await"} \cap (Media \cup {"dispatch"}) = {} /\ "busy" \notin {"none"}
      /\ {"send", "persist"} \cap (Media \cup {"dispatch"}) = {}
  BY DEF Media
<1> DEFINE P(f, s) == /\ Sound(f) /\ f \in Frames /\ f.try = s \o Tail(top.try)
                      /\ f.rest = top.rest /\ f.after = top.after
                      /\ WillClose(top) => WillClose(f)
                      /\ \A d \in {"job", "mute"} : Ahead(top, d) => Ahead(f, d)
<1>6. ASSUME NEW s \in Seq(Steps), s # <<>>, NEW D, NEW M, NEW c, Looks(s, D, M, c),
             D \cap (Media \cup {"dispatch"}) = {}, "busy" \notin M
      PROVE  P(InPlace(top, s), s)
  <2> DEFINE f == InPlace(top, s)
  <2>1. /\ Sound(f) /\ f.try = s \o Tail(top.try) /\ f.rest = top.rest
        /\ f.after = top.after /\ f.catch = top.catch
    BY <1>2, <1>3, <1>6, InPlaceSound
  <2>2. WillClose(top) => WillClose(f)
    BY <1>2, <1>3, <1>6, <2>1, WillInPlace
  <2>3. \A d \in {"job", "mute"} : Ahead(top, d) => Ahead(f, d)
    BY <1>2, <1>3, <1>6, <2>1, AheadInPlace
  <2>4. f \in Frames
    BY <2>1 DEF Sound
  <2> HIDE DEF f
  <2> QED
    BY <2>1, <2>2, <2>3, <2>4 DEF f
<1>7. P(TextInPlace(top), SendTextAndPersist)
  BY <1>4, <1>5, <1>6 DEF TextInPlace
<1>8. P(AwaitInPlace(top), <<Step("await")>>)
  BY <1>4, <1>5, <1>6 DEF AwaitInPlace
<1>9. Waits(AwaitInPlace(top))
  <2>1. /\ AwaitInPlace(top).try # <<>>
        /\ Head(AwaitInPlace(top).try) = Head(<<Step("await")>>)
    BY <1>3, <1>4, <1>8, CatHead, TailSteps
  <2>2. Head(<<Step("await")>>).do = "await"
    BY DEF Step
  <2> QED
    BY <2>1, <2>2 DEF Waits
<1> QED
  BY <1>2, <1>3, <1>7, <1>8, <1>9

LEMMA KeptDispatch ==
  ASSUME TypeOK, FramesAreSound, DispatchStep
  PROVE  Kept
<1>1. Doing("dispatch")
  BY DEF DispatchStep
<1>2. frames # <<>> /\ stage = "running"
  BY <1>1, DoingParts
<1>3. Waiting(under) /\ noticed \in BOOLEAN
  BY <1>2, TopParts DEF TypeOK
<1>4. CASE Raise
  BY <1>1, <1>4, KeptStep
<1>5. CASE /\ frames' = Append(under, TextInPlace(top))
           /\ UNCHANGED <<due, owed, faults, stage, noticed>>
  BY <1>1, <1>2, <1>3, <1>5, DispatchParts, KeptRunning
<1>6. ASSUME NEW list \in Seq(Kinds),
             frames' = Append(Append(under, AwaitInPlace(top)), Open(list)),
             UNCHANGED <<faults, stage, noticed>>
      PROVE  Kept
  <2>1. Waiting(Append(under, AwaitInPlace(top)))
    BY <1>1, <1>3, DispatchParts, OntoStack
  <2> QED
    BY <1>2, <1>3, <1>6, <2>1, OpenSound, KeptRunning
<1> QED
  BY <1>4, <1>5, <1>6, DispatchedIs

\* The list a message is answered with.
LEMMA ReceivedIs ==
  ASSUME Receive
  PROVE  /\ stage = "received" /\ stage' = "running" /\ noticed' = noticed
         /\ \E list \in Seq(Kinds) :
              /\ frames' = Append(<<>>, Open(list))
              /\ due' = Replying(list) /\ owed' = Owing(list)
<1>1. \A list : <<Open(list)>> = Append(<<>>, Open(list))
  OBVIOUS
<1>2. \E list \in Commands \cup Messages \cup Denials :
        frames' = <<Open(list)>> /\ due' = Replying(list) /\ owed' = Owing(list)
  BY DEF Receive, Execute
<1> QED
  BY <1>1, <1>2, ListsAssumption DEF Receive

\* The end of a list.
LEMMA EndedIs ==
  ASSUME TypeOK, FramesAreSound, EndOfList
  PROVE  /\ frames # <<>> /\ Remaining(top) = <<>> /\ top.rest = <<>>
         /\ frames' = under /\ (under = <<>> <=> Len(frames) = 1)
         /\ stage' = IF under = <<>> THEN "succeeded" ELSE "running"
<1>1. frames # <<>>
  BY DEF EndOfList, Running
<1>2. frames \in Seq(Frames) /\ Len(frames) \in 1..Len(frames) /\ Len(frames) \in Nat
  BY <1>1, TopParts
<1>3. under = <<>> <=> Len(frames) = 1
  <2>1. Len(under) = Len(frames) - 1 /\ under \in Seq(Frames)
    BY <1>2, BelowParts DEF under
  <2>2. under = <<>> <=> Len(under) = 0
    BY <2>1, EmptySeq
  <2> QED
    BY <1>2, <2>1, <2>2
<1> QED
  BY <1>1, <1>3, TopParts DEF EndOfList, under, Below

LEMMA KeptAlways ==
  ASSUME TypeOK, FramesAreSound, [Next]_vars
  PROVE  Kept
<1>1. noticed \in BOOLEAN
  BY DEF TypeOK
<1>2. CASE Receive
  <2>1. PICK list \in Seq(Kinds) : frames' = Append(<<>>, Open(list))
    BY <1>2, ReceivedIs
  <2> QED
    BY <1>1, <1>2, <2>1, ReceivedIs, EmptyStack, OpenSound, KeptRunning
<1>3. CASE OrchestratorThrows
  BY <1>3, EmptyStack DEF OrchestratorThrows, Kept
<1>4. CASE TakeAction
  <2>1. PICK f \in Frames : frames' = Append(under, f) /\ Sound(f)
    BY <1>4, TakenIs
  <2>2. frames # <<>> /\ stage' = stage /\ noticed' = noticed
    BY <1>4 DEF TakeAction, Running
  <2> QED
    BY <1>1, <2>1, <2>2, TopParts, KeptRunning
<1>5. CASE EndOfList
  <2>1. frames # <<>> /\ noticed' = noticed
    BY <1>5 DEF EndOfList, Running
  <2>2. Stacked(under)
    BY <2>1, TopParts, WaitingStack
  <2> QED
    BY <1>1, <1>5, <2>1, <2>2, EndedIs DEF Kept
<1>6. CASE ReactStep
  BY <1>6, KeptStep DEF ReactStep
<1>7. CASE SendStep
  BY <1>7, KeptStep DEF SendStep
<1>8. CASE PersistStep \/ RecordStep
  BY <1>8, KeptStep DEF PersistStep, RecordStep
<1>9. ASSUME NEW d, MediaStep(d) \/ OweStep(d) PROVE Kept
  BY <1>9, KeptStep DEF MediaStep, OweStep
<1>10. CASE DownloadStep \/ ConvertStep \/ ProbeStep \/ TranscodeStep \/ TranscribeStep
  BY <1>9, <1>10 DEF DownloadStep, ConvertStep, ProbeStep, TranscodeStep, TranscribeStep
<1>11. CASE SocketStep
  BY <1>11, KeptStep DEF SocketStep
<1>12. CASE AwaitStep
  BY <1>12, KeptStep DEF AwaitStep
<1>13. CASE Close
  <2>1. frames = <<>> /\ frames' = frames /\ stage' = "done" /\ noticed' = noticed
    BY <1>13 DEF Close, FramesAreSound
  <2> QED
    BY <1>1, <2>1, EmptyStack DEF Kept
<1>14. CASE Disconnect \/ Reconnect \/ UNCHANGED vars
  BY <1>14, KeptUnchanged DEF Disconnect, Reconnect, vars
<1> QED
  BY <1>2, <1>3, <1>4, <1>5, <1>6, <1>7, <1>8, <1>9, <1>10, <1>11, <1>12, <1>13, <1>14,
     KeptDispatch DEF Next

LEMMA ReplyingType ==
  ASSUME NEW list \in Seq(Kinds)
  PROVE  Replying(list) \in Nat /\ Owing(list) \subseteq {"job", "mute"}
<1> DEFINE S == {i \in DOMAIN list : list[i] \notin {"noop", "job", "delete"}}
<1>1. S \subseteq 1..Len(list) /\ Len(list) \in Nat
  OBVIOUS
<1>2. IsFiniteSet(S)
  BY <1>1, FS_Interval, FS_Subset
<1>3. Cardinality(S) \in Nat
  BY <1>2, FS_CardinalityType
<1> QED
  BY <1>3 DEF Replying, Owing

\* What the effects of a step may be.
Effects ==
  /\ socket' \in BOOLEAN /\ lost' \in BOOLEAN
  /\ route' \in {"none", "command", "message", "denial"}
  /\ mark' \in {"none", "busy", "ok", "bad"}
  /\ sent' \in Nat /\ stored' \in Nat /\ due' \in Int /\ faults' \in Nat
  /\ owed' \subseteq {"job", "mute"}

LEMMA EffectsBefore ==
  ASSUME TypeOK
  PROVE  /\ socket \in BOOLEAN /\ lost \in BOOLEAN
         /\ route \in {"none", "command", "message", "denial"}
         /\ mark \in {"none", "busy", "ok", "bad"}
         /\ sent \in Nat /\ stored \in Nat /\ due \in Int /\ faults \in Nat
         /\ owed \subseteq {"job", "mute"}
  BY DEF TypeOK

LEMMA ReactingType ==
  ASSUME TypeOK, NEW m \in {"none", "busy", "ok", "bad"}, Reacting(m)
  PROVE  mark' \in {"none", "busy", "ok", "bad"} /\ lost' \in BOOLEAN /\ faults' \in Nat
<1>1. mark' = m \/ mark' = mark
  BY DEF Reacting
<1>2. lost' = lost \/ lost' = (lost \/ m # "busy")
  BY DEF Reacting
<1>3. lost' \in BOOLEAN
  <2>1. CASE lost' = lost
    BY <2>1, EffectsBefore
  <2>2. CASE lost' = (lost \/ m # "busy")
    BY <2>2
  <2> QED
    BY <1>2, <2>1, <2>2
<1>4. faults' = faults \/ faults' = faults + 1
  BY DEF Reacting, OneFault
<1> QED
  BY <1>1, <1>3, <1>4, EffectsBefore

LEMMA EffectsTyped ==
  ASSUME TypeOK, FramesAreSound, [Next]_vars
  PROVE  Effects
<1>0. /\ socket \in BOOLEAN /\ lost \in BOOLEAN
      /\ route \in {"none", "command", "message", "denial"}
      /\ mark \in {"none", "busy", "ok", "bad"}
      /\ sent \in Nat /\ stored \in Nat /\ due \in Int /\ faults \in Nat
      /\ owed \subseteq {"job", "mute"}
  BY EffectsBefore
<1>1. CASE Receive
  <2>1. due' \in Int /\ owed' \subseteq {"job", "mute"}
    BY <1>1, ReceivedIs, ReplyingType
  <2>2. mark' \in {"none", "busy", "ok", "bad"} /\ lost' \in BOOLEAN /\ faults' \in Nat
    BY <1>0, <1>1, ReactingType DEF Receive
  <2>3. route' \in {"none", "command", "message", "denial"}
    BY <1>1 DEF Receive, Execute
  <2>4. socket' = socket /\ sent' = sent /\ stored' = stored
    BY <1>1 DEF Receive
  <2> QED
    BY <1>0, <2>1, <2>2, <2>3, <2>4 DEF Effects
<1>2. CASE OrchestratorThrows
  BY <1>0, <1>2 DEF OrchestratorThrows, OneFault, Effects
<1>3. CASE TakeAction \/ EndOfList
  BY <1>0, <1>3 DEF TakeAction, EndOfList, effects, Effects
<1>4. CASE ReactStep
  <2>1. Head(Remaining(top)) \in Steps
    BY <1>4, DoingParts DEF ReactStep
  <2>2. Head(Remaining(top)).mark \in {"none", "busy", "ok", "bad"}
    BY <2>1, StepMarks
  <2>3. mark' \in {"none", "busy", "ok", "bad"} /\ lost' \in BOOLEAN /\ faults' \in Nat
    BY <1>4, <2>2, ReactingType DEF ReactStep
  <2>4. UNCHANGED <<socket, route, sent, stored, due, owed>>
    BY <1>4 DEF ReactStep
  <2> QED
    BY <1>0, <2>3, <2>4 DEF Effects
<1>5. CASE SendStep
  <2>1. sent' \in {sent, sent + 1, sent + 2}
    BY <1>5 DEF SendStep
  <2>2. faults' = faults \/ faults' = faults + 1
    BY <1>5 DEF SendStep, OneFault
  <2>3. UNCHANGED <<socket, route, mark, stored, due, owed, lost>>
    BY <1>5 DEF SendStep
  <2> QED
    BY <1>0, <2>1, <2>2, <2>3 DEF Effects
<1>6. CASE PersistStep \/ RecordStep
  <2>1. stored' = stored \/ stored' = stored + 1
    BY <1>6 DEF PersistStep, RecordStep, effects
  <2>2. faults' = faults \/ faults' = faults + 1
    BY <1>6 DEF PersistStep, RecordStep, OneFault
  <2>3. UNCHANGED <<socket, route, mark, sent, due, owed, lost>>
    BY <1>6 DEF PersistStep, RecordStep, effects
  <2> QED
    BY <1>0, <2>1, <2>2, <2>3 DEF Effects
<1>7. ASSUME NEW d, MediaStep(d) \/ OweStep(d) PROVE Effects
  <2>1. owed' \subseteq owed
    BY <1>7 DEF MediaStep, OweStep, effects
  <2>2. faults' = faults \/ faults' = faults + 1
    BY <1>7 DEF MediaStep, OweStep, OneFault
  <2>3. UNCHANGED <<socket, route, mark, sent, stored, due, lost>>
    BY <1>7 DEF MediaStep, OweStep, effects
  <2> QED
    BY <1>0, <2>1, <2>2, <2>3 DEF Effects
<1>8. CASE DownloadStep \/ ConvertStep \/ ProbeStep \/ TranscodeStep \/ TranscribeStep
  BY <1>7, <1>8 DEF DownloadStep, ConvertStep, ProbeStep, TranscodeStep, TranscribeStep
<1>9. CASE SocketStep \/ AwaitStep
  BY <1>0, <1>9 DEF SocketStep, AwaitStep, effects, Effects
<1>10. CASE DispatchStep
  <2>2. due' \in Int /\ owed' \subseteq {"job", "mute"}
    <3>1. ASSUME NEW list \in Seq(Kinds), due' = due - 1 + Replying(list),
                 owed' = owed \cup Owing(list)
          PROVE  due' \in Int /\ owed' \subseteq {"job", "mute"}
      <4>1. Replying(list) \in Nat /\ Owing(list) \subseteq {"job", "mute"}
        BY ReplyingType
      <4>2. due' \in Int
        BY <1>0, <3>1, <4>1
      <4>3. owed' \subseteq {"job", "mute"}
        BY <1>0, <3>1, <4>1, Zenon
      <4> QED
        BY <4>2, <4>3
    <3> QED
      BY <1>0, <1>10, <3>1, DispatchedIs
  <2>3. faults' = faults \/ faults' = faults + 1
    BY <1>10 DEF DispatchStep, OneFault
  <2>4. UNCHANGED <<socket, route, mark, sent, stored, lost>>
    BY <1>10 DEF DispatchStep
  <2> QED
    BY <1>0, <2>2, <2>3, <2>4 DEF Effects
<1>11. CASE Close
  <2>1. mark' \in {"none", "busy", "ok", "bad"} /\ lost' \in BOOLEAN /\ faults' \in Nat
    BY <1>0, <1>11, ReactingType DEF Close
  <2>2. UNCHANGED <<socket, route, sent, stored, due, owed>>
    BY <1>11 DEF Close
  <2> QED
    BY <1>0, <2>1, <2>2 DEF Effects
<1>12. CASE Disconnect \/ Reconnect \/ UNCHANGED vars
  <2>1. socket' \in BOOLEAN /\ (faults' = faults \/ faults' = faults + 1)
    BY <1>0, <1>12 DEF Disconnect, Reconnect, vars
  <2>2. UNCHANGED <<route, mark, sent, stored, due, owed, lost>>
    BY <1>12 DEF Disconnect, Reconnect, vars
  <2> QED
    BY <1>0, <2>1, <2>2 DEF Effects
<1> QED
  BY <1>1, <1>2, <1>3, <1>4, <1>5, <1>6, <1>7, <1>8, <1>9, <1>10, <1>11, <1>12 DEF Next

LEMMA BaseInit == Init => TypeOK /\ FramesAreSound
<1> SUFFICES ASSUME Init PROVE TypeOK /\ FramesAreSound
  OBVIOUS
<1>1. frames = <<>> /\ frames \in Seq(Frames) /\ stage # "running"
  BY EmptyStack DEF Init
<1>2. TypeOK
  <2>1. socket \in BOOLEAN /\ noticed \in BOOLEAN /\ lost \in BOOLEAN
    BY DEF Init
  <2>2. /\ stage \in {"received", "running", "succeeded", "failed", "done"}
        /\ route \in {"none", "command", "message", "denial"}
        /\ mark \in {"none", "busy", "ok", "bad"}
    BY DEF Init
  <2>3. /\ sent \in Nat /\ stored \in Nat /\ due \in Int /\ faults \in Nat
        /\ owed \subseteq {"job", "mute"}
    BY DEF Init
  <2> QED
    BY <1>1, <2>1, <2>2, <2>3 DEF TypeOK
<1> QED
  BY <1>1, <1>2, Framed, EmptyStack

LEMMA BaseStep ==
  ASSUME TypeOK, FramesAreSound, [Next]_vars
  PROVE  TypeOK' /\ FramesAreSound'
<1>1. Kept /\ Effects
  BY KeptAlways, EffectsTyped
<1>2. TypeOK'
  BY <1>1 DEF Kept, Effects, Stacked, TypeOK
<1>3. FramesAreSound'
  BY <1>1 DEF Kept, Stacked, Waits, FramesAreSound
<1> QED
  BY <1>2, <1>3

LEMMA BaseHolds == Spec => [](TypeOK /\ FramesAreSound)
<1>1. TypeOK /\ FramesAreSound /\ [Next]_vars => (TypeOK /\ FramesAreSound)'
  BY BaseStep
<1> QED
  BY <1>1, BaseInit, PTL DEF Spec

\* Whatever is nested in whatever, every list in execution is one the handlers
\* can be in, and all counters and marks keep their types.
THEOREM TypeCorrect == Spec => []TypeOK
  BY BaseHolds, PTL

-----------------------------------------------------------------------------
(***************************************************************************)
(* The mark of being processed.                                            *)
(***************************************************************************)

LEMMA NothingYetStep ==
  ASSUME TypeOK, FramesAreSound, NothingYet, [Next]_vars
  PROVE  NothingYet'
<1> SUFFICES ASSUME stage' = "received"
             PROVE  stage = "received" /\ UNCHANGED <<mark, sent, stored>>
  BY DEF NothingYet
<1>1. ASSUME NEW d, Doing(d), Continue \/ Raise PROVE FALSE
  <2>1. frames # <<>> /\ stage = "running"
    BY <1>1, DoingParts
  <2>2. CASE Continue
    BY <2>1, <2>2 DEF Continue
  <2>3. CASE Raise
    BY <2>1, <2>3, RaiseIs
  <2> QED
    BY <1>1, <2>2, <2>3
<1>2. ~ReactStep /\ ~SendStep /\ ~PersistStep /\ ~RecordStep /\ ~SocketStep /\ ~AwaitStep
  BY <1>1 DEF ReactStep, SendStep, PersistStep, RecordStep, SocketStep, AwaitStep
<1>3. \A d : ~MediaStep(d) /\ ~OweStep(d)
  BY <1>1 DEF MediaStep, OweStep
<1>4. ~DispatchStep
  <2>1. ASSUME DispatchStep PROVE Doing("dispatch")
    BY <2>1 DEF DispatchStep
  <2> QED
    BY <1>1, <2>1, DispatchedIs, DoingParts
<1>5. ~Receive /\ ~OrchestratorThrows /\ ~TakeAction /\ ~Close
  BY DEF Receive, OrchestratorThrows, TakeAction, Running, Close
<1>6. ~EndOfList
  BY EndedIs
<1>7. CASE Disconnect \/ Reconnect \/ UNCHANGED vars
  BY <1>7 DEF Disconnect, Reconnect, vars
<1> QED
  BY <1>2, <1>3, <1>4, <1>5, <1>6, <1>7
  DEF Next, DownloadStep, ConvertStep, ProbeStep, TranscodeStep, TranscribeStep

\* Some list will close.
Minded(fs) == \E f \in Lists(fs) : WillClose(f)

LEMMA MindedIs ==
  /\ Minded(frames) <=> \E i \in DOMAIN frames : WillClose(frames[i])
  /\ Minded(frames') <=> (\E i \in DOMAIN frames : WillClose(frames[i]))'
  BY DEF Minded, Lists

\* It is still there when the topmost list has gone a step further, unless it
\* was that one.
LEMMA MindedOnto ==
  ASSUME TypeOK, FramesAreSound, Minded(frames), NEW g \in Frames,
         WillClose(top) => WillClose(g)
  PROVE  Minded(Append(under, g))
<1>1. frames # <<>>
  BY NoLists DEF Minded
<1>2. frames \in Seq(Frames) /\ under \in Seq(Frames)
  BY <1>1, TopParts
<1>3. PICK f \in Lists(frames) : WillClose(f)
  BY DEF Minded
<1>4. f \in Lists(under) \/ f = top
  BY <1>1, <1>2, <1>3, ListsTop DEF under, top
<1>5. f \in Lists(under) => f \in Lists(Append(under, g))
  BY <1>2, ListsOnto
<1>6. g \in Lists(Append(under, g))
  BY <1>2, ListsOnto
<1> QED
  BY <1>3, <1>4, <1>5, <1>6 DEF Minded

LEMMA MindedUnder ==
  ASSUME TypeOK, FramesAreSound, Minded(frames), ~WillClose(top)
  PROVE  Minded(under) /\ \A g \in Frames : Minded(Append(under, g))
<1>1. frames # <<>>
  BY NoLists DEF Minded
<1>2. frames \in Seq(Frames) /\ under \in Seq(Frames)
  BY <1>1, TopParts
<1>3. PICK f \in Lists(frames) : WillClose(f)
  BY DEF Minded
<1>4. f \in Lists(under)
  BY <1>1, <1>2, <1>3, ListsTop DEF under, top
<1>5. \A g \in Frames : f \in Lists(Append(under, g))
  BY <1>2, <1>4, ListsOnto
<1> QED
  BY <1>3, <1>4, <1>5 DEF Minded

\* An exception ends no list that will close but at its own catch.
LEMMA MindedRaise ==
  ASSUME TypeOK, FramesAreSound, NEW d, Doing(d), d # "react", Raise, Minded(frames)
  PROVE  Minded(frames') /\ stage' = stage
<1>1. /\ frames # <<>> /\ Remaining(top) # <<>> /\ Head(Remaining(top)).do = d
      /\ Head(Remaining(top)) \in Steps
  BY DoingParts
<1>2. Head(Remaining(top)).mark = "none"
  BY <1>1, StepMarks
<1>3. frames \in Seq(Frames) /\ Stacked(frames) /\ Len(frames) \in Nat
  BY <1>1, TopParts
<1>4. PICK k \in DOMAIN frames : WillClose(frames[k])
  BY MindedIs
<1>5. k \in 1..Len(frames)
  BY <1>3
<1>6. Catches(frames[k]) /\ WillClose(Caught(frames[k]))
  <2>1. Sound(frames[k]) /\ frames[k] \in Frames
    BY <1>3, <1>5, BelowWaits
  <2>2. CASE k = Len(frames)
    BY <1>1, <1>2, <1>4, <2>1, <2>2, WillCatch DEF top
  <2>3. CASE k # Len(frames)
    <3>1. Waits(frames[k])
      BY <1>3, <1>5, <2>3 DEF Stacked
    <3>2. frames[k].try \in Seq(Steps) /\ frames[k].after \in Seq(Steps)
      BY <2>1, FrameType
    <3>3. frames[k].try # <<>> /\ Head(frames[k].try).do = "await" /\ Head(frames[k].try) \in Steps
      BY <3>1, <3>2, TailSteps DEF Waits
    <3>4. Remaining(frames[k]) # <<>>
      BY <3>2, <3>3, CatSteps DEF Remaining
    <3>5. Head(Remaining(frames[k])).mark = "none"
      BY <2>1, <3>3, <3>4, Now, StepMarks
    <3> QED
      BY <1>4, <2>1, <3>4, <3>5, WillCatch
  <2> QED
    BY <2>2, <2>3
<1>7. PICK i \in 1..Len(frames) :
        /\ Catches(frames[i]) /\ \A j \in 1..Len(frames) : Catches(frames[j]) => j <= i
        /\ frames' = Append(Below(frames, i), Caught(frames[i])) /\ stage' = stage
  BY <1>1, <1>3, <1>5, <1>6, RaiseIs
<1>8. k <= i
  BY <1>5, <1>6, <1>7
<1>9. Below(frames, i) \in Seq(Frames) /\ Caught(frames[i]) \in Frames
  <2>1. Waiting(Below(frames, i)) /\ Sound(frames[i])
    BY <1>3, <1>7, BelowWaits
  <2>2. Sound(Caught(frames[i]))
    BY <1>7, <2>1, CaughtSound
  <2> QED
    BY <2>1, <2>2 DEF Waiting, Sound
<1>10. CASE k = i
  <2>1. Caught(frames[i]) \in Lists(frames')
    BY <1>7, <1>9, ListsOnto
  <2> QED
    BY <1>6, <1>7, <1>10, <2>1 DEF Minded
<1>11. CASE k # i
  <2>1. k \in 1..i - 1 /\ Below(frames, i)[k] = frames[k] /\ k \in DOMAIN Below(frames, i)
    <3>1. k \in 1..i - 1
      BY <1>3, <1>5, <1>7, <1>8, <1>11
    <3>2. Below(frames, i)[k] = frames[k] /\ Len(Below(frames, i)) = i - 1
      BY <1>3, <1>7, <3>1, BelowParts
    <3>3. DOMAIN Below(frames, i) = 1..Len(Below(frames, i))
      BY <1>9
    <3> QED
      BY <3>1, <3>2, <3>3
  <2>2. frames[k] \in Lists(Below(frames, i))
    BY <2>1, InLists
  <2>3. frames[k] \in Lists(frames')
    BY <1>7, <1>9, <2>2, ListsOnto
  <2> QED
    BY <1>4, <1>7, <2>3 DEF Minded
<1> QED
  BY <1>10, <1>11

MarkAfter ==
  mark' = "busy" /\ ~lost' => stage' # "done" /\ (route' = "command" \/ Minded(frames'))

LEMMA MarkIs ==
  /\ MarkIsMinded <=> (mark = "busy" /\ ~lost =>
                         stage # "done" /\ (route = "command" \/ Minded(frames)))
  /\ MarkAfter => MarkIsMinded'
  BY MindedIs DEF MarkIsMinded, MarkAfter

\* A step that leaves the mark alone.
LEMMA MarkStep ==
  ASSUME TypeOK, FramesAreSound, MarkIsMinded, NEW d, Doing(d), d # "react",
         Continue \/ Raise, UNCHANGED <<mark, lost, route>>
  PROVE  MarkAfter
<1> SUFFICES ASSUME mark = "busy", ~lost
             PROVE  stage' # "done" /\ (route = "command" \/ Minded(frames'))
  BY DEF MarkAfter
<1>1. route = "command" \/ Minded(frames)
  BY MarkIs
<1>2. /\ frames # <<>> /\ Remaining(top) # <<>> /\ Head(Remaining(top)).do = d
      /\ Head(Remaining(top)) \in Steps /\ stage = "running"
  BY DoingParts
<1>3. stage' # "done"
  BY <1>2, RaiseIs DEF Continue
<1>4. CASE Minded(frames) /\ Continue
  <2>1. Head(Remaining(top)).mark \notin Closing
    BY <1>2, StepMarks DEF Closing
  <2>2. WillClose(top) => WillClose(Rest(top))
    BY <1>2, <2>1, TopParts, WillRest
  <2>3. frames' = Append(under, Rest(top)) /\ Rest(top) \in Frames
    BY <1>4, ContinueIs
  <2> QED
    BY <1>3, <1>4, <2>2, <2>3, MindedOnto
<1>5. CASE Minded(frames) /\ Raise
  BY <1>3, <1>5, MindedRaise
<1> QED
  BY <1>1, <1>3, <1>4, <1>5

LEMMA MarkReact ==
  ASSUME TypeOK, FramesAreSound, MarkIsMinded, ReactStep
  PROVE  MarkAfter
<1> DEFINE m == Head(Remaining(top)).mark
<1>1. Doing("react") /\ Continue /\ Reacting(m) /\ route' = route
  BY DEF ReactStep
<1>2. /\ frames # <<>> /\ Remaining(top) # <<>> /\ stage = "running"
      /\ Sound(top) /\ top \in Frames /\ under \in Seq(Frames)
  BY <1>1, DoingParts, TopParts
<1>3. frames' = Append(under, Rest(top)) /\ Rest(top) \in Frames /\ stage' = "running"
  BY <1>1, <1>2, ContinueIs
<1>4. Head(Remaining(top)) \in Steps /\ Head(Remaining(top)).do = "react"
  BY <1>1, DoingParts
<1>5. m \in {"busy", "ok", "bad"}
  BY <1>4, StepMarks
<1> SUFFICES ASSUME mark' = "busy", ~lost'
             PROVE  route = "command" \/ Minded(frames')
  BY <1>1, <1>3 DEF MarkAfter
<1>6. m = "busy"
  BY <1>1 DEF Reacting
<1>7. WillClose(Rest(top))
  BY <1>2, <1>6, WillAfterBusy
<1>8. Rest(top) \in Lists(frames')
  BY <1>2, <1>3, ListsOnto
<1> QED
  BY <1>7, <1>8 DEF Minded

LEMMA MarkRest ==
  ASSUME TypeOK, FramesAreSound, MarkIsMinded, UNCHANGED <<mark, lost, route>>,
         TakeAction \/ EndOfList \/ DispatchStep
  PROVE  MarkAfter
<1> SUFFICES ASSUME mark = "busy", ~lost
             PROVE  stage' # "done" /\ (route = "command" \/ Minded(frames'))
  BY DEF MarkAfter
<1>1. route = "command" \/ Minded(frames)
  BY MarkIs
<1>2. CASE TakeAction
  <2>1. Remaining(top) = <<>> /\ frames # <<>> /\ stage' = "running"
    BY <1>2 DEF TakeAction, Running
  <2>2. ~WillClose(top)
    BY <2>1, TopParts, WillNot
  <2>3. PICK f \in Frames : frames' = Append(under, f)
    BY <1>2, TakenIs
  <2> QED
    BY <1>1, <2>1, <2>2, <2>3, MindedUnder
<1>3. CASE EndOfList
  <2>1. Remaining(top) = <<>> /\ frames # <<>> /\ frames' = under /\ stage' # "done"
    BY <1>3, EndedIs
  <2>2. ~WillClose(top)
    BY <2>1, TopParts, WillNot
  <2> QED
    BY <1>1, <2>1, <2>2, MindedUnder
<1>4. CASE DispatchStep
  <2>1. Doing("dispatch")
    BY <1>4 DEF DispatchStep
  <2>2. frames # <<>> /\ stage = "running" /\ under \in Seq(Frames)
    BY <2>1, DoingParts, TopParts
  <2>3. CASE Raise
    BY <2>1, <2>3, MarkStep DEF MarkAfter
  <2>4. CASE frames' = Append(under, TextInPlace(top)) /\ stage' = stage
    BY <1>1, <2>1, <2>2, <2>4, DispatchParts, MindedOnto
  <2>5. ASSUME NEW list \in Seq(Kinds), stage' = stage,
               frames' = Append(Append(under, AwaitInPlace(top)), Open(list))
        PROVE  stage' # "done" /\ (route = "command" \/ Minded(frames'))
    <3>1. AwaitInPlace(top) \in Frames /\ (WillClose(top) => WillClose(AwaitInPlace(top)))
      BY <2>1, DispatchParts
    <3>2. Minded(frames) => Minded(Append(under, AwaitInPlace(top)))
      BY <3>1, MindedOnto
    <3>3. Append(under, AwaitInPlace(top)) \in Seq(Frames) /\ Open(list) \in Frames
      BY <2>2, <3>1, AppendParts, OpenSound DEF Sound
    <3>4. \A f : f \in Lists(Append(under, AwaitInPlace(top))) => f \in Lists(frames')
      BY <2>5, <3>3, ListsOnto
    <3> QED
      BY <1>1, <2>2, <2>5, <3>2, <3>4 DEF Minded
  <2> QED
    BY <1>4, <2>3, <2>4, <2>5, DispatchedIs
<1> QED
  BY <1>2, <1>3, <1>4

LEMMA MarkAlways ==
  ASSUME TypeOK, FramesAreSound, MarkIsMinded, NothingYet, [Next]_vars
  PROVE  MarkAfter
<1>1. CASE Receive
  <2>1. mark = "none" /\ stage' = "running"
    BY <1>1, ReceivedIs DEF NothingYet
  <2>2. mark' = "none" \/ route' = "command"
    BY <1>1, <2>1 DEF Receive, Execute
  <2> QED
    BY <2>1, <2>2 DEF MarkAfter
<1>2. CASE OrchestratorThrows
  <2>1. /\ stage' = "failed" /\ route' = route /\ UNCHANGED <<mark, lost>>
        /\ stage = "running" /\ Len(frames) = 1 /\ frames[1].kind = "none"
    BY <1>2 DEF OrchestratorThrows
  <2>2. frames # <<>> /\ top = frames[1]
    BY <2>1 DEF top, FramesAreSound
  <2>3. Sound(top) /\ frames \in Seq(Frames) /\ under \in Seq(Frames)
    BY <2>2, TopParts
  <2>4. ~WillClose(top)
    BY <2>1, <2>2, <2>3 DEF Sound, WillClose, Closes
  <2>5. under = <<>>
    <3>1. Len(under) = 0
      BY <2>1, <2>2, <2>3, TopParts, BelowParts DEF under
    <3> QED
      BY <2>3, <3>1, EmptySeq
  <2>6. ~Minded(frames)
    BY <2>4, <2>5, NoLists, MindedUnder DEF Minded
  <2> QED
    BY <2>1, <2>6, MarkIs DEF MarkAfter
<1>3. CASE TakeAction \/ EndOfList
  BY <1>3, MarkRest DEF TakeAction, EndOfList, effects
<1>4. CASE DispatchStep
  BY <1>4, MarkRest DEF DispatchStep
<1>5. CASE SendStep
  BY <1>5, MarkStep DEF SendStep
<1>6. CASE PersistStep \/ RecordStep
  BY <1>6, MarkStep DEF PersistStep, RecordStep, effects
<1>7. ASSUME NEW d, d # "react", MediaStep(d) \/ OweStep(d) PROVE MarkAfter
  BY <1>7, MarkStep DEF MediaStep, OweStep, effects
<1>8. CASE DownloadStep \/ ConvertStep \/ ProbeStep \/ TranscodeStep \/ TranscribeStep
  BY <1>7, <1>8 DEF DownloadStep, ConvertStep, ProbeStep, TranscodeStep, TranscribeStep
<1>9. CASE SocketStep \/ AwaitStep
  BY <1>9, MarkStep DEF SocketStep, AwaitStep, effects
<1>10. CASE Close
  <2>1. frames = <<>> /\ route' = route
    BY <1>10 DEF Close, FramesAreSound
  <2>2. ~Minded(frames)
    BY <2>1, NoLists DEF Minded
  <2>3. CASE route = "command"
    <3>1. \E m \in {"ok", "bad"} : Reacting(m)
      BY <1>10, <2>3 DEF Close
    <3> QED
      BY <3>1 DEF Reacting, MarkAfter
  <2>4. CASE route # "command"
    BY <1>10, <2>2, <2>4, MarkIs DEF Close, MarkAfter
  <2> QED
    BY <2>3, <2>4
<1>11. CASE Disconnect \/ Reconnect \/ UNCHANGED vars
  <2>1. UNCHANGED <<stage, route, frames, mark, lost>>
    BY <1>11 DEF Disconnect, Reconnect, vars
  <2> QED
    BY <2>1, MarkIs DEF MarkAfter
<1>12. OweStep("job") \/ OweStep("mute") => MarkAfter
  BY <1>7
<1> QED
  BY <1>1, <1>2, <1>3, <1>4, <1>5, <1>6, <1>8, <1>9, <1>10, <1>11, <1>12, MarkReact DEF Next

\* However lists are nested and wherever an exception is caught, a message that
\* shows as being processed still has its closing reaction before it.
THEOREM MarksSettle == Spec => []MarkSettles
<1>1. Init => MarkIsMinded /\ NothingYet
  BY DEF Init, MarkIsMinded, NothingYet
<1>2. TypeOK /\ FramesAreSound /\ MarkIsMinded /\ NothingYet /\ [Next]_vars
        => (MarkIsMinded /\ NothingYet)'
  BY MarkAlways, MarkIs, NothingYetStep
<1>3. MarkIsMinded => MarkSettles
  BY DEF MarkIsMinded, MarkSettles
<1> QED
  BY <1>1, <1>2, <1>3, BaseHolds, PTL DEF Spec

-----------------------------------------------------------------------------
(***************************************************************************)
(* What is owed.                                                           *)
(***************************************************************************)

\* Some list will still come to the job or the mute.
Coming(fs, d) == \E f \in Lists(fs) : Ahead(f, d)

LEMMA OwedIs ==
  /\ OwedIsAhead <=> (~noticed => \A d \in owed : Coming(frames, d))
  /\ (~noticed' => \A d \in owed' : Coming(frames', d)) => OwedIsAhead'
  BY DEF OwedIsAhead, Coming, Lists

LEMMA ComingOnto ==
  ASSUME TypeOK, FramesAreSound, NEW d, Coming(frames, d), NEW g \in Frames,
         Ahead(top, d) => Ahead(g, d)
  PROVE  Coming(Append(under, g), d)
<1>1. frames # <<>>
  BY NoLists DEF Coming
<1>2. frames \in Seq(Frames) /\ under \in Seq(Frames)
  BY <1>1, TopParts
<1>3. PICK f \in Lists(frames) : Ahead(f, d)
  BY DEF Coming
<1>4. f \in Lists(under) \/ f = top
  BY <1>1, <1>2, <1>3, ListsTop DEF under, top
<1>5. f \in Lists(under) => f \in Lists(Append(under, g))
  BY <1>2, ListsOnto
<1>6. g \in Lists(Append(under, g))
  BY <1>2, ListsOnto
<1> QED
  BY <1>3, <1>4, <1>5, <1>6 DEF Coming

LEMMA ComingUnder ==
  ASSUME TypeOK, FramesAreSound, NEW d, Coming(frames, d), ~Ahead(top, d)
  PROVE  Coming(under, d)
<1>1. frames # <<>>
  BY NoLists DEF Coming
<1>2. frames \in Seq(Frames)
  BY <1>1, TopParts
<1>3. PICK f \in Lists(frames) : Ahead(f, d)
  BY DEF Coming
<1>4. f \in Lists(under)
  BY <1>1, <1>2, <1>3, ListsTop DEF under, top
<1> QED
  BY <1>3, <1>4 DEF Coming

\* An exception that nobody notices is logged by the topmost action.
LEMMA ComingRaise ==
  ASSUME TypeOK, FramesAreSound, frames # <<>>, Raise, ~noticed',
         NEW d \in {"job", "mute"}, Coming(frames, d)
  PROVE  Coming(frames', d)
<1>1. frames \in Seq(Frames) /\ Stacked(frames) /\ Len(frames) \in Nat /\ Len(frames) \in 1..Len(frames)
  BY TopParts
<1>2. PICK i \in 1..Len(frames) :
        /\ Catches(frames[i]) /\ frames[i].try = <<>>
        /\ frames' = Append(Below(frames, i), Caught(frames[i]))
  BY RaiseIs
<1>3. i = Len(frames)
  BY <1>1, <1>2 DEF Stacked, Waits
<1>4. frames' = Append(under, Caught(top)) /\ Catches(top) /\ top.try = <<>>
  BY <1>2, <1>3 DEF under, top
<1>5. Sound(top) /\ Sound(Caught(top))
  BY <1>4, TopParts, CaughtSound
<1>6. Caught(top) \in Frames
  BY <1>5 DEF Sound
<1>7. Ahead(top, d) => Ahead(Caught(top), d)
  BY <1>4, <1>5, AheadCaught
<1> QED
  BY <1>4, <1>6, <1>7, ComingOnto

OwedAfter == ~noticed' => \A d \in owed' : Coming(frames', d)

LEMMA OwedStep ==
  ASSUME TypeOK, FramesAreSound, OwedIsAhead, NEW x, Doing(x),
         \/ Continue /\ owed' \subseteq owed \ {x}
         \/ Continue /\ owed' \subseteq owed /\ x \notin {"job", "mute"}
         \/ Raise /\ owed' \subseteq owed
  PROVE  OwedAfter
<1> SUFFICES ASSUME ~noticed', NEW d \in owed' PROVE Coming(frames', d)
  BY DEF OwedAfter
<1>1. /\ frames # <<>> /\ Remaining(top) # <<>> /\ Head(Remaining(top)).do = x
  BY DoingParts
<1>2. d \in owed /\ d \in {"job", "mute"}
  BY DEF TypeOK
<1>3. ~noticed
  BY <1>1, RaiseIs DEF Continue
<1>4. Coming(frames, d)
  BY <1>2, <1>3, OwedIs
<1>5. CASE Continue /\ x # d
  <2>1. frames' = Append(under, Rest(top)) /\ Rest(top) \in Frames
    BY <1>5, ContinueIs
  <2>2. Ahead(top, d) => Ahead(Rest(top), d)
    BY <1>1, <1>5, TopParts, AheadRest
  <2> QED
    BY <1>4, <2>1, <2>2, ComingOnto
<1>6. CASE Raise
  BY <1>1, <1>2, <1>4, <1>6, ComingRaise
<1> QED
  BY <1>2, <1>5, <1>6

LEMMA OwedRest ==
  ASSUME TypeOK, FramesAreSound, OwedIsAhead, TakeAction \/ EndOfList
  PROVE  OwedAfter
<1> SUFFICES ASSUME ~noticed', NEW d \in owed' PROVE Coming(frames', d)
  BY DEF OwedAfter
<1>1. /\ frames # <<>> /\ Remaining(top) = <<>> /\ owed' = owed /\ noticed' = noticed
  BY DEF TakeAction, EndOfList, Running, effects
<1>2. d \in {"job", "mute"} /\ Coming(frames, d)
  BY <1>1, OwedIs DEF TypeOK
<1>3. top \in Frames
  BY <1>1, TopParts
<1>4. top.try = <<>> /\ top.after = <<>> /\ top.rest \in Seq(Kinds)
  BY <1>1, <1>3, NothingLeft, FrameType
<1>5. Ahead(top, d) <=> \E k \in DOMAIN top.rest : top.rest[k] = d
  <2>1. Does(<<>>) = {}
    BY LooksEmpty DEF Looks
  <2> QED
    BY <1>4, <2>1 DEF Ahead
<1>6. CASE TakeAction
  <2>1. PICK kind \in Kinds, f \in Frames :
          /\ frames' = Append(under, f) /\ top.rest = <<kind>> \o f.rest
          /\ kind \in {"job", "mute"} => kind \in Does(f.try) \cup Does(f.after)
    BY <1>6, TakenIs
  <2>2. f.rest \in Seq(Kinds)
    BY FrameType
  <2>3. ASSUME NEW k \in DOMAIN top.rest, top.rest[k] = d
        PROVE  Ahead(f, d)
    <3>1. CASE k = 1
      <4>1. kind = d
        BY <2>1, <2>2, <2>3, <3>1
      <4> QED
        BY <1>2, <2>1, <4>1 DEF Ahead
    <3>2. CASE k # 1
      <4>1. k - 1 \in DOMAIN f.rest /\ f.rest[k - 1] = d
        BY <2>1, <2>2, <2>3, <3>2
      <4> QED
        BY <4>1 DEF Ahead
    <3> QED
      BY <3>1, <3>2
  <2>4. Ahead(top, d) => Ahead(f, d)
    BY <1>5, <2>3
  <2> QED
    BY <1>2, <2>1, <2>4, ComingOnto
<1>7. CASE EndOfList
  <2>1. frames' = under /\ top.rest = <<>>
    BY <1>7, EndedIs
  <2>2. ~Ahead(top, d)
    BY <1>5, <2>1
  <2> QED
    BY <1>2, <2>1, <2>2, ComingUnder
<1> QED
  BY <1>6, <1>7

LEMMA OwingComes ==
  ASSUME NEW list \in Seq(Kinds), NEW d \in Owing(list)
  PROVE  Open(list) \in Frames /\ Ahead(Open(list), d)
  BY OpenSound DEF Sound, Owing, Ahead

LEMMA OwedDispatch ==
  ASSUME TypeOK, FramesAreSound, OwedIsAhead, DispatchStep
  PROVE  OwedAfter
<1>1. Doing("dispatch")
  BY DEF DispatchStep
<1>2. frames # <<>> /\ stage = "running" /\ under \in Seq(Frames)
  BY <1>1, DoingParts, TopParts
<1>3. CASE Raise /\ owed' = owed
  BY <1>1, <1>3, OwedStep
<1>4. CASE /\ frames' = Append(under, TextInPlace(top)) /\ owed' = owed /\ noticed' = noticed
  <2> SUFFICES ASSUME ~noticed, NEW d \in owed PROVE Coming(frames', d)
    BY <1>4 DEF OwedAfter
  <2>1. Coming(frames, d) /\ d \in {"job", "mute"}
    BY OwedIs DEF TypeOK
  <2>2. TextInPlace(top) \in Frames /\ (Ahead(top, d) => Ahead(TextInPlace(top), d))
    BY <1>1, <2>1, DispatchParts
  <2> QED
    BY <1>4, <2>1, <2>2, ComingOnto
<1>5. ASSUME NEW list \in Seq(Kinds), owed' = owed \cup Owing(list), noticed' = noticed,
             frames' = Append(Append(under, AwaitInPlace(top)), Open(list))
      PROVE  OwedAfter
  <2> SUFFICES ASSUME ~noticed, NEW d \in owed' PROVE Coming(frames', d)
    BY <1>5 DEF OwedAfter
  <2>1. Append(under, AwaitInPlace(top)) \in Seq(Frames) /\ AwaitInPlace(top) \in Frames
    BY <1>1, <1>2, DispatchParts, AppendParts
  <2>2. CASE d \in owed
    <3>1. Coming(frames, d) /\ d \in {"job", "mute"}
      BY <2>2, OwedIs DEF TypeOK
    <3>2. Ahead(top, d) => Ahead(AwaitInPlace(top), d)
      BY <1>1, <3>1, DispatchParts
    <3>3. Coming(Append(under, AwaitInPlace(top)), d)
      BY <2>1, <3>1, <3>2, ComingOnto
    <3>4. Open(list) \in Frames
      BY OpenSound DEF Sound
    <3>5. \A f : f \in Lists(Append(under, AwaitInPlace(top))) => f \in Lists(frames')
      BY <1>5, <2>1, <3>4, ListsOnto
    <3> QED
      BY <3>3, <3>5 DEF Coming
  <2>3. CASE d \in Owing(list)
    <3>1. Open(list) \in Frames /\ Ahead(Open(list), d)
      BY <2>3, OwingComes
    <3>2. Open(list) \in Lists(frames')
      BY <1>5, <2>1, <3>1, ListsOnto
    <3> QED
      BY <3>1, <3>2 DEF Coming
  <2> QED
    BY <1>5, <2>2, <2>3
<1> QED
  BY <1>3, <1>4, <1>5, DispatchedIs

LEMMA OwedAlways ==
  ASSUME TypeOK, FramesAreSound, OwedIsAhead, [Next]_vars
  PROVE  OwedAfter
<1>1. CASE Receive
  <2>1. PICK list \in Seq(Kinds) : frames' = Append(<<>>, Open(list)) /\ owed' = Owing(list)
    BY <1>1, ReceivedIs
  <2>2. ASSUME NEW d \in Owing(list) PROVE Coming(frames', d)
    <3>1. Open(list) \in Frames /\ Ahead(Open(list), d)
      BY OwingComes
    <3>2. Open(list) \in Lists(frames')
      BY <2>1, <3>1, EmptyStack, ListsOnto
    <3> QED
      BY <3>1, <3>2 DEF Coming
  <2> QED
    BY <2>1, <2>2 DEF OwedAfter
<1>2. CASE OrchestratorThrows
  BY <1>2 DEF OrchestratorThrows, OwedAfter
<1>3. CASE ReactStep \/ SendStep \/ PersistStep
  BY <1>3, OwedStep DEF ReactStep, SendStep, PersistStep
<1>4. CASE RecordStep \/ SocketStep \/ AwaitStep
  BY <1>4, OwedStep DEF RecordStep, SocketStep, AwaitStep, effects
<1>5. ASSUME NEW d, d \notin {"job", "mute"}, MediaStep(d) PROVE OwedAfter
  BY <1>5, OwedStep DEF MediaStep, effects
<1>6. CASE DownloadStep \/ ConvertStep \/ ProbeStep \/ TranscodeStep \/ TranscribeStep
  BY <1>5, <1>6 DEF DownloadStep, ConvertStep, ProbeStep, TranscodeStep, TranscribeStep
<1>7. CASE OweStep("job") \/ OweStep("mute")
  BY <1>7, OwedStep DEF OweStep
<1>8. CASE Close \/ Disconnect \/ Reconnect \/ UNCHANGED vars
  <2>1. UNCHANGED <<frames, noticed, owed>>
    BY <1>8 DEF Close, Disconnect, Reconnect, vars
  <2> QED
    BY <2>1, OwedIs DEF OwedAfter
<1> QED
  BY <1>1, <1>2, <1>3, <1>4, <1>6, <1>7, <1>8, OwedRest, OwedDispatch DEF Next

\* No job and no mute of an executed list is passed over: either it was done or
\* a catch that tells somebody has seen the exception that kept it from being.
THEOREM OmissionsAreNoticed == Spec => []OmissionIsNoticed
<1>1. Init => OwedIsAhead
  BY DEF Init, OwedIsAhead
<1>2. TypeOK /\ FramesAreSound /\ OwedIsAhead /\ [Next]_vars => OwedIsAhead'
  BY OwedAlways, OwedIs DEF OwedAfter
<1>3. FramesAreSound /\ OwedIsAhead => OmissionIsNoticed
  BY DEF FramesAreSound, OwedIsAhead, OmissionIsNoticed
<1> QED
  BY <1>1, <1>2, <1>3, BaseHolds, PTL DEF Spec

-----------------------------------------------------------------------------
(***************************************************************************)
(* The replies that are due: one for each action that replies.             *)
(***************************************************************************)

\* A list as steps, so that what is known of counting steps serves for actions.
AsSteps(list) ==
  [k \in DOMAIN list |-> Step(IF list[k] \in {"noop", "job", "delete"} THEN "record" ELSE "send")]

LEMMA AsStepsCount ==
  ASSUME NEW list \in Seq(Kinds)
  PROVE  /\ AsSteps(list) \in Seq(Steps) /\ DOMAIN AsSteps(list) = DOMAIN list
         /\ Replying(list) = Count(AsSteps(list), "send")
<1> DEFINE s == AsSteps(list)
<1>1. DOMAIN list = 1..Len(list) /\ Len(list) \in Nat
  OBVIOUS
<1>2. \A k \in 1..Len(list) :
        s[k] = Step(IF list[k] \in {"noop", "job", "delete"} THEN "record" ELSE "send")
  BY <1>1 DEF AsSteps
<1>3. \A k \in 1..Len(list) : s[k] \in Steps
  BY <1>2, StepsType
<1>4. DOMAIN s = 1..Len(list)
  BY <1>1 DEF AsSteps
<1>5. s = [k \in 1..Len(list) |-> s[k]]
  BY <1>1 DEF AsSteps
<1> HIDE DEF s
<1>6. s \in Seq(Steps)
  BY <1>1, <1>3, <1>5
<1>7. \A k \in 1..Len(list) :
        s[k].do \in {"send", "dispatch"} <=> list[k] \notin {"noop", "job", "delete"}
  <2> TAKE k \in 1..Len(list)
  <2>1. CASE list[k] \in {"noop", "job", "delete"}
    <3>1. s[k] = Step("record")
      BY <1>2, <2>1
    <3> QED
      BY <2>1, <3>1 DEF Step
  <2>2. CASE list[k] \notin {"noop", "job", "delete"}
    <3>1. s[k] = Step("send")
      BY <1>2, <2>2
    <3> QED
      BY <2>2, <3>1 DEF Step
  <2> QED
    BY <2>1, <2>2
<1>8. {k \in DOMAIN s : s[k].do \in {"send", "dispatch"}}
      = {k \in DOMAIN list : list[k] \notin {"noop", "job", "delete"}}
  BY <1>1, <1>4, <1>7
<1>9. Replying(list) = Count(s, "send")
  BY <1>8 DEF Replying, Count
<1> QED
  BY <1>1, <1>4, <1>6, <1>9 DEF s

LEMMA ReplyingTail ==
  ASSUME NEW list \in Seq(Kinds), list # <<>>
  PROVE  /\ Replying(list) = Replying(Tail(list)) + Adds(Head(list))
         /\ Tail(list) \in Seq(Kinds)
<1> DEFINE s == AsSteps(list)
           t == AsSteps(Tail(list))
<1>1. Tail(list) \in Seq(Kinds) /\ 1 \in DOMAIN list /\ Head(list) = list[1]
  OBVIOUS
<1>2. /\ s \in Seq(Steps) /\ DOMAIN s = DOMAIN list /\ Replying(list) = Count(s, "send")
      /\ t \in Seq(Steps) /\ DOMAIN t = DOMAIN Tail(list) /\ Replying(Tail(list)) = Count(t, "send")
  BY <1>1, AsStepsCount
<1>3. Tail(s) = t
  <2>1. /\ Len(list) \in Nat /\ DOMAIN list = 1..Len(list)
        /\ Len(Tail(list)) = Len(list) - 1 /\ DOMAIN Tail(list) = 1..Len(list) - 1
        /\ \A k \in 1..Len(list) - 1 : Tail(list)[k] = list[k + 1]
    OBVIOUS
  <2>2. \A k \in DOMAIN list :
          s[k] = Step(IF list[k] \in {"noop", "job", "delete"} THEN "record" ELSE "send")
    BY DEF AsSteps
  <2>3. \A k \in DOMAIN Tail(list) :
          t[k] = Step(IF Tail(list)[k] \in {"noop", "job", "delete"} THEN "record" ELSE "send")
    BY DEF AsSteps
  <2> HIDE DEF s, t
  <2>4. s # <<>> /\ Len(s) = Len(list) /\ Len(t) = Len(list) - 1
    <3>1. DOMAIN s = 1..Len(s) /\ Len(s) \in Nat /\ DOMAIN t = 1..Len(t) /\ Len(t) \in Nat
      BY <1>2
    <3>2. Len(s) = Len(list)
      BY <1>2, <2>1, <3>1
    <3>3. Len(t) = Len(list) - 1
      <4>1. 1..Len(t) = 1..Len(list) - 1
        <5>1. DOMAIN t = DOMAIN Tail(list) /\ DOMAIN t = 1..Len(t)
          BY <1>2, <3>1
        <5>2. DOMAIN Tail(list) = 1..Len(list) - 1
          BY <2>1
        <5> QED
          BY <5>1, <5>2, Zenon
      <4>2. Len(list) - 1 \in Nat
        BY <1>1, <2>1
      <4>3. \A m, n \in Nat : 1..m = 1..n => m = n
        <5> SUFFICES ASSUME NEW m \in Nat, NEW n \in Nat, 1..m = 1..n, m > n PROVE FALSE
          OBVIOUS
        <5>1. m \in 1..m /\ m \notin 1..n
          OBVIOUS
        <5> QED
          BY <5>1
      <4> QED
        BY <3>1, <4>1, <4>2, <4>3
    <3>4. s # <<>>
      BY <1>1, <1>2
    <3> QED
      BY <3>2, <3>3, <3>4
  <2>5. /\ Tail(s) \in Seq(Steps) /\ Len(Tail(s)) = Len(list) - 1
        /\ \A k \in 1..Len(list) - 1 : Tail(s)[k] = s[k + 1]
    BY <1>2, <2>4, TailSteps
  <2>6. \A k \in 1..Len(list) - 1 : Tail(s)[k] = t[k]
    BY <2>1, <2>2, <2>3, <2>5
  <2> QED
    BY <1>2, <2>4, <2>5, <2>6
<1>4. Head(s) = Step(IF Head(list) \in {"noop", "job", "delete"} THEN "record" ELSE "send")
  BY <1>1, <1>2 DEF AsSteps
<1>5. (IF Head(s).do \in {"send", "dispatch"} THEN 1 ELSE 0) = Adds(Head(list))
  BY <1>4 DEF Step, Adds
<1>6. s # <<>>
  BY <1>1, <1>2
<1> HIDE DEF s, t
<1>7. Count(s, "send") = Count(t, "send") + Adds(Head(list))
  BY <1>2, <1>3, <1>5, <1>6, CountTail
<1> QED
  BY <1>1, <1>2, <1>7

LEMMA ReplyingNone == Replying(<<>>) = 0
<1>1. {i \in DOMAIN <<>> : <<>>[i] \notin {"noop", "job", "delete"}} = {}
  OBVIOUS
<1> QED
  BY <1>1, FS_EmptySet DEF Replying

\* What is left in one list.
LEMMA LeftType ==
  ASSUME NEW f \in Frames, NEW d
  PROVE  /\ Count(f.try, d) \in Nat /\ Count(f.after, d) \in Nat /\ Replying(f.rest) \in Nat
         /\ Left(f, d) \in Nat
         /\ Left(f, d) = Count(f.try, d) + Count(f.after, d) + Replying(f.rest)
<1>1. f.try \in Seq(Steps) /\ f.after \in Seq(Steps) /\ f.rest \in Seq(Kinds)
  BY FrameType
<1>2. Count(f.try, d) \in Nat /\ Count(f.after, d) \in Nat /\ Replying(f.rest) \in Nat
  BY <1>1, CountType, ReplyingType
<1> QED
  BY <1>2 DEF Left

\* A step takes off what it does itself.
LEMMA LeftRest ==
  ASSUME NEW f \in Frames, Remaining(f) # <<>>, NEW d
  PROVE  Left(f, d) = Left(Rest(f), d)
                      + IF Head(Remaining(f)).do \in {d, "dispatch"} THEN 1 ELSE 0
<1> DEFINE g == Rest(f)
           one(x) == IF x.do \in {d, "dispatch"} THEN 1 ELSE 0
<1>1. f.try \in Seq(Steps) /\ f.after \in Seq(Steps) /\ g \in Frames
  BY FrameType, RestParts
<1>2. /\ g.rest = f.rest
      /\ f.try # <<>> => g.try = Tail(f.try) /\ g.after = f.after
      /\ f.try = <<>> => g.try = f.try /\ g.after = Tail(f.after)
  BY RestParts
<1>3. \A s \in Seq(Steps) : s # <<>> => Count(s, d) = Count(Tail(s), d) + one(Head(s))
  BY CountTail
<1>4. \A x : one(x) \in {0, 1}
  OBVIOUS
<1>5. /\ f.try # <<>> => Head(Remaining(f)) = Head(f.try)
      /\ f.try = <<>> => f.after # <<>> /\ Head(Remaining(f)) = Head(f.after)
  BY Now
<1> HIDE DEF g, one
<1>6. /\ Count(f.try, d) \in Nat /\ Count(f.after, d) \in Nat /\ Replying(f.rest) \in Nat
      /\ Left(f, d) = Count(f.try, d) + Count(f.after, d) + Replying(f.rest)
  BY LeftType
<1>7. /\ Count(g.try, d) \in Nat /\ Count(g.after, d) \in Nat
      /\ Left(g, d) = Count(g.try, d) + Count(g.after, d) + Replying(g.rest)
  BY <1>1, LeftType
<1>8. Left(f, d) = Left(g, d) + one(Head(Remaining(f)))
  <2>1. CASE f.try # <<>>
    <3>1. Count(f.try, d) = Count(g.try, d) + one(Head(Remaining(f)))
      BY <1>1, <1>2, <1>3, <1>5, <2>1
    <3> QED
      BY <1>2, <1>4, <1>6, <1>7, <2>1, <3>1
  <2>2. CASE f.try = <<>>
    <3>1. Count(f.after, d) = Count(g.after, d) + one(Head(Remaining(f)))
      BY <1>1, <1>2, <1>3, <1>5, <2>2
    <3> QED
      BY <1>2, <1>4, <1>6, <1>7, <2>2, <3>1
  <2> QED
    BY <2>1, <2>2
<1> QED
  BY <1>8 DEF g, one

\* The catch of media that failed is to send as much as the way it replaces.
LEMMA LeftCaught ==
  ASSUME NEW f, Sound(f), Remaining(f) # <<>>, Head(Remaining(f)).do \in Media, NEW d \in Replies
  PROVE  Catches(f) /\ Caught(f) \in Frames /\ Left(Caught(f), d) = Left(f, d)
<1>1. f \in Frames /\ f.try \in Seq(Steps) /\ f.after \in Seq(Steps)
  BY FrameType DEF Sound
<1>2. f.try # <<>>
  <2> SUFFICES ASSUME f.try = <<>> PROVE FALSE
    OBVIOUS
  <2>1. f.after # <<>> /\ Head(f.after).do \in Media
    BY <1>1, Now
  <2>2. Head(f.after).do \in Does(f.after)
    BY <1>1, <2>1, TailDoes
  <2> QED
    BY <2>1, <2>2 DEF Sound, FallbackReplies
<1>3. Head(f.try).do \in Does(f.try) \cap Media
  BY <1>1, <1>2, Now, TailDoes
<1>4. f.catch # <<>> /\ Count(f.catch, d) = Count(f.try, d) + Count(f.after, d)
  BY <1>3 DEF Sound, FallbackReplies
<1>5. Catches(f)
  BY <1>2, <1>4 DEF Catches
<1>6. /\ Sound(Caught(f)) /\ Caught(f).rest = f.rest /\ Caught(f).try = <<>>
      /\ Caught(f).after = f.catch
  BY <1>2, <1>5, CaughtSound
<1>7. Caught(f) \in Frames
  BY <1>6 DEF Sound
<1>8. Count(<<>>, d) = 0
  BY CountEmpty
<1> QED
  BY <1>1, <1>4, <1>5, <1>6, <1>7, <1>8, LeftType

\* A list that is opened has all of its actions left, one that ends has none.
LEMMA LeftOpen ==
  ASSUME NEW list \in Seq(Kinds)
  PROVE  \A d : Left(Open(list), d) = Replying(list)
<1> TAKE d
<1>1. Open(list) \in Frames
  BY OpenSound DEF Sound
<1>2. Count(<<>>, d) = 0
  BY CountEmpty
<1> QED
  BY <1>1, <1>2, OpenSound, LeftType

LEMMA LeftNone ==
  ASSUME NEW f \in Frames, Remaining(f) = <<>>
  PROVE  \A d : Left(f, d) = Replying(f.rest)
<1> TAKE d
<1>1. f.try = <<>> /\ f.after = <<>>
  BY NothingLeft
<1>2. Count(<<>>, d) = 0
  BY CountEmpty
<1> QED
  BY <1>1, <1>2, LeftType

\* The running total: of no list, with one list more and with one less.
Total(p, fs, d, n) ==
  /\ p \in [0..Len(fs) -> 0..n]
  /\ p[0] = 0 /\ p[Len(fs)] = n
  /\ \A i \in 1..Len(fs) : p[i] = p[i - 1] + Left(fs[i], d)
  /\ \A i, j \in 0..Len(fs) : i <= j => p[i] <= p[j]

LEMMA OwesIs ==
  \A fs, d, n : Owes(fs, d, n) <=> \E p : Total(p, fs, d, n)
  BY DEF Owes, Total

LEMMA OwesNothing ==
  ASSUME NEW d, NEW n \in Int
  PROVE  Owes(<<>>, d, n) <=> n = 0
<1>1. Len(<<>>) = 0
  OBVIOUS
<1>2. ASSUME NEW p, Total(p, <<>>, d, n) PROVE n = 0
  BY <1>1, <1>2 DEF Total
<1>3. ASSUME n = 0 PROVE Owes(<<>>, d, n)
  <2> DEFINE p == [i \in 0..0 |-> 0]
  <2>1. p \in [0..0 -> 0..0] /\ p[0] = 0
    OBVIOUS
  <2> HIDE DEF p
  <2>2. Total(p, <<>>, d, 0)
    BY <1>1, <2>1 DEF Total
  <2> QED
    BY <1>3, <2>2, OwesIs
<1> QED
  BY <1>2, <1>3, OwesIs

LEMMA OwesOnto ==
  ASSUME NEW gs \in Seq(Frames), NEW f \in Frames, NEW d, NEW n \in Int, Owes(gs, d, n)
  PROVE  Owes(Append(gs, f), d, n + Left(f, d))
<1> DEFINE hs == Append(gs, f)
           l == Left(f, d)
           k == Len(gs)
           m == n + l
<1>1. /\ Len(hs) = k + 1 /\ k \in Nat /\ hs[k + 1] = f
      /\ \A j \in 1..k : hs[j] = gs[j]
  BY AppendParts
<1>2. l \in Nat
  BY LeftType
<1>3. PICK p : Total(p, gs, d, n)
  BY OwesIs
<1>4. /\ p \in [0..k -> 0..n] /\ p[0] = 0 /\ p[k] = n
      /\ \A i \in 1..k : p[i] = p[i - 1] + Left(gs[i], d)
      /\ \A i, j \in 0..k : i <= j => p[i] <= p[j]
  BY <1>3 DEF Total
<1>5. n \in Nat /\ m \in Nat /\ n <= m /\ 0..n \subseteq 0..m
  BY <1>1, <1>2, <1>4
<1> DEFINE q == [i \in 0..k + 1 |-> IF i = k + 1 THEN m ELSE p[i]]
<1>6. q \in [0..k + 1 -> 0..m]
  BY <1>1, <1>4, <1>5
<1>7. q[k + 1] = m /\ \A i \in 0..k : q[i] = p[i]
  BY <1>1
<1> HIDE DEF q, hs, l
<1>8. q[0] = 0
  BY <1>1, <1>4, <1>7
<1>9. \A i \in 1..k + 1 : q[i] = q[i - 1] + Left(hs[i], d)
  <2> TAKE i \in 1..k + 1
  <2>1. CASE i = k + 1
    BY <1>1, <1>4, <1>7, <2>1 DEF l
  <2>2. CASE i \in 1..k
    BY <1>1, <1>4, <1>7, <2>2
  <2> QED
    BY <1>1, <2>1, <2>2
<1>10. \A i, j \in 0..k + 1 : i <= j => q[i] <= q[j]
  <2> SUFFICES ASSUME NEW i \in 0..k + 1, NEW j \in 0..k + 1, i <= j PROVE q[i] <= q[j]
    OBVIOUS
  <2>1. CASE j = k + 1
    BY <1>5, <1>6, <1>7, <2>1
  <2>2. CASE j \in 0..k
    BY <1>1, <1>4, <1>7, <2>2
  <2> QED
    BY <1>1, <2>1, <2>2
<1>11. Total(q, hs, d, m)
  BY <1>1, <1>6, <1>7, <1>8, <1>9, <1>10 DEF Total
<1>12. Owes(hs, d, m)
  BY <1>11, OwesIs
<1> QED
  BY <1>12 DEF hs, l

LEMMA OwesUnder ==
  ASSUME NEW fs \in Seq(Frames), fs # <<>>, NEW d, NEW n \in Int, Owes(fs, d, n)
  PROVE  Owes(Below(fs, Len(fs)), d, n - Left(fs[Len(fs)], d))
<1> DEFINE k == Len(fs)
           gs == Below(fs, k)
           l == Left(fs[k], d)
           m == n - l
<1>1. k \in 1..k /\ k \in Nat /\ fs[k] \in Frames
  OBVIOUS
<1>2. Len(gs) = k - 1 /\ \A j \in 1..k - 1 : gs[j] = fs[j]
  BY <1>1, BelowParts
<1>3. l \in Nat
  BY <1>1, LeftType
<1>4. PICK p : Total(p, fs, d, n)
  BY OwesIs
<1>5. /\ p \in [0..k -> 0..n] /\ p[0] = 0 /\ p[k] = n
      /\ \A i \in 1..k : p[i] = p[i - 1] + Left(fs[i], d)
      /\ \A i, j \in 0..k : i <= j => p[i] <= p[j]
  BY <1>4 DEF Total
<1> HIDE DEF gs, l, k
<1>6. p[k - 1] = m /\ m \in Nat
  <2>1. p[k] = p[k - 1] + l /\ p[k - 1] \in 0..n /\ n \in Nat
    BY <1>1, <1>5 DEF l
  <2> QED
    BY <1>3, <1>5, <2>1
<1> DEFINE q == [i \in 0..k - 1 |-> p[i]]
<1>7. \A i \in 0..k - 1 : q[i] = p[i] /\ p[i] \in Nat /\ p[i] <= m
  BY <1>1, <1>5, <1>6
<1>8. q \in [0..k - 1 -> 0..m]
  BY <1>6, <1>7
<1> HIDE DEF q
<1>9. q[0] = 0 /\ q[k - 1] = m
  BY <1>1, <1>5, <1>6, <1>7
<1>10. \A i \in 1..k - 1 : q[i] = q[i - 1] + Left(gs[i], d)
  BY <1>1, <1>2, <1>5, <1>7
<1>11. \A i, j \in 0..k - 1 : i <= j => q[i] <= q[j]
  BY <1>1, <1>5, <1>7
<1>12. Total(q, gs, d, m)
  BY <1>2, <1>8, <1>9, <1>10, <1>11 DEF Total
<1>13. Owes(gs, d, m)
  BY <1>12, OwesIs
<1> QED
  BY <1>13 DEF gs, l, k

\* The list on top is replaced by another.
LEMMA OwesInstead ==
  ASSUME TypeOK, FramesAreSound, frames # <<>>, NEW f \in Frames, NEW d, NEW n \in Int,
         Owes(frames, d, n)
  PROVE  Owes(Append(under, f), d, n - Left(top, d) + Left(f, d))
<1>1. frames \in Seq(Frames) /\ under \in Seq(Frames) /\ top \in Frames
  BY TopParts
<1>2. Left(top, d) \in Nat
  BY <1>1, LeftType
<1>3. Owes(under, d, n - Left(top, d))
  BY <1>1, OwesUnder DEF under, top
<1>4. n - Left(top, d) \in Int
  BY <1>2
<1> QED
  BY <1>1, <1>3, <1>4, OwesOnto

\* What is outstanding after a step.
After(d) == due' - (IF d = "send" THEN sent' ELSE stored')
BalancedAfter ==
  faults' = 0 => /\ socket' /\ stage' # "failed"
                 /\ \A d \in Replies : Owes(frames', d, After(d))

LEMMA BalancedIs ==
  /\ BalancedAfter <=> Balanced'
  /\ TypeOK => \A d \in Replies : Outstanding(d) \in Int
<1>1. BalancedAfter <=> Balanced'
  BY DEF BalancedAfter, Balanced, After, Outstanding, Replies
<1>2. ASSUME TypeOK, NEW d PROVE Outstanding(d) \in Int
  BY <1>2, EffectsBefore DEF Outstanding
<1> QED
  BY <1>1, <1>2

\* Nothing has failed yet, nor does it in this step.
Smooth == TypeOK /\ FramesAreSound /\ Balanced /\ faults = 0 /\ faults' = 0

LEMMA SmoothParts ==
  ASSUME Smooth
  PROVE  /\ TypeOK /\ FramesAreSound /\ ~OneFault /\ socket = TRUE /\ stage # "failed"
         /\ \A d \in Replies : Owes(frames, d, Outstanding(d)) /\ Outstanding(d) \in Int
  BY EffectsBefore, BalancedIs DEF Smooth, OneFault, Balanced

\* A step counts for the messages it sends and stores, and for nothing else.
LEMMA BalanceStep ==
  ASSUME Smooth, NEW x, x # "dispatch", Doing(x), Continue, socket' = socket, due' = due,
         sent' = sent + (IF x = "send" THEN 1 ELSE 0),
         stored' = stored + (IF x = "persist" THEN 1 ELSE 0)
  PROVE  BalancedAfter
<1>1. /\ frames # <<>> /\ Remaining(top) # <<>> /\ Head(Remaining(top)).do = x
      /\ stage = "running" /\ top \in Frames
  BY SmoothParts, DoingParts, TopParts
<1>2. frames' = Append(under, Rest(top)) /\ Rest(top) \in Frames /\ stage' = stage
  BY SmoothParts, ContinueIs
<1>3. ASSUME NEW d \in Replies PROVE Owes(frames', d, After(d))
  <2> DEFINE one == IF x = d THEN 1 ELSE 0
  <2>1. d \in {"send", "persist"} /\ one \in {0, 1}
    BY DEF Replies
  <2>2. Left(top, d) = Left(Rest(top), d) + one
    BY <1>1, LeftRest
  <2>3. After(d) = Outstanding(d) - one
    BY <2>1, SmoothParts, EffectsBefore DEF After, Outstanding
  <2>4. Left(top, d) \in Nat /\ Left(Rest(top), d) \in Nat
    BY <1>1, <1>2, LeftType
  <2>5. Outstanding(d) \in Int
    BY SmoothParts
  <2> HIDE DEF one
  <2>6. After(d) = Outstanding(d) - Left(top, d) + Left(Rest(top), d)
    BY <2>1, <2>2, <2>3, <2>4, <2>5
  <2> QED
    BY <1>1, <1>2, <2>6, SmoothParts, OwesInstead
<1> QED
  BY <1>1, <1>2, <1>3, SmoothParts DEF BalancedAfter

\* Media that fail end in the catch of their own action.
LEMMA BalanceMedia ==
  ASSUME Smooth, NEW x \in Media, Doing(x), Raise, UNCHANGED <<socket, due, sent, stored>>
  PROVE  BalancedAfter
<1>1. /\ frames # <<>> /\ Remaining(top) # <<>> /\ Head(Remaining(top)).do = x
      /\ stage = "running" /\ Sound(top) /\ Len(frames) \in 1..Len(frames)
      /\ frames \in Seq(Frames)
  BY SmoothParts, DoingParts, TopParts
<1>2. Catches(top)
  <2>1. "send" \in Replies
    BY DEF Replies
  <2> QED
    BY <1>1, <2>1, LeftCaught
<1>3. PICK i \in 1..Len(frames) :
        /\ Catches(frames[i]) /\ \A j \in 1..Len(frames) : Catches(frames[j]) => j <= i
        /\ frames' = Append(Below(frames, i), Caught(frames[i])) /\ stage' = stage
  <2>1. ~(\A i \in DOMAIN frames : ~Catches(frames[i]))
    BY <1>1, <1>2 DEF top
  <2> QED
    BY <1>1, <2>1, SmoothParts, RaiseIs
<1>4. i = Len(frames)
  BY <1>1, <1>2, <1>3 DEF top
<1>5. frames' = Append(under, Caught(top))
  BY <1>3, <1>4 DEF under, top
<1>6. ASSUME NEW d \in Replies PROVE Owes(frames', d, After(d))
  <2>1. Caught(top) \in Frames /\ Left(Caught(top), d) = Left(top, d)
    BY <1>1, LeftCaught
  <2>2. After(d) = Outstanding(d) /\ Outstanding(d) \in Int
    BY SmoothParts DEF After, Outstanding
  <2>3. Left(top, d) \in Nat
    BY <1>1, LeftType DEF Sound
  <2>4. After(d) = Outstanding(d) - Left(top, d) + Left(Caught(top), d)
    BY <2>1, <2>2, <2>3
  <2> QED
    BY <1>1, <1>5, <2>1, <2>2, <2>4, SmoothParts, OwesInstead
<1> QED
  BY <1>1, <1>3, <1>6, SmoothParts DEF BalancedAfter

\* An action is taken as the plan that replies for it.
LEMMA BalanceTaken ==
  ASSUME Smooth, TakeAction
  PROVE  BalancedAfter
<1>1. frames # <<>> /\ Remaining(top) = <<>> /\ top \in Frames /\ stage = "running"
  BY SmoothParts, TopParts DEF TakeAction, Running
<1>2. UNCHANGED <<socket, stage, due, sent, stored>>
  BY DEF TakeAction, effects
<1>3. PICK kind \in Kinds, f \in Frames :
        /\ frames' = Append(under, f)
        /\ top.rest = <<kind>> \o f.rest /\ top.rest # <<>> /\ f.rest = Tail(top.rest)
        /\ \A d \in Replies : Count(f.try, d) + Count(f.after, d) = Adds(kind)
  BY SmoothParts, TakenIs
<1>4. top.rest \in Seq(Kinds) /\ f.rest \in Seq(Kinds)
  BY <1>1, FrameType
<1>5. Head(top.rest) = kind
  BY <1>3, <1>4
<1>6. Replying(top.rest) = Replying(f.rest) + Adds(kind)
  BY <1>3, <1>4, <1>5, ReplyingTail
<1>7. ASSUME NEW d \in Replies PROVE Owes(frames', d, After(d))
  <2>1. Left(top, d) = Replying(top.rest) /\ Left(top, d) \in Nat
    BY <1>1, LeftNone, LeftType
  <2>2. Left(f, d) = Adds(kind) + Replying(f.rest) /\ Adds(kind) \in Nat /\ Replying(f.rest) \in Nat
    BY <1>3, LeftType DEF Adds
  <2>3. After(d) = Outstanding(d) /\ Outstanding(d) \in Int
    BY <1>2, SmoothParts DEF After, Outstanding
  <2>4. After(d) = Outstanding(d) - Left(top, d) + Left(f, d)
    BY <1>6, <2>1, <2>2, <2>3
  <2> QED
    BY <1>1, <1>3, <2>3, <2>4, SmoothParts, OwesInstead
<1> QED
  BY <1>1, <1>2, <1>7, SmoothParts DEF BalancedAfter

LEMMA BalanceEnded ==
  ASSUME Smooth, EndOfList
  PROVE  BalancedAfter
<1>1. /\ frames # <<>> /\ Remaining(top) = <<>> /\ top.rest = <<>> /\ frames' = under
      /\ stage' # "failed"
  BY SmoothParts, EndedIs
<1>2. frames \in Seq(Frames) /\ top \in Frames
  BY <1>1, SmoothParts, TopParts
<1>3. UNCHANGED <<socket, due, sent, stored>>
  BY DEF EndOfList, effects
<1>4. ASSUME NEW d \in Replies PROVE Owes(frames', d, After(d))
  <2>1. Left(top, d) = 0
    BY <1>1, <1>2, LeftNone, ReplyingNone
  <2>2. After(d) = Outstanding(d) /\ Outstanding(d) \in Int
    BY <1>3, SmoothParts DEF After, Outstanding
  <2>3. Owes(under, d, Outstanding(d) - Left(top, d))
    BY <1>1, <1>2, <2>2, SmoothParts, OwesUnder DEF under, top
  <2> QED
    BY <1>1, <2>1, <2>2, <2>3
<1> QED
  BY <1>1, <1>3, <1>4, SmoothParts DEF BalancedAfter

\* The transcript in the place of a dispatch is what the dispatch stood for; the
\* wait for a list is nothing.
LEMMA LeftInPlace ==
  ASSUME Smooth, Doing("dispatch"), NEW d \in Replies
  PROVE  /\ top \in Frames /\ TextInPlace(top) \in Frames /\ AwaitInPlace(top) \in Frames
         /\ Left(TextInPlace(top), d) = Left(top, d)
         /\ Left(AwaitInPlace(top), d) = Left(top, d) - 1
<1> DEFINE t == Tail(top.try)
           after == Count(top.after, d) + Replying(top.rest)
<1>1. /\ top \in Frames /\ TextInPlace(top) \in Frames /\ AwaitInPlace(top) \in Frames
      /\ top.try \in Seq(Steps) /\ top.try # <<>> /\ Head(top.try).do = "dispatch"
      /\ TextInPlace(top).try = SendTextAndPersist \o t
      /\ AwaitInPlace(top).try = <<Step("await")>> \o t
      /\ TextInPlace(top).rest = top.rest /\ TextInPlace(top).after = top.after
      /\ AwaitInPlace(top).rest = top.rest /\ AwaitInPlace(top).after = top.after
  BY SmoothParts, DispatchParts DEF Sound
<1>2. t \in Seq(Steps)
  BY <1>1, TailSteps
<1>3. /\ SendTextAndPersist \in Seq(Steps) /\ Count(SendTextAndPersist, d) = 1
      /\ <<Step("await")>> \in Seq(Steps) /\ Count(<<Step("await")>>, d) = 0
  BY LooksPieces DEF Looks
<1> HIDE DEF t, after
<1>4. Count(SendTextAndPersist \o t, d) = 1 + Count(t, d)
  BY <1>2, <1>3, CountCat
<1>5. Count(<<Step("await")>> \o t, d) = 0 + Count(t, d)
  <2>1. Count(<<Step("await")>> \o t, d) = Count(<<Step("await")>>, d) + Count(t, d)
    BY <1>2, <1>3, CountCat, Zenon
  <2> QED
    BY <1>3, <2>1, Zenon
<1>6. Count(top.try, d) = Count(t, d) + 1
  BY <1>1, CountTail DEF t
<1>7. /\ Count(t, d) \in Nat /\ after \in Nat
      /\ Left(top, d) = Count(top.try, d) + after
  <2>1. Count(t, d) \in Nat
    BY <1>2, CountType
  <2>2. /\ Count(top.try, d) \in Nat /\ Count(top.after, d) \in Nat
        /\ Replying(top.rest) \in Nat
        /\ Left(top, d) = Count(top.try, d) + Count(top.after, d) + Replying(top.rest)
    BY <1>1, LeftType
  <2> QED
    BY <2>1, <2>2 DEF after
<1>8. /\ Left(TextInPlace(top), d) = Count(SendTextAndPersist \o t, d) + after
      /\ Left(AwaitInPlace(top), d) = Count(<<Step("await")>> \o t, d) + after
  <2>1. Left(TextInPlace(top), d) =
          Count(SendTextAndPersist \o t, d) + Count(top.after, d) + Replying(top.rest)
    BY <1>1 DEF Left
  <2>2. Left(AwaitInPlace(top), d) =
          Count(<<Step("await")>> \o t, d) + Count(top.after, d) + Replying(top.rest)
    BY <1>1 DEF Left
  <2>3. Count(top.after, d) \in Nat /\ Replying(top.rest) \in Nat
    BY <1>1, LeftType
  <2>4. Count(SendTextAndPersist \o t, d) \in Nat /\ Count(<<Step("await")>> \o t, d) \in Nat
    BY <1>4, <1>5, <1>7
  <2> QED
    BY <2>1, <2>2, <2>3, <2>4 DEF after
<1> QED
  BY <1>1, <1>4, <1>5, <1>6, <1>7, <1>8

LEMMA BalanceDispatch ==
  ASSUME Smooth, DispatchStep
  PROVE  BalancedAfter
<1>1. Doing("dispatch") /\ UNCHANGED <<socket, sent, stored>>
  BY DEF DispatchStep
<1>2. frames # <<>> /\ stage = "running" /\ under \in Seq(Frames)
  BY <1>1, SmoothParts, DoingParts, TopParts
<1>3. CASE /\ frames' = Append(under, TextInPlace(top))
           /\ UNCHANGED <<due, owed, faults, stage, noticed>>
  <2>1. ASSUME NEW d \in Replies PROVE Owes(frames', d, After(d))
    <3>1. /\ Left(TextInPlace(top), d) = Left(top, d) /\ Left(top, d) \in Nat
          /\ TextInPlace(top) \in Frames
      BY <1>1, LeftInPlace, LeftType
    <3>2. After(d) = Outstanding(d) /\ Outstanding(d) \in Int
      BY <1>1, <1>3, SmoothParts DEF After, Outstanding
    <3>3. After(d) = Outstanding(d) - Left(top, d) + Left(TextInPlace(top), d)
      BY <3>1, <3>2
    <3> QED
      BY <1>2, <1>3, <3>1, <3>2, <3>3, SmoothParts, OwesInstead
  <2> QED
    BY <1>1, <1>2, <1>3, <2>1, SmoothParts DEF BalancedAfter
<1>4. ASSUME NEW list \in Seq(Kinds), due' = due - 1 + Replying(list), stage' = stage,
             frames' = Append(Append(under, AwaitInPlace(top)), Open(list))
      PROVE  BalancedAfter
  <2>1. ASSUME NEW d \in Replies PROVE Owes(frames', d, After(d))
    <3> DEFINE gs == Append(under, AwaitInPlace(top))
    <3>1. /\ Left(AwaitInPlace(top), d) = Left(top, d) - 1 /\ Left(top, d) \in Nat
          /\ AwaitInPlace(top) \in Frames /\ Left(AwaitInPlace(top), d) \in Nat
      BY <1>1, LeftInPlace, LeftType
    <3>2. Outstanding(d) \in Int /\ Replying(list) \in Nat
      BY SmoothParts, ReplyingType
    <3>3. After(d) = Outstanding(d) - 1 + Replying(list)
      <4>1. due \in Int /\ sent \in Nat /\ stored \in Nat
        BY SmoothParts, EffectsBefore
      <4> QED
        BY <1>1, <1>4, <3>2, <4>1 DEF After, Outstanding
    <3>4. Outstanding(d) - Left(top, d) + Left(AwaitInPlace(top), d) = Outstanding(d) - 1
      BY <3>1, <3>2
    <3>5. Owes(gs, d, Outstanding(d) - 1)
      BY <1>2, <3>1, <3>2, <3>4, SmoothParts, OwesInstead
    <3>6. gs \in Seq(Frames) /\ Open(list) \in Frames /\ Left(Open(list), d) = Replying(list)
      BY <1>2, <3>1, AppendParts, OpenSound, LeftOpen DEF Sound
    <3> HIDE DEF gs
    <3>7. Owes(Append(gs, Open(list)), d, Outstanding(d) - 1 + Left(Open(list), d))
      BY <3>2, <3>5, <3>6, OwesOnto
    <3> QED
      BY <1>4, <3>3, <3>6, <3>7 DEF gs
  <2> QED
    BY <1>1, <1>2, <1>4, <2>1, SmoothParts DEF BalancedAfter
<1> QED
  BY <1>3, <1>4, SmoothParts, DispatchedIs

LEMMA BalanceReceived ==
  ASSUME Smooth, NothingYet, Receive
  PROVE  BalancedAfter
<1>1. PICK list \in Seq(Kinds) : frames' = Append(<<>>, Open(list)) /\ due' = Replying(list)
  BY ReceivedIs
<1>2. stage' = "running" /\ sent = 0 /\ stored = 0 /\ UNCHANGED <<socket, sent, stored>>
  BY ReceivedIs DEF NothingYet, Receive
<1>3. ASSUME NEW d \in Replies PROVE Owes(frames', d, After(d))
  <2>1. Replying(list) \in Nat /\ After(d) = Replying(list)
    BY <1>1, <1>2, ReplyingType DEF After
  <2>2. Open(list) \in Frames /\ Left(Open(list), d) = Replying(list)
    BY OpenSound, LeftOpen DEF Sound
  <2>3. Owes(<<>>, d, 0) /\ <<>> \in Seq(Frames)
    BY OwesNothing, EmptyStack
  <2>4. \A n \in Int : Owes(<<>>, d, n)
          => Owes(Append(<<>>, Open(list)), d, n + Left(Open(list), d))
    BY <2>2, <2>3, OwesOnto
  <2>5. Owes(Append(<<>>, Open(list)), d, 0 + Left(Open(list), d))
    BY <2>3, <2>4
  <2> QED
    BY <1>1, <2>1, <2>2, <2>5
<1> QED
  BY <1>2, <1>3, SmoothParts DEF BalancedAfter

LEMMA BalanceAlways ==
  ASSUME TypeOK, FramesAreSound, NothingYet, Balanced, [Next]_vars
  PROVE  BalancedAfter
<1> SUFFICES ASSUME faults' = 0 PROVE BalancedAfter
  BY DEF BalancedAfter
<1>0. ~OneFault
  BY EffectsBefore DEF OneFault
<1>1. ~OrchestratorThrows /\ ~Disconnect
  BY <1>0 DEF OrchestratorThrows, Disconnect, OneFault, MayFail
<1>2. faults' = faults
  BY <1>0, <1>1 DEF Next, Receive, Reacting, TakeAction, EndOfList, ReactStep, SendStep,
     PersistStep, RecordStep, SocketStep, MediaStep, DownloadStep, ConvertStep, ProbeStep,
     TranscodeStep, TranscribeStep, OweStep, DispatchStep, AwaitStep, Close, Reconnect, vars
<1>3. Smooth
  BY <1>2 DEF Smooth
<1>4. sent \in Nat /\ stored \in Nat /\ due \in Int
  BY EffectsBefore
<1>5. CASE ReactStep \/ SendStep \/ PersistStep
  <2>1. CASE ReactStep
    BY <1>3, <1>4, <2>1, BalanceStep DEF ReactStep
  <2>2. CASE SendStep
    BY <1>0, <1>3, <1>4, <2>2, SmoothParts, BalanceStep DEF SendStep
  <2>3. CASE PersistStep
    BY <1>0, <1>3, <1>4, <2>3, BalanceStep DEF PersistStep
  <2> QED
    BY <1>5, <2>1, <2>2, <2>3
<1>6. CASE RecordStep \/ SocketStep \/ AwaitStep
  <2>1. CASE RecordStep
    BY <1>0, <1>3, <1>4, <2>1, BalanceStep DEF RecordStep, effects
  <2>2. CASE SocketStep
    BY <1>3, <1>4, <2>2, SmoothParts, BalanceStep DEF SocketStep, effects
  <2>3. CASE AwaitStep
    BY <1>3, <1>4, <2>3, BalanceStep DEF AwaitStep, effects
  <2> QED
    BY <1>6, <2>1, <2>2, <2>3
<1>7. CASE OweStep("job") \/ OweStep("mute")
  BY <1>0, <1>3, <1>4, <1>7, BalanceStep DEF OweStep
<1>8. ASSUME NEW x \in Media, MediaStep(x) PROVE BalancedAfter
  <2>1. Doing(x) /\ UNCHANGED <<socket, due, sent, stored>> /\ (Continue \/ Raise)
    BY <1>8 DEF MediaStep, effects
  <2>2. CASE Continue
    <3>1. x \notin {"send", "persist", "dispatch"}
      BY DEF Media
    <3> QED
      BY <1>3, <1>4, <2>1, <2>2, <3>1, BalanceStep
  <2>3. CASE Raise
    BY <1>3, <2>1, <2>3, BalanceMedia
  <2> QED
    BY <2>1, <2>2, <2>3
<1>9. CASE DownloadStep \/ ConvertStep \/ ProbeStep \/ TranscodeStep \/ TranscribeStep
  BY <1>8, <1>9
  DEF Media, DownloadStep, ConvertStep, ProbeStep, TranscodeStep, TranscribeStep
<1>10. CASE Close \/ Reconnect \/ UNCHANGED vars
  <2>1. UNCHANGED <<socket, frames, due, sent, stored>> /\ stage' # "failed"
    BY <1>3, <1>10, SmoothParts DEF Close, Reconnect, vars
  <2>2. \A d : After(d) = Outstanding(d)
    BY <2>1 DEF After, Outstanding
  <2> QED
    BY <1>3, <2>1, <2>2, SmoothParts DEF BalancedAfter
<1> QED
  BY <1>1, <1>3, <1>5, <1>6, <1>7, <1>9, <1>10, BalanceReceived, BalanceTaken, BalanceEnded,
     BalanceDispatch DEF Next

\* Where no call fails every action that replies has put one message in the chat
\* and one in the history, through whatever fallbacks and nested lists.
THEOREM EveryReplyOnce == Spec => []OneReplyEach
<1>1. Init => NothingYet /\ Balanced
  <2> SUFFICES ASSUME Init PROVE NothingYet /\ Balanced
    OBVIOUS
  <2>1. /\ socket = TRUE /\ stage = "received" /\ mark = "none" /\ frames = <<>>
        /\ sent = 0 /\ stored = 0 /\ due = 0
    BY DEF Init
  <2>2. \A d : Outstanding(d) = 0 /\ Owes(frames, d, 0)
    BY <2>1, OwesNothing DEF Outstanding
  <2> QED
    BY <2>1, <2>2 DEF NothingYet, Balanced
<1>2. TypeOK /\ FramesAreSound /\ NothingYet /\ Balanced /\ [Next]_vars
      => NothingYet' /\ Balanced'
  BY BalanceAlways, BalancedIs, NothingYetStep
<1>3. TypeOK /\ FramesAreSound /\ Balanced => OneReplyEach
  <2> SUFFICES ASSUME TypeOK, FramesAreSound, Balanced, stage = "done", faults = 0
               PROVE  sent = due /\ stored = sent
    BY DEF OneReplyEach
  <2>1. frames = <<>> /\ sent \in Nat /\ stored \in Nat /\ due \in Int
    BY EffectsBefore DEF FramesAreSound
  <2>2. \A d \in Replies : Owes(<<>>, d, Outstanding(d)) /\ Outstanding(d) \in Int
    BY <2>1, BalancedIs DEF Balanced
  <2>3. \A d \in Replies : Outstanding(d) = 0
    BY <2>2, OwesNothing
  <2>4. due - sent = 0 /\ due - stored = 0
    BY <2>3 DEF Outstanding, Replies
  <2> QED
    BY <2>1, <2>4
<1> QED
  BY <1>1, <1>2, <1>3, BaseHolds, PTL DEF Spec
=============================================================================
