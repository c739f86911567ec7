-------------------------- MODULE WorkListTheorems --------------------------
(***************************************************************************)
(* Facts about the sequences the graph routines keep their pending nodes   *)
(* and the stores keep their packs in: what taking the last or the first   *)
(* element, appending, inserting at a position and leaving out an element  *)
(* do to the elements of a sequence; and induction and recursion over the  *)
(* naturals, and what can be reached in steps.                             *)
(***************************************************************************)
EXTENDS Integers, FiniteSets, SequencesExt, SequenceTheorems, FiniteSetTheorems,
        WellFoundedInduction, TLAPS

\* No element occurs twice.
Distinct(s) == \A i, j \in 1..Len(s) : s[i] = s[j] => i = j

\* The elements of a sequence are those at its positions: ToSet with the
\* domain written as an interval.
LEMMA ToSetIsElements ==
  ASSUME NEW S, NEW s \in Seq(S)
  PROVE  /\ ToSet(s) \subseteq S
         /\ \A x : x \in ToSet(s) <=> \E i \in 1..Len(s) : s[i] = x
  BY DOMAIN s = 1..Len(s), \A i \in 1..Len(s) : s[i] \in S DEF ToSet

\* Removing the last element (removeLastObject) leaves the others in place.
LEMMA FrontLast ==
  ASSUME NEW S, NEW s \in Seq(S), s # <<>>
  PROVE  /\ Last(s) \in S /\ Front(s) \in Seq(S)
         /\ Len(s) \in Nat \ {0} /\ Last(s) = s[Len(s)]
         /\ Len(Front(s)) = Len(s) - 1
         /\ \A i \in 1..(Len(s) - 1) : Front(s)[i] = s[i]
         /\ ToSet(s) = ToSet(Front(s)) \cup {Last(s)}
<1>1. Len(s) \in Nat \ {0} /\ \A i \in 1..Len(s) : s[i] \in S
  BY EmptySeq
<1>2. /\ Front(s) \in Seq(S) /\ Len(Front(s)) = Len(s) - 1
      /\ \A i \in 1..(Len(s) - 1) : Front(s)[i] = s[i]
  <2> DEFINE n == Len(s) - 1
  <2>1. n \in Nat /\ \A i \in 1..n : s[i] \in S
    BY <1>1
  <2> HIDE DEF n
  <2>2. /\ SubSeq(s, 1, n) \in Seq(S)
        /\ Len(SubSeq(s, 1, n)) = IF 1 <= n THEN n - 1 + 1 ELSE 0
        /\ \A i \in 1..(n - 1 + 1) : SubSeq(s, 1, n)[i] = s[1 + i - 1]
    BY <2>1, SubSeqProperties
  <2>3. /\ SubSeq(s, 1, n) \in Seq(S) /\ Len(SubSeq(s, 1, n)) = n
        /\ \A i \in 1..n : SubSeq(s, 1, n)[i] = s[i]
    BY <2>1, <2>2
  <2>. QED
    BY <2>3 DEF Front, n
<1>3. Last(s) = s[Len(s)] /\ Last(s) \in S
  BY <1>1 DEF Last
<1>4. ToSet(s) = ToSet(Front(s)) \cup {Last(s)}
  <2>1. \A x : x \in ToSet(s) <=> \E i \in 1..Len(s) : s[i] = x
    BY ToSetIsElements
  <2>2. \A x : x \in ToSet(Front(s)) <=> \E i \in 1..(Len(s) - 1) : s[i] = x
    BY <1>2, ToSetIsElements
  <2>3. 1..Len(s) = 1..(Len(s) - 1) \cup {Len(s)}
    BY <1>1
  <2>. QED
    BY <2>1, <2>2, <2>3, <1>3
<1>. QED
  BY <1>1, <1>2, <1>3, <1>4

\* Taking the last of distinct elements leaves distinct ones, without it.
LEMMA FrontDistinct ==
  ASSUME NEW S, NEW s \in Seq(S), s # <<>>, Distinct(s)
  PROVE  Distinct(Front(s)) /\ Last(s) \notin ToSet(Front(s))
<1>1. /\ Front(s) \in Seq(S) /\ Len(s) \in Nat \ {0} /\ Last(s) = s[Len(s)]
      /\ Len(Front(s)) = Len(s) - 1
      /\ \A i \in 1..(Len(s) - 1) : Front(s)[i] = s[i]
  BY FrontLast
<1>2. Distinct(Front(s))
  BY <1>1 DEF Distinct
<1>3. \A x : x \in ToSet(Front(s)) <=> \E i \in 1..(Len(s) - 1) : Front(s)[i] = x
  BY <1>1, ToSetIsElements
<1>. QED
  BY <1>1, <1>2, <1>3 DEF Distinct

\* Appending (addObject:) adds one element, and a new one keeps a sequence
\* distinct.
LEMMA AppendElements ==
  ASSUME NEW S, NEW s \in Seq(S), NEW e \in S
  PROVE  /\ Append(s, e) \in Seq(S)
         /\ Len(Append(s, e)) = Len(s) + 1 /\ Len(s) \in Nat
         /\ \A i \in 1..Len(s) : Append(s, e)[i] = s[i]
         /\ Append(s, e)[Len(s) + 1] = e
         /\ ToSet(Append(s, e)) = ToSet(s) \cup {e}
         /\ Distinct(s) /\ e \notin ToSet(s) => Distinct(Append(s, e))
<1> DEFINE t == Append(s, e)
<1>1. /\ t \in Seq(S) /\ Len(t) = Len(s) + 1 /\ Len(s) \in Nat
      /\ \A i \in 1..Len(s) : t[i] = s[i]
      /\ t[Len(s) + 1] = e
  BY AppendProperties, LenProperties
<1>2. \A x : x \in ToSet(s) <=> \E i \in 1..Len(s) : s[i] = x
  BY ToSetIsElements
<1> HIDE DEF t
<1>3. \A x : x \in ToSet(t) <=> \E i \in 1..(Len(s) + 1) : t[i] = x
  BY <1>1, ToSetIsElements
<1>4. 1..(Len(s) + 1) = 1..Len(s) \cup {Len(s) + 1}
  BY <1>1
<1>5. ToSet(t) = ToSet(s) \cup {e}
  BY <1>1, <1>2, <1>3, <1>4
<1>6. ASSUME Distinct(s), e \notin ToSet(s) PROVE Distinct(t)
  <2>1. \A i \in 1..Len(s) : t[i] # e
    BY <1>1, <1>2, <1>6
  <2>. QED
    BY <1>1, <1>4, <1>6, <2>1 DEF Distinct
<1>. QED
  BY <1>1, <1>5, <1>6 DEF t

\* Inserting (insertObject:atIndex:) moves the elements from the position on.
LEMMA InsertPlaces ==
  ASSUME NEW S, NEW s \in Seq(S), NEW e \in S, NEW i \in 1..(Len(s) + 1)
  PROVE  /\ InsertAt(s, i, e) \in Seq(S) /\ Len(InsertAt(s, i, e)) = Len(s) + 1
         /\ \A j \in 1..(i - 1) : InsertAt(s, i, e)[j] = s[j]
         /\ InsertAt(s, i, e)[i] = e
         /\ \A j \in (i + 1)..(Len(s) + 1) : InsertAt(s, i, e)[j] = s[j - 1]
<1> DEFINE t == InsertAt(s, i, e)
<1>1. Len(s) \in Nat /\ \A j \in 1..Len(s) : s[j] \in S
  BY LenProperties
<1>2. /\ SubSeq(s, 1, i - 1) \in Seq(S) /\ Len(SubSeq(s, 1, i - 1)) = i - 1
      /\ \A j \in 1..(i - 1) : SubSeq(s, 1, i - 1)[j] = s[j]
  BY <1>1, SubSeqProperties
<1>3. /\ SubSeq(s, i, Len(s)) \in Seq(S) /\ Len(SubSeq(s, i, Len(s))) = Len(s) - i + 1
      /\ \A j \in 1..(Len(s) - i + 1) : SubSeq(s, i, Len(s))[j] = s[i + j - 1]
  BY <1>1, SubSeqProperties
<1>4. /\ t \in Seq(S) /\ Len(t) = Len(s) + 1
      /\ \A j \in 1..(i - 1) : t[j] = s[j]
      /\ t[i] = e
      /\ \A j \in (i + 1)..(Len(s) + 1) : t[j] = s[j - 1]
  <2> DEFINE a == SubSeq(s, 1, i - 1)
             m == <<e>>
             b == SubSeq(s, i, Len(s))
  <2>1. m \in Seq(S) /\ Len(m) = 1 /\ m[1] = e
    OBVIOUS
  <2>2. /\ a \in Seq(S) /\ Len(a) = i - 1
        /\ \A j \in 1..(i - 1) : a[j] = s[j]
    BY <1>2
  <2>3. /\ b \in Seq(S) /\ Len(b) = Len(s) - i + 1
        /\ \A j \in 1..(Len(s) - i + 1) : b[j] = s[i + j - 1]
    BY <1>3
  <2>4. t = (a \o m) \o b
    BY DEF InsertAt
  <2> HIDE DEF a, m, b, t
  <2>5. /\ a \o m \in Seq(S) /\ Len(a \o m) = i
        /\ \A j \in 1..(i - 1) : (a \o m)[j] = s[j]
        /\ (a \o m)[i] = e
    <3>1. /\ a \o m \in Seq(S) /\ Len(a \o m) = Len(a) + Len(m)
          /\ \A j \in 1..(Len(a) + Len(m)) :
               (a \o m)[j] = IF j <= Len(a) THEN a[j] ELSE m[j - Len(a)]
      BY <2>1, <2>2, ConcatProperties
    <3>. QED
      BY <3>1, <1>1, <2>1, <2>2
  <2> DEFINE am == a \o m
  <2> HIDE DEF am
  <2>6. /\ am \in Seq(S) /\ Len(am) = i /\ t = am \o b
        /\ \A j \in 1..(i - 1) : am[j] = s[j]
        /\ am[i] = e
    BY <2>4, <2>5 DEF am
  <2>7. /\ t \in Seq(S) /\ Len(t) = Len(s) + 1
        /\ \A j \in 1..i : t[j] = am[j]
        /\ \A j \in (i + 1)..(Len(s) + 1) : t[j] = b[j - i]
    BY <1>1, <2>3, <2>6
  <2>8. ASSUME NEW j \in (i + 1)..(Len(s) + 1) PROVE t[j] = s[j - 1]
    <3>1. j - i \in 1..(Len(s) - i + 1) /\ i + (j - i) - 1 = j - 1
      BY <1>1
    <3>. QED
      BY <3>1, <2>3, <2>7
  <2>. QED
    BY <1>1, <2>6, <2>7, <2>8
<1>. QED
  BY <1>4 DEF t

\* Inserting adds one element, and a new one keeps a
\* sequence distinct.
LEMMA InsertElements ==
  ASSUME NEW S, NEW s \in Seq(S), NEW e \in S, NEW i \in 1..(Len(s) + 1)
  PROVE  /\ InsertAt(s, i, e) \in Seq(S)
         /\ ToSet(InsertAt(s, i, e)) = ToSet(s) \cup {e}
         /\ Distinct(s) /\ e \notin ToSet(s) => Distinct(InsertAt(s, i, e))
<1> DEFINE t == InsertAt(s, i, e)
<1>1. Len(s) \in Nat /\ \A j \in 1..Len(s) : s[j] \in S
  BY LenProperties
<1>4. /\ t \in Seq(S) /\ Len(t) = Len(s) + 1
      /\ \A j \in 1..(i - 1) : t[j] = s[j]
      /\ t[i] = e
      /\ \A j \in (i + 1)..(Len(s) + 1) : t[j] = s[j - 1]
  BY InsertPlaces
<1>5. \A x : x \in ToSet(s) <=> \E j \in 1..Len(s) : s[j] = x
  BY ToSetIsElements
<1> HIDE DEF t
<1>6. \A x : x \in ToSet(t) <=> \E j \in 1..(Len(s) + 1) : t[j] = x
  BY <1>4, ToSetIsElements
<1>7. ToSet(t) = ToSet(s) \cup {e}
  <2>1. ASSUME NEW x \in ToSet(s) PROVE x \in ToSet(t)
    <3>1. PICK j \in 1..Len(s) : s[j] = x
      BY <1>5
    <3>2. CASE j < i
      BY <3>1, <3>2, <1>1, <1>4, <1>6
    <3>3. CASE j >= i
      <4>1. j + 1 \in (i + 1)..(Len(s) + 1) /\ t[j + 1] = x
        BY <3>1, <3>3, <1>1, <1>4
      <4>. QED
        BY <4>1, <1>6, <1>1
    <3>. QED
      BY <3>2, <3>3
  <2>2. e \in ToSet(t)
    BY <1>1, <1>4, <1>6
  <2>3. ASSUME NEW x \in ToSet(t) PROVE x \in ToSet(s) \cup {e}
    <3>1. PICK j \in 1..(Len(s) + 1) : t[j] = x
      BY <1>6, <2>3
    <3>2. CASE j < i
      BY <3>1, <3>2, <1>1, <1>4, <1>5
    <3>3. CASE j = i
      BY <3>1, <3>3, <1>4
    <3>4. CASE j > i
      BY <3>1, <3>4, <1>1, <1>4, <1>5
    <3>. QED
      BY <3>2, <3>3, <3>4
  <2>. QED
    BY <2>1, <2>2, <2>3
<1>8. ASSUME Distinct(s), e \notin ToSet(s) PROVE Distinct(t)
  <2>1. \A j \in 1..Len(s) : s[j] # e
    BY <1>5, <1>8
  <2>2. SUFFICES ASSUME NEW j \in 1..(Len(s) + 1), NEW k \in 1..(Len(s) + 1),
                        t[j] = t[k], j < k
                 PROVE  FALSE
    BY <1>1, <1>4 DEF Distinct
  <2>3. CASE k < i
    BY <2>2, <2>3, <1>1, <1>4, <1>8 DEF Distinct
  <2>4. CASE k = i
    BY <2>2, <2>4, <2>1, <1>1, <1>4
  <2>5. CASE k > i /\ j = i
    <3>1. t[k] = s[k - 1] /\ k - 1 \in 1..Len(s) /\ t[j] = e
      BY <2>5, <1>1, <1>4
    <3>. QED
      BY <3>1, <2>1, <2>2
  <2>6. CASE k > i /\ j < i
    BY <2>2, <2>6, <1>1, <1>4, <1>8 DEF Distinct
  <2>7. CASE k > i /\ j > i
    BY <2>2, <2>7, <1>1, <1>4, <1>8 DEF Distinct
  <2>. QED
    BY <2>3, <2>4, <2>5, <2>6, <2>7
<1>. QED
  BY <1>4, <1>7, <1>8 DEF t

\* A stretch of a sequence, which may be empty.
LEMMA Stretch ==
  ASSUME NEW S, NEW s \in Seq(S), NEW n \in 0..Len(s), NEW m \in 1..(n + 1)
  PROVE  /\ SubSeq(s, m, n) \in Seq(S) /\ Len(SubSeq(s, m, n)) = n - m + 1
         /\ \A i \in 1..(n - m + 1) : SubSeq(s, m, n)[i] = s[m - 1 + i]
<1>1. Len(s) \in Nat /\ \A i \in 1..Len(s) : s[i] \in S
  BY LenProperties
<1>2. m \in Int /\ n \in Int /\ \A i \in m..n : s[i] \in S
  BY <1>1
<1>3. /\ SubSeq(s, m, n) \in Seq(S)
      /\ Len(SubSeq(s, m, n)) = IF m <= n THEN n - m + 1 ELSE 0
      /\ \A i \in 1..(n - m + 1) : SubSeq(s, m, n)[i] = s[m + i - 1]
  BY <1>2, SubSeqProperties
<1>. QED
  BY <1>1, <1>3

\* Dropping the first element leaves the others.
LEMMA TailElements ==
  ASSUME NEW S, NEW s \in Seq(S), s # <<>>
  PROVE  /\ Head(s) \in S /\ Tail(s) \in Seq(S)
         /\ ToSet(s) = {Head(s)} \cup ToSet(Tail(s))
<1>1. /\ Head(s) \in S /\ Tail(s) \in Seq(S) /\ Len(Tail(s)) = Len(s) - 1
      /\ \A i \in 1..Len(Tail(s)) : Tail(s)[i] = s[i + 1]
      /\ Len(s) \in Nat \ {0} /\ Head(s) = s[1]
  BY HeadTailProperties, EmptySeq
<1>2. \A x : x \in ToSet(s) <=> \E i \in 1..Len(s) : s[i] = x
  BY ToSetIsElements
<1>3. \A x : x \in ToSet(Tail(s)) <=> \E i \in 1..(Len(s) - 1) : s[i + 1] = x
  <2> DEFINE t == Tail(s)
  <2>1. t \in Seq(S) /\ Len(t) = Len(s) - 1 /\ \A i \in 1..(Len(s) - 1) : t[i] = s[i + 1]
    BY <1>1
  <2> HIDE DEF t
  <2>2. \A x : x \in ToSet(t) <=> \E i \in 1..Len(t) : t[i] = x
    BY <2>1, ToSetIsElements
  <2>3. \A x : x \in ToSet(t) <=> \E i \in 1..(Len(s) - 1) : s[i + 1] = x
    BY <2>1, <2>2
  <2>. QED
    BY <2>3 DEF t
<1>4. ASSUME NEW x \in ToSet(s), x # s[1] PROVE x \in ToSet(Tail(s))
  <2>1. PICK i \in 1..Len(s) : s[i] = x
    BY <1>2
  <2>2. i - 1 \in 1..(Len(s) - 1) /\ s[(i - 1) + 1] = x
    BY <1>1, <1>4, <2>1
  <2>. QED
    BY <1>3, <2>2
<1>5. ASSUME NEW x \in ToSet(Tail(s)) PROVE x \in ToSet(s)
  <2>1. PICK i \in 1..(Len(s) - 1) : s[i + 1] = x
    BY <1>3
  <2>. QED
    BY <1>1, <1>2, <2>1
<1>6. s[1] \in ToSet(s)
  BY <1>1, <1>2
<1>. QED
  BY <1>1, <1>4, <1>5, <1>6

\* The elements of two sequences one after the other are those of both.
LEMMA ConcatElements ==
  ASSUME NEW S, NEW s \in Seq(S), NEW t \in Seq(S)
  PROVE  s \o t \in Seq(S) /\ ToSet(s \o t) = ToSet(s) \cup ToSet(t)
<1> DEFINE c == s \o t
<1>1. /\ c \in Seq(S) /\ Len(c) = Len(s) + Len(t) /\ Len(s) \in Nat /\ Len(t) \in Nat
      /\ \A i \in 1..(Len(s) + Len(t)) : c[i] = IF i <= Len(s) THEN s[i] ELSE t[i - Len(s)]
  BY ConcatProperties, LenProperties
<1> HIDE DEF c
<1>2. /\ \A x : x \in ToSet(s) <=> \E i \in 1..Len(s) : s[i] = x
      /\ \A x : x \in ToSet(t) <=> \E i \in 1..Len(t) : t[i] = x
      /\ \A x : x \in ToSet(c) <=> \E i \in 1..(Len(s) + Len(t)) : c[i] = x
  BY <1>1, ToSetIsElements
<1>3. ASSUME NEW x \in ToSet(c) PROVE x \in ToSet(s) \cup ToSet(t)
  <2>1. PICK i \in 1..(Len(s) + Len(t)) : c[i] = x
    BY <1>2
  <2>2. CASE i <= Len(s)
    BY <1>1, <1>2, <2>1, <2>2
  <2>3. CASE i > Len(s)
    <3>1. i - Len(s) \in 1..Len(t) /\ t[i - Len(s)] = x
      BY <1>1, <2>1, <2>3
    <3>. QED
      BY <1>2, <3>1
  <2>. QED
    BY <1>1, <2>2, <2>3
<1>4. ASSUME NEW x \in ToSet(s) PROVE x \in ToSet(c)
  <2>1. PICK i \in 1..Len(s) : s[i] = x
    BY <1>2
  <2>. QED
    BY <1>1, <1>2, <2>1
<1>5. ASSUME NEW x \in ToSet(t) PROVE x \in ToSet(c)
  <2>1. PICK i \in 1..Len(t) : t[i] = x
    BY <1>2
  <2>2. Len(s) + i \in 1..(Len(s) + Len(t)) /\ c[Len(s) + i] = x
    BY <1>1, <2>1, SMTT(20)
  <2>. QED
    BY <1>2, <2>2
<1>. QED
  BY <1>1, <1>3, <1>4, <1>5 DEF c

\* Putting an element before a sequence adds it.
LEMMA FirstElements ==
  ASSUME NEW S, NEW s \in Seq(S), NEW e \in S
  PROVE  <<e>> \o s \in Seq(S) /\ ToSet(<<e>> \o s) = {e} \cup ToSet(s)
<1> DEFINE f == <<e>>
<1>1. f \in Seq(S) /\ ToSet(f) = {e}
  BY DEF ToSet
<1> HIDE DEF f
<1>2. f \o s \in Seq(S) /\ ToSet(f \o s) = ToSet(f) \cup ToSet(s)
  BY <1>1, ConcatElements
<1>. QED
  BY <1>1, <1>2 DEF f

-----------------------------------------------------------------------------
(***************************************************************************)
(* Induction over the naturals, as facts about sets: the well-foundedness  *)
(* of < in a form that has no operator for a parameter.                    *)
(***************************************************************************)
\* A non-empty set of naturals has a least element.
LEMMA LeastElement ==
  ASSUME NEW T \in SUBSET Nat, T # {}
  PROVE  \E x \in T : \A y \in T : x <= y
<1> DEFINE R == OpToRel(<, Nat)
<1>1. IsWellFoundedOn(R, Nat)
  BY NatLessThanWellFounded
<1>2. \A x, y \in Nat : y < x => <<y, x>> \in R
  BY DEF OpToRel
<1> HIDE DEF R
<1>3. PICK x \in T : \A y \in T : ~(<<y, x>> \in R)
  BY <1>1, WFMin
<1>4. ASSUME NEW y \in T PROVE x <= y
  <2>1. x \in Nat /\ y \in Nat
    OBVIOUS
  <2>2. ~(y < x)
    BY <1>2, <1>3, <1>4, <2>1, Zenon
  <2>. QED
    BY <2>1, <2>2
<1>. QED
  BY <1>4

\* A set that has 0 and the successor of each natural it has has them all.
LEMMA NatSetInduction ==
  ASSUME NEW S, 0 \in S, \A n \in Nat : n \in S => n + 1 \in S
  PROVE  Nat \subseteq S
<1> SUFFICES ASSUME Nat \ S # {} PROVE FALSE
  OBVIOUS
<1>1. PICK n \in Nat \ S : \A m \in Nat \ S : n <= m
  <2> DEFINE T == Nat \ S
  <2>1. T \in SUBSET Nat /\ T # {}
    OBVIOUS
  <2> HIDE DEF T
  <2>2. \E x \in T : \A y \in T : x <= y
    BY <2>1, LeastElement
  <2>. QED
    BY <2>2 DEF T
<1>2. n # 0 /\ n - 1 \in Nat
  OBVIOUS
<1>3. n - 1 \in S
  BY <1>1, <1>2
<1>. QED
  BY <1>2, <1>3

\* A finite non-empty set of naturals has a greatest element.
LEMMA GreatestElement ==
  ASSUME NEW T \in SUBSET Nat, IsFiniteSet(T), T # {}
  PROVE  \E x \in T : \A y \in T : y <= x
<1>0. PICK n \in Nat : \E f \in [1..n -> T] : \A y \in T : \E i \in 1..n : f[i] = y
  BY FS_NatSurjection DEF ExistsSurjection, Surjection
<1>1. PICK f \in [1..n -> T] : \A y \in T : \E i \in 1..n : f[i] = y
  BY <1>0
<1> DEFINE M == {m \in Nat : m <= n => \E b \in Nat : \A i \in 1..m : f[i] <= b}
<1>2. n \in M
  <2>1. 0 \in M
    OBVIOUS
  <2>2. ASSUME NEW m \in Nat, m \in M PROVE m + 1 \in M
    <3>. SUFFICES ASSUME m + 1 <= n PROVE \E b \in Nat : \A i \in 1..(m + 1) : f[i] <= b
      OBVIOUS
    <3>1. PICK b \in Nat : \A i \in 1..m : f[i] <= b
      BY <2>2
    <3>2. f[m + 1] \in Nat /\ \A i \in 1..(m + 1) : f[i] \in Nat
      <4>1. \A i \in 1..n : f[i] \in Nat
        BY <1>1
      <4>2. m + 1 \in 1..n /\ \A i \in 1..(m + 1) : i \in 1..n
        OBVIOUS
      <4>. QED
        BY <4>1, <4>2
    <3>3. b + f[m + 1] \in Nat /\ \A i \in 1..(m + 1) : f[i] <= b + f[m + 1]
      BY <3>1, <3>2
    <3>. QED
      BY <3>3
  <2> HIDE DEF M
  <2>. QED
    BY <1>1, <2>1, <2>2, NatSetInduction
<1>3. PICK b \in Nat : \A y \in T : y <= b
  BY <1>1, <1>2
<1> DEFINE D == {b - y : y \in T}
<1>4. D \in SUBSET Nat /\ D # {}
  <2>1. \A y \in T : b - y \in Nat
    BY <1>3
  <2>. QED
    BY <2>1
<1>5. PICK d \in D : \A e \in D : d <= e
  <2> HIDE DEF D
  <2>. QED
    BY <1>4, LeastElement
<1>6. PICK x \in T : d = b - x
  OBVIOUS
<1>7. ASSUME NEW y \in T PROVE y <= x
  <2>1. b - y \in D /\ b - x <= b - y
    BY <1>5, <1>6
  <2>. QED
    BY <2>1
<1>. QED
  BY <1>7

-----------------------------------------------------------------------------
(***************************************************************************)
(* Recursion up to a natural, as facts about functions: what a recursive   *)
(* function of a model is, is not assumed but follows from the existence   *)
(* of a function that satisfies its equation.                              *)
(***************************************************************************)
\* f takes the value a at 0 and then the value of h at each step.
Recurs(f, n, S, a, h) ==
  f \in [0..n -> S] /\ f[0] = a /\ \A k \in 1..n : f[k] = h[<<k, f[k - 1]>>]

\* There is such a function.
LEMMA PrimitiveRecursion ==
  ASSUME NEW n \in Nat, NEW S, NEW a \in S, NEW h \in [(1..n) \X S -> S]
  PROVE  \E f : Recurs(f, n, S, a, h)
<1> DEFINE Upto(m, f) == f \in [0..m -> S] /\ f[0] = a /\ \A k \in 1..m : f[k] = h[<<k, f[k - 1]>>]
           T == {m \in Nat : m <= n => \E f : Upto(m, f)}
<1>1. 0 \in T
  <2>1. Upto(0, [i \in 0..0 |-> a])
    OBVIOUS
  <2> HIDE DEF Upto
  <2>. QED
    BY <2>1
<1>2. ASSUME NEW m \in Nat, m \in T PROVE m + 1 \in T
  <2>. SUFFICES ASSUME m + 1 <= n PROVE \E f : Upto(m + 1, f)
    OBVIOUS
  <2>1. PICK f : Upto(m, f)
    BY <1>2
  <2> DEFINE g == [i \in 0..(m + 1) |-> IF i <= m THEN f[i] ELSE h[<<m + 1, f[m]>>]]
  <2>2. f[m] \in S /\ h[<<m + 1, f[m]>>] \in S
    BY <2>1
  <2>3. g \in [0..(m + 1) -> S] /\ g[0] = a
    BY <2>1, <2>2
  <2>4. \A k \in 1..(m + 1) : g[k] = h[<<k, g[k - 1]>>]
    <3>. TAKE k \in 1..(m + 1)
    <3>1. CASE k <= m
      BY <2>1, <3>1
    <3>2. CASE k = m + 1
      BY <3>2, SMTT(20)
    <3>. QED
      BY <3>1, <3>2
  <2>5. Upto(m + 1, g)
    BY <2>3, <2>4
  <2> HIDE DEF Upto, g
  <2>. QED
    BY <2>5
<1> HIDE DEF T
<1>3. n \in T
  BY <1>1, <1>2, NatSetInduction
<1>. QED
  BY <1>3 DEF T, Recurs

\* Every step from x to next[x], within C, goes down in rank.
Descending(S, C, m, rank, next) ==
  /\ m \in Nat /\ C \subseteq S /\ rank \in [S -> 0..m]
  /\ \A x \in S : next[x] \in C => rank[next[x]] < rank[x]

\* f follows the chain of steps to its end: what next leads to, or else what x
\* has of its own.
FollowsChain(f, S, C, next, own) ==
  f = [x \in S |-> IF next[x] \in C THEN f[next[x]] ELSE own[x]]

\* There is such a function.
LEMMA ChainRecursion ==
  ASSUME NEW S, NEW C, NEW m, NEW rank, NEW next, NEW own, Descending(S, C, m, rank, next)
  PROVE  \E f : FollowsChain(f, S, C, next, own)
<1>. /\ m \in Nat /\ C \subseteq S /\ rank \in [S -> 0..m]
     /\ \A x \in S : next[x] \in C => rank[next[x]] < rank[x]
  BY DEF Descending
<1> DEFINE V == {own[x] : x \in S}
           a == [x \in S |-> own[x]]
           step(g) == [x \in S |-> IF next[x] \in C THEN g[next[x]] ELSE own[x]]
           h == [p \in (1..(m + 1)) \X [S -> V] |-> step(p[2])]
<1>1. a \in [S -> V] /\ \A g \in [S -> V] : step(g) \in [S -> V]
  OBVIOUS
<1>2. h \in [(1..(m + 1)) \X [S -> V] -> [S -> V]]
  <2> HIDE DEF V
  <2>1. \A p \in (1..(m + 1)) \X [S -> V] : p[2] \in [S -> V]
    OBVIOUS
  <2> HIDE DEF step
  <2>. QED
    BY <1>1, <2>1
<1>3. PICK f : Recurs(f, m + 1, [S -> V], a, h)
  <2> HIDE DEF V, a, h
  <2>1. m + 1 \in Nat
    OBVIOUS
  <2>. QED
    BY <1>1, <1>2, <2>1, PrimitiveRecursion
<1> HIDE DEF V
<1>4. f[0] = a /\ \A k \in 1..(m + 1) : f[k] = step(f[k - 1])
  <2> HIDE DEF a, step
  <2>1. /\ f \in [0..(m + 1) -> [S -> V]] /\ f[0] = a
        /\ \A k \in 1..(m + 1) : f[k] = h[<<k, f[k - 1]>>]
    <3> HIDE DEF h
    <3>. QED
      BY <1>3 DEF Recurs
  <2>2. ASSUME NEW k \in 1..(m + 1) PROVE f[k] = step(f[k - 1])
    <3>1. f[k - 1] \in [S -> V]
      BY <2>1
    <3>2. h[<<k, f[k - 1]>>] = step(f[k - 1])
      BY <3>1
    <3>. QED
      BY <2>1, <3>2
  <2>. QED
    BY <2>1, <2>2
<1>5. \A k \in 1..(m + 1) : \A x \in S :
        f[k][x] = IF next[x] \in C THEN f[k - 1][next[x]] ELSE own[x]
  <2>. TAKE k \in 1..(m + 1)
  <2>1. f[k] = step(f[k - 1])
    BY <1>4
  <2>. QED
    BY <2>1
<1> DEFINE D == {n \in Nat : n <= m => \A x \in S : \A k \in n..m : rank[x] <= n => f[k + 1][x] = f[k][x]}
<1>6. 0 \in D
  <2>. SUFFICES ASSUME NEW x \in S, NEW k \in 0..m, rank[x] <= 0 PROVE f[k + 1][x] = f[k][x]
    OBVIOUS
  <2>1. next[x] \notin C
    <3>. SUFFICES ASSUME next[x] \in C PROVE FALSE
      OBVIOUS
    <3>1. rank[x] \in 0..m /\ rank[next[x]] \in 0..m /\ rank[next[x]] < rank[x]
      OBVIOUS
    <3>. QED
      BY <3>1
  <2>2. f[k + 1][x] = own[x]
    BY <1>5, <2>1
  <2>3. CASE k = 0
    BY <1>4, <2>2, <2>3
  <2>4. CASE k # 0
    <3>1. k \in 1..(m + 1)
      BY <2>4
    <3>. QED
      BY <1>5, <2>1, <2>2, <3>1
  <2>. QED
    BY <2>3, <2>4
<1>7. ASSUME NEW n \in Nat, n \in D PROVE n + 1 \in D
  <2>. SUFFICES ASSUME n + 1 <= m, NEW x \in S, NEW k \in (n + 1)..m, rank[x] <= n + 1
                PROVE  f[k + 1][x] = f[k][x]
    OBVIOUS
  <2>1. k \in 1..(m + 1) /\ k + 1 \in 1..(m + 1) /\ k - 1 \in n..m /\ (k + 1) - 1 = k
        /\ (k - 1) + 1 = k
    OBVIOUS
  <2>2. /\ f[k][x] = IF next[x] \in C THEN f[k - 1][next[x]] ELSE own[x]
        /\ f[k + 1][x] = IF next[x] \in C THEN f[k][next[x]] ELSE own[x]
    <3>1. \A j \in 1..(m + 1) : f[j][x] = IF next[x] \in C THEN f[j - 1][next[x]] ELSE own[x]
      BY <1>5
    <3>. QED
      BY <2>1, <3>1
  <2>3. ASSUME next[x] \in C PROVE f[k][next[x]] = f[k - 1][next[x]]
    <3>1. next[x] \in S /\ rank[x] \in 0..m /\ rank[next[x]] \in 0..m /\ rank[next[x]] < rank[x]
      BY <2>3
    <3>2. rank[next[x]] <= n /\ n <= m
      BY <3>1
    <3>3. f[(k - 1) + 1][next[x]] = f[k - 1][next[x]]
      BY <1>7, <2>1, <3>1, <3>2
    <3>. QED
      BY <2>1, <3>3
  <2>. QED
    BY <2>2, <2>3
<1>8. m \in D
  <2> HIDE DEF D
  <2>1. \A n \in Nat : n \in D => n + 1 \in D
    BY <1>7
  <2>. QED
    BY <1>6, <2>1, NatSetInduction
<1>9. \A x \in S : f[m + 1][x] = f[m][x]
  BY <1>8
<1>10. f[m] \in [S -> V] /\ f[m + 1] \in [S -> V]
  BY <1>3 DEF Recurs
<1>11. f[m + 1] = f[m]
  BY <1>9, <1>10
<1>12. f[m + 1] = step(f[m])
  <2>1. m + 1 \in 1..(m + 1) /\ (m + 1) - 1 = m
    OBVIOUS
  <2> HIDE DEF step
  <2>. QED
    BY <1>4, <2>1
<1>13. f[m] = step(f[m])
  BY <1>11, <1>12
<1> DEFINE t == f[m]
<1>14. t = [x \in S |-> IF next[x] \in C THEN t[next[x]] ELSE own[x]]
  BY <1>13
<1>. HIDE DEF t
<1>. QED
  BY <1>14 DEF FollowsChain

-----------------------------------------------------------------------------
\* Leaving out an element of a sequence of distinct elements.
LEMMA RemoveFirstElements ==
  ASSUME NEW S, NEW s \in Seq(S), Distinct(s), NEW e
  PROVE  RemoveFirst(s, e) \in Seq(S) /\ ToSet(RemoveFirst(s, e)) = ToSet(s) \ {e}
<1>1. /\ Len(s) \in Nat /\ \A i \in 1..Len(s) : s[i] \in S
      /\ \A x : x \in ToSet(s) <=> \E i \in 1..Len(s) : s[i] = x
  BY LenProperties, ToSetIsElements
<1>2. CASE ~\E i \in 1..Len(s) : s[i] = e
  <2>1. RemoveFirst(s, e) = s
    BY <1>2 DEF RemoveFirst
  <2>. QED
    BY <2>1, <1>1, <1>2
<1>3. CASE \E i \in 1..Len(s) : s[i] = e
  <2> DEFINE I == {i \in 1..Len(s) : s[i] = e}
             n == Min(I)
  <2>1. n \in 1..Len(s) /\ s[n] = e
    <3>1. I \in SUBSET Nat /\ I # {}
      BY <1>3
    <3>2. \E x \in I : \A y \in I : x <= y
      <4> HIDE DEF I
      <4>. QED
        BY <3>1, LeastElement
    <3>3. n \in I
      BY <3>2 DEF Min
    <3>. QED
      BY <3>3
  <2>2. RemoveFirst(s, e) = SubSeq(s, 1, n - 1) \o SubSeq(s, n + 1, Len(s))
    BY <1>3 DEF RemoveFirst, RemoveAt, SelectInSeq
  <2> HIDE DEF n
  <2> DEFINE a == SubSeq(s, 1, n - 1)
             b == SubSeq(s, n + 1, Len(s))
  <2>3. /\ a \in Seq(S) /\ Len(a) = n - 1
        /\ \A j \in 1..(n - 1) : a[j] = s[j]
    <3> DEFINE m == n - 1
    <3>1. m \in Nat /\ \A i \in 1..m : s[i] \in S
      BY <1>1, <2>1
    <3> HIDE DEF m
    <3>2. /\ SubSeq(s, 1, m) \in Seq(S)
          /\ Len(SubSeq(s, 1, m)) = IF 1 <= m THEN m - 1 + 1 ELSE 0
          /\ \A i \in 1..(m - 1 + 1) : SubSeq(s, 1, m)[i] = s[1 + i - 1]
      BY <3>1, SubSeqProperties
    <3>3. /\ SubSeq(s, 1, m) \in Seq(S) /\ Len(SubSeq(s, 1, m)) = m
          /\ \A i \in 1..m : SubSeq(s, 1, m)[i] = s[i]
      BY <3>1, <3>2
    <3>. QED
      BY <3>3 DEF m
  <2>4. /\ b \in Seq(S) /\ Len(b) = Len(s) - n
        /\ \A j \in 1..(Len(s) - n) : b[j] = s[n + j]
    <3> DEFINE m == n + 1
    <3>1. m \in Int /\ Len(s) \in Int /\ \A i \in m..Len(s) : s[i] \in S
      BY <1>1, <2>1
    <3> HIDE DEF m
    <3>2. /\ SubSeq(s, m, Len(s)) \in Seq(S)
          /\ Len(SubSeq(s, m, Len(s))) = IF m <= Len(s) THEN Len(s) - m + 1 ELSE 0
          /\ \A i \in 1..(Len(s) - m + 1) : SubSeq(s, m, Len(s))[i] = s[m + i - 1]
      BY <3>1, SubSeqProperties
    <3>3. /\ Len(s) - m + 1 = Len(s) - n
          /\ \A i \in 1..(Len(s) - n) : m + i - 1 = n + i
          /\ (IF m <= Len(s) THEN Len(s) - m + 1 ELSE 0) = Len(s) - n
      BY <1>1, <2>1 DEF m
    <3>. QED
      BY <3>2, <3>3 DEF m
  <2> HIDE DEF a, b
  <2>5. a \o b \in Seq(S) /\ ToSet(a \o b) = ToSet(a) \cup ToSet(b)
    BY <2>3, <2>4, ConcatElements
  <2>6. \A x : x \in ToSet(a) <=> \E i \in 1..(n - 1) : s[i] = x
    BY <2>3, ToSetIsElements
  <2>7. \A x : x \in ToSet(b) <=> \E i \in 1..(Len(s) - n) : s[n + i] = x
    BY <2>4, ToSetIsElements
  <2>8. \A i \in 1..Len(s) : s[i] = e => i = n
    BY <2>1 DEF Distinct
  <2>9. ASSUME NEW x \in ToSet(s), x # e PROVE x \in ToSet(a) \cup ToSet(b)
    <3>1. PICK i \in 1..Len(s) : s[i] = x
      BY <1>1
    <3>2. CASE i < n
      BY <1>1, <2>1, <2>6, <3>1, <3>2
    <3>3. CASE i > n
      <4>1. i - n \in 1..(Len(s) - n) /\ s[n + (i - n)] = x
        BY <1>1, <2>1, <3>1, <3>3
      <4>. QED
        BY <4>1, <2>7
    <3>. QED
      BY <1>1, <2>1, <2>9, <3>1, <3>2, <3>3
  <2>10. ASSUME NEW x \in ToSet(a) \cup ToSet(b) PROVE x \in ToSet(s) \ {e}
    <3>1. CASE x \in ToSet(a)
      BY <1>1, <2>1, <2>6, <2>8, <3>1
    <3>2. CASE x \in ToSet(b)
      <4>1. PICK i \in 1..(Len(s) - n) : s[n + i] = x
        BY <2>7, <3>2
      <4>2. n + i \in 1..Len(s) /\ n + i # n
        BY <1>1, <2>1
      <4>. QED
        BY <1>1, <2>8, <4>1, <4>2
    <3>. QED
      BY <2>10, <3>1, <3>2
  <2>. QED
    BY <2>2, <2>5, <2>9, <2>10 DEF a, b
<1>. QED
  BY <1>2, <1>3

-----------------------------------------------------------------------------
\* SetToSeqs lists orderings of a finite set: sequences over it whose elements
\* are distinct and are all of its elements.
LEMMA OrderingElements ==
  ASSUME NEW S, IsFiniteSet(S), NEW s \in SetToSeqs(S)
  PROVE  s \in Seq(S) /\ Distinct(s) /\ ToSet(s) = S
<1>1. Cardinality(S) \in Nat
  BY FS_CardinalityType
<1>2. /\ s \in [1..Cardinality(S) -> S]
      /\ \A i, j \in 1..Cardinality(S) : i # j => s[i] # s[j]
  BY DEF SetToSeqs
<1>3. s \in Seq(S) /\ Len(s) = Cardinality(S)
  BY <1>1, <1>2, IsASeq
<1>4. Distinct(s)
  BY <1>2, <1>3 DEF Distinct
<1>5. ToSet(s) = S
  <2>1. IsFiniteSet(1..Cardinality(S)) /\ Cardinality(1..Cardinality(S)) = Cardinality(S)
    BY <1>1, FS_Interval
  <2>2. ToSet(s) \subseteq S /\ \A x : x \in ToSet(s) <=> \E i \in 1..Len(s) : s[i] = x
    BY <1>3, ToSetIsElements
  <2>3. s \in Bijection(1..Cardinality(S), ToSet(s))
    <3>1. s \in [1..Cardinality(S) -> ToSet(s)]
      BY <1>2, <1>3, <2>2
    <3>2. \A t \in ToSet(s) : \E i \in 1..Cardinality(S) : s[i] = t
      BY <1>3, <2>2
    <3>. QED
      BY <1>2, <3>1, <3>2 DEF Bijection, Injection, Surjection, IsInjective
  <2>4. IsFiniteSet(ToSet(s)) /\ Cardinality(ToSet(s)) = Cardinality(S)
    <3>1. ExistsBijection(1..Cardinality(S), ToSet(s))
      BY <2>3 DEF ExistsBijection
    <3>2. Cardinality(ToSet(s)) = Cardinality(1..Cardinality(S)) /\ IsFiniteSet(ToSet(s))
      BY <2>1, <3>1, FS_Bijection
    <3>. QED
      BY <2>1, <3>2
  <2>. QED
    BY <2>2, <2>4, FS_Subset
<1>. QED
  BY <1>3, <1>4, <1>5
-----------------------------------------------------------------------------
(***************************************************************************)
(* Levels: each holds the one before and what a function gives of it.      *)
(***************************************************************************)
Levels(U, V, m, S, G) ==
  /\ m \in Nat /\ S \in SUBSET U /\ G \in [SUBSET U -> SUBSET U]
  /\ V[0] = S /\ \A k \in Nat : k + 1 <= m => V[k + 1] = V[k] \cup G[V[k]]

\* The levels are sets of the same elements, and grow.
LEMMA LevelsGrow ==
  ASSUME NEW U, NEW V, NEW m, NEW S, NEW G, Levels(U, V, m, S, G)
  PROVE  /\ \A k \in 0..m : V[k] \in SUBSET U
         /\ \A k, l \in 0..m : k <= l => V[k] \subseteq V[l]
<1>. m \in Nat /\ S \in SUBSET U /\ G \in [SUBSET U -> SUBSET U]
  BY DEF Levels
<1>1. V[0] = S /\ \A k \in Nat : k + 1 <= m => V[k + 1] = V[k] \cup G[V[k]]
  BY DEF Levels
<1>2. \A k \in 0..m : V[k] \in SUBSET U
  <2> DEFINE D == {k \in Nat : k <= m => V[k] \in SUBSET U}
  <2>1. 0 \in D
    BY <1>1
  <2>2. ASSUME NEW k \in Nat, k \in D PROVE k + 1 \in D
    <3>. SUFFICES ASSUME k + 1 <= m PROVE V[k + 1] \in SUBSET U
      OBVIOUS
    <3>1. V[k] \in SUBSET U
      BY <2>2
    <3>2. G[V[k]] \in SUBSET U
      BY <3>1
    <3>. QED
      BY <1>1, <3>1, <3>2
  <2> HIDE DEF D
  <2>3. Nat \subseteq D
    BY <2>1, <2>2, NatSetInduction
  <2>. QED
    BY <2>3 DEF D
<1>3. \A k, l \in 0..m : k <= l => V[k] \subseteq V[l]
  <2> DEFINE D == {d \in Nat : \A k \in Nat : k + d <= m => V[k] \subseteq V[k + d]}
  <2>1. 0 \in D
    OBVIOUS
  <2>2. ASSUME NEW d \in Nat, d \in D PROVE d + 1 \in D
    <3>. SUFFICES ASSUME NEW k \in Nat, k + (d + 1) <= m PROVE V[k] \subseteq V[k + (d + 1)]
      OBVIOUS
    <3>1. V[k] \subseteq V[k + d]
      BY <2>2
    <3>2. k + d \in Nat /\ (k + d) + 1 <= m /\ k + (d + 1) = (k + d) + 1
      OBVIOUS
    <3>3. V[(k + d) + 1] = V[k + d] \cup G[V[k + d]]
      BY <1>1, <3>2
    <3>. QED
      BY <3>1, <3>2, <3>3
  <2> HIDE DEF D
  <2>3. Nat \subseteq D
    BY <2>1, <2>2, NatSetInduction
  <2>. SUFFICES ASSUME NEW k \in 0..m, NEW l \in 0..m, k <= l PROVE V[k] \subseteq V[l]
    OBVIOUS
  <2>4. l - k \in D /\ k \in Nat /\ k + (l - k) = l /\ l <= m
    BY <2>3
  <2>. QED
    BY <2>4 DEF D
<1>. QED
  BY <1>2, <1>3

\* As many levels as there are elements are enough for the last to be closed:
\* one that does not grow is closed, and each that grows has an element more.
LEMMA LevelsClose ==
  ASSUME NEW U, NEW V, NEW m, NEW S, NEW G, Levels(U, V, m, S, G),
         IsFiniteSet(U), Cardinality(U) <= m
  PROVE  V[m] \in SUBSET U /\ S \subseteq V[m] /\ G[V[m]] \subseteq V[m]
<1>. m \in Nat /\ S \in SUBSET U /\ G \in [SUBSET U -> SUBSET U]
  BY DEF Levels
<1>1. V[0] = S /\ \A k \in Nat : k + 1 <= m => V[k + 1] = V[k] \cup G[V[k]]
  BY DEF Levels
<1>2. /\ \A k \in 0..m : V[k] \in SUBSET U
      /\ \A k, l \in 0..m : k <= l => V[k] \subseteq V[l]
  BY LevelsGrow
<1>3. \A T \in SUBSET U : IsFiniteSet(T) /\ Cardinality(T) \in Nat /\ Cardinality(T) <= Cardinality(U)
  BY FS_Subset, FS_CardinalityType
<1>4. Cardinality(U) \in Nat
  BY FS_CardinalityType
<1> DEFINE Closed(T) == G[T] \subseteq T
           D == {k \in Nat : k <= m => k <= Cardinality(V[k]) \/ Closed(V[k])}
<1>5. 0 \in D
  BY <1>1, <1>3
<1>6. ASSUME NEW k \in Nat, k \in D PROVE k + 1 \in D
  <2>. SUFFICES ASSUME k + 1 <= m, ~Closed(V[k + 1]) PROVE k + 1 <= Cardinality(V[k + 1])
    OBVIOUS
  <2>1. V[k + 1] = V[k] \cup G[V[k]] /\ k \in 0..m /\ k + 1 \in 0..m
    BY <1>1
  <2>2. PICK x \in V[k + 1] : x \notin V[k]
    BY <2>1
  <2>3. k <= Cardinality(V[k])
    BY <1>6, <2>1, <2>2
  <2> DEFINE T == V[k]
             W == V[k + 1]
  <2>4. T \in SUBSET U /\ W \in SUBSET U /\ T \subseteq W /\ x \in W \ T
    BY <1>2, <2>1, <2>2
  <2> HIDE DEF T, W
  <2>5. IsFiniteSet(T) /\ IsFiniteSet(W) /\ Cardinality(T) \in Nat /\ Cardinality(W) \in Nat
    BY <1>3, <2>4
  <2>6. Cardinality(T \cup {x}) = Cardinality(T) + 1
    BY <2>4, <2>5, FS_AddElement
  <2>7. T \cup {x} \in SUBSET W
    BY <2>4
  <2>8. Cardinality(T \cup {x}) <= Cardinality(W)
    BY <2>5, <2>7, FS_Subset
  <2>9. k <= Cardinality(T)
    BY <2>3 DEF T
  <2>10. k + 1 <= Cardinality(W)
    BY <2>5, <2>6, <2>8, <2>9
  <2>. QED
    BY <2>10 DEF W
<1>7. m \in D
  <2> HIDE DEF D
  <2>. QED
    BY <1>5, <1>6, NatSetInduction
<1>8. V[m] \in SUBSET U /\ S \subseteq V[m]
  <2>1. 0 \in 0..m /\ m \in 0..m /\ 0 <= m
    OBVIOUS
  <2>. QED
    BY <1>1, <1>2, <2>1
<1>9. CASE m <= Cardinality(V[m])
  <2>1. Cardinality(V[m]) = Cardinality(U)
    BY <1>3, <1>4, <1>8, <1>9
  <2>2. V[m] = U
    BY <1>8, <2>1, FS_Subset
  <2>. QED
    BY <1>8, <2>2
<1>. QED
  BY <1>7, <1>8, <1>9

=============================================================================
