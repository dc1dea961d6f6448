--------------------------- MODULE NetworkQueue_proofs ---------------------------
(***************************************************************************)
(* Proofs about NetworkQueue, for every set of networks and of publishers  *)
(* and every bound on requests and restarts: type correctness, that an     *)
(* execution takes its own entry out of the queue, and that the status of  *)
(* a network tells what is going on.                                       *)
(***************************************************************************)
EXTENDS NetworkQueue, SequenceTheorems, FiniteSetTheorems, TLAPS

FieldShape ==
  /\ listed \in [Network -> Object \cup {None}]
  /\ status \in [Object -> SUBSET Bit]
  /\ queue \in Seq(Network)
  /\ save \in BOOLEAN /\ restored \in BOOLEAN
  /\ copy \in [Publisher -> (SUBSET Bit) \cup {None}]
  /\ unpublished \subseteq Network /\ published \subseteq Network
  /\ disk \in [Network -> (SUBSET Bit) \cup {None}]
  /\ work \in [requests : 0 .. MaxWork, ends : 0 .. MaxEnds]
  /\ astray \subseteq Network

ThreadShape ==
  /\ pc \in [Thread -> Phase]
  /\ net \in [Thread -> Network \cup {None}]
  /\ obj \in [Thread -> Object \cup {None}]
  /\ update \in [Thread -> Change \cup {None}]
  /\ seen \in [Thread -> (SUBSET Bit) \cup {None}]

\* The phases of a thread, and the change of the status that is left to make.
Agenda(t) ==
  \/ t = Generation /\ pc[t] \in {"idle", "work", "finish"} /\ update[t] = None
  \/ t = Generation /\ pc[t] = "finish" /\ update[t] = RemoveBit("assembling")
  \/ t = Reprocess /\ pc[t] \in {"idle", "mark"} /\ update[t] = None
  \/ t = Reprocess /\ pc[t] = "mark" /\ update[t] = AddBit("assembling")
  \/ t \in Publisher /\ pc[t] \notin {"work", "finish"} /\ update[t] = None
  \/ t \in Publisher /\ pc[t] = "mark" /\ update[t] = AddBit("publishing")
  \/ t \in Publisher /\ pc[t] = "flags" /\ update[t] = RemoveBit("publishing")

\* A thread at work has a network and an object; it has loaded a status only to change it.
InStep(t) ==
  /\ Agenda(t)
  /\ obj[t] = None <=> pc[t] = "idle"
  /\ net[t] = None <=> pc[t] = "idle"
  /\ update[t] = None => seen[t] = None

Apart == \A m, n \in Network : m # n /\ listed[m] # None => listed[m] # listed[n]

CopyInv == \A p \in Publisher : copy[p] = None <=> pc[p] # "load"

ShapeInv ==
  FieldShape /\ ThreadShape /\ (\A t \in Thread : InStep(t)) /\ Apart /\ CopyInv

-----------------------------------------------------------------------------
(* Numbers of objects.                                                     *)

\* The objects the list and the threads hold.
Used == {listed[n] : n \in Network} \cup {obj[t] : t \in Thread}

LEMMA ThreadsFinite == IsFiniteSet(Thread) /\ Cardinality(Thread) \in Nat
<1>1. IsFiniteSet({Generation} \cup {Reprocess})
  BY FS_Singleton, FS_Union
<1>2. IsFiniteSet(Thread)
  BY <1>1, FS_Union, NetworkQueueAssumption DEF Thread
<1> QED BY <1>2, FS_CardinalityType

LEMMA UsedIsSmall ==
  ASSUME listed \in [Network -> Object \cup {None}], obj \in [Thread -> Object \cup {None}]
  PROVE  /\ IsFiniteSet(Used)
         /\ Cardinality(Used) <= Cardinality(Network) + Cardinality(Thread)
<1> DEFINE L == {listed[n] : n \in Network}
           H == {obj[t] : t \in Thread}
<1>1. listed \in Surjection(Network, L)
  BY DEF Surjection
<1>2. obj \in Surjection(Thread, H)
  BY DEF Surjection
<1>3. IsFiniteSet(L) /\ Cardinality(L) <= Cardinality(Network)
  BY <1>1, FS_Surjection, NetworkQueueAssumption
<1>4. IsFiniteSet(H) /\ Cardinality(H) <= Cardinality(Thread)
  BY <1>2, FS_Surjection, ThreadsFinite
<1>5. /\ IsFiniteSet(L \cup H)
      /\ Cardinality(L \cup H) = Cardinality(L) + Cardinality(H) - Cardinality(L \cap H)
  BY <1>3, <1>4, FS_Union
<1>6. IsFiniteSet(L \cap H)
  BY <1>3, FS_Intersection
<1>7. /\ Cardinality(L) \in Nat /\ Cardinality(H) \in Nat /\ Cardinality(L \cap H) \in Nat
      /\ Cardinality(Network) \in Nat /\ Cardinality(Thread) \in Nat
  BY <1>3, <1>4, <1>6, FS_CardinalityType, ThreadsFinite, NetworkQueueAssumption
<1> HIDE DEF L, H
<1>8. Cardinality(L \cup H) <= Cardinality(Network) + Cardinality(Thread)
  BY <1>3, <1>4, <1>5, <1>7
<1> QED BY <1>5, <1>8 DEF Used, L, H

\* There are enough objects: a new one is held by nobody.
LEMMA FreshIsFree ==
  ASSUME listed \in [Network -> Object \cup {None}], obj \in [Thread -> Object \cup {None}]
  PROVE  /\ Fresh \in Object
         /\ \A n \in Network : listed[n] # Fresh
         /\ \A t \in Thread : obj[t] # Fresh
<1> DEFINE c == Cardinality(Network) + Cardinality(Thread)
<1>1. c \in Nat
  BY ThreadsFinite, FS_CardinalityType, NetworkQueueAssumption
<1>2. IsFiniteSet(Object) /\ Cardinality(Object) = c + 1
  <2>1. Object = 1 .. c + 1
    BY DEF Object
  <2> HIDE DEF c
  <2> QED BY <1>1, <2>1, FS_Interval
<1>3. ~(Object \subseteq Used)
  <2>1. IsFiniteSet(Used) /\ Cardinality(Used) <= c
    BY UsedIsSmall
  <2>2. Cardinality(Used) \in Nat
    BY <2>1, FS_CardinalityType
  <2> HIDE DEF c
  <2>3. ASSUME Object \subseteq Used PROVE FALSE
    <3>1. Cardinality(Object) <= Cardinality(Used)
      BY <2>1, <2>3, FS_Subset
    <3> QED BY <1>1, <1>2, <2>1, <2>2, <3>1
  <2> QED BY <2>3
<1>4. \E o \in Object : /\ \A n \in Network : listed[n] # o
                        /\ \A t \in Thread : obj[t] # o
  BY <1>3 DEF Used
<1> QED BY <1>4 DEF Fresh

\* Each network has its object after a restart.
LEMMA NumberIsInjective ==
  /\ Number \in [Network -> Object]
  /\ \A m, n \in Network : Number[m] = Number[n] => m = n
<1> DEFINE c == Cardinality(Network)
<1>1. c \in Nat /\ ExistsBijection(1 .. c, Network)
  BY FS_CardinalityType, NetworkQueueAssumption
<1>2. PICK f \in Bijection(1 .. c, Network) : TRUE
  BY <1>1 DEF ExistsBijection
<1>3. f \in [1 .. c -> Network] /\ \A n \in Network : \E k \in 1 .. c : f[k] = n
  BY <1>2 DEF Bijection, Surjection
<1> DEFINE g == [n \in Network |-> CHOOSE k \in 1 .. c : f[k] = n]
<1>4. \A n \in Network : g[n] \in 1 .. c /\ f[g[n]] = n
  BY <1>3
<1>5. 1 .. c \subseteq Object
  BY <1>1, ThreadsFinite DEF Object
<1>6. g \in [Network -> Object]
  BY <1>4, <1>5
<1>7. \A m, n \in Network : g[m] = g[n] => m = n
  BY <1>4
<1>8. \E h \in [Network -> Object] : \A m, n \in Network : h[m] = h[n] => m = n
  <2> HIDE DEF g
  <2> QED BY <1>6, <1>7
<1> QED BY <1>8 DEF Number

-----------------------------------------------------------------------------
(* The queue as a sequence.                                                *)

LEMMA ContainsAppend ==
  ASSUME NEW s \in Seq(Network), NEW m \in Network
  PROVE  /\ Append(s, m) \in Seq(Network) /\ Append(s, m) # <<>>
         /\ \A n \in Network : Contains(Append(s, m), n) <=> Contains(s, n) \/ n = m
         /\ s # <<>> => /\ Head(Append(s, m)) = Head(s)
                        /\ Tail(Append(s, m)) = Append(Tail(s), m)
<1> DEFINE r == Append(s, m)
<1>1. /\ Len(r) = Len(s) + 1 /\ Len(s) \in Nat /\ r[Len(s) + 1] = m
      /\ \A k \in 1 .. Len(s) : r[k] = s[k]
      /\ r \in Seq(Network) /\ r # <<>>
  BY AppendProperties, LenProperties
<1>2. s # <<>> => Head(r) = Head(s) /\ Tail(r) = Append(Tail(s), m)
  BY HeadTailAppend
<1> HIDE DEF r
<1>3. ASSUME NEW n \in Network PROVE Contains(r, n) <=> Contains(s, n) \/ n = m
  <2>1. ASSUME NEW k \in 1 .. Len(r), r[k] = n PROVE Contains(s, n) \/ n = m
    <3>1. k \in 1 .. Len(s) \/ k = Len(s) + 1
      BY <1>1
    <3> QED BY <1>1, <2>1, <3>1 DEF Contains
  <2>2. ASSUME NEW k \in 1 .. Len(s), s[k] = n PROVE Contains(r, n)
    <3>1. k \in 1 .. Len(r)
      BY <1>1
    <3> QED BY <1>1, <2>2, <3>1 DEF Contains
  <2>3. ASSUME n = m PROVE Contains(r, n)
    <3>1. Len(s) + 1 \in 1 .. Len(r)
      BY <1>1
    <3> QED BY <1>1, <2>3, <3>1 DEF Contains
  <2> QED BY <2>1, <2>2, <2>3 DEF Contains
<1> QED BY <1>1, <1>2, <1>3 DEF r

LEMMA ContainsTail ==
  ASSUME NEW s \in Seq(Network), s # <<>>
  PROVE  /\ Head(s) \in Network /\ Tail(s) \in Seq(Network)
         /\ \A n \in Network : Contains(s, n) <=> Head(s) = n \/ Contains(Tail(s), n)
<1> DEFINE r == Tail(s)
<1>1. /\ Head(s) = s[1] /\ Head(s) \in Network /\ Len(s) \in Nat \ {0}
      /\ r \in Seq(Network) /\ Len(r) = Len(s) - 1
      /\ \A k \in 1 .. Len(r) : r[k] = s[k + 1]
  BY HeadTailProperties, EmptySeq
<1> HIDE DEF r
<1>2. ASSUME NEW n \in Network PROVE Contains(s, n) <=> Head(s) = n \/ Contains(r, n)
  <2>1. ASSUME NEW k \in 1 .. Len(s), s[k] = n PROVE Head(s) = n \/ Contains(r, n)
    <3>1. k = 1 \/ (k - 1 \in 1 .. Len(r) /\ (k - 1) + 1 = k)
      BY <1>1
    <3> QED BY <1>1, <2>1, <3>1 DEF Contains
  <2>2. ASSUME NEW k \in 1 .. Len(r), r[k] = n PROVE Contains(s, n)
    <3>1. k + 1 \in 1 .. Len(s)
      BY <1>1
    <3> QED BY <1>1, <2>2, <3>1 DEF Contains
  <2>3. ASSUME Head(s) = n PROVE Contains(s, n)
    <3>1. 1 \in 1 .. Len(s)
      BY <1>1
    <3> QED BY <1>1, <2>3, <3>1 DEF Contains
  <2> QED BY <2>1, <2>2, <2>3 DEF Contains
<1> QED BY <1>1, <1>2 DEF r

LEMMA TailAppend ==
  ASSUME NEW s \in Seq(Network), s # <<>>, NEW n \in Network
  PROVE  \A m \in Network : Contains(Tail(Append(s, n)), m) <=> Contains(Tail(s), m) \/ m = n
<1> DEFINE r == Tail(s)
<1>1. r \in Seq(Network) /\ Tail(Append(s, n)) = Append(r, n)
  BY ContainsTail, ContainsAppend
<1> HIDE DEF r
<1>2. \A m \in Network : Contains(Append(r, n), m) <=> Contains(r, m) \/ m = n
  BY <1>1, ContainsAppend
<1> QED BY <1>1, <1>2 DEF r

\* A set of numbers has a smallest one.
LEMMA Smallest ==
  ASSUME NEW S, S \subseteq Nat, S # {}
  PROVE  \E x \in S : \A y \in S : x <= y
<1> DEFINE R == OpToRel(<, Nat)
<1>1. IsWellFoundedOn(R, Nat)
  BY NatLessThanWellFounded
<1>2. \A x, y \in Nat : y < x => <<y, x>> \in R
  BY DEF OpToRel
<1> HIDE DEF R
<1>3. PICK x \in S : \A y \in S : ~(<<y, x>> \in R)
  BY <1>1, WFMin
<1>4. \A y \in S : ~(y < x)
  BY <1>2, <1>3
<1> QED BY <1>4

LEMMA PartOfQueue ==
  ASSUME NEW s \in Seq(Network), NEW m \in Nat \ {0}, NEW n \in 0 .. Len(s)
  PROVE  /\ SubSeq(s, m, n) \in Seq(Network)
         /\ Len(SubSeq(s, m, n)) = IF m <= n THEN n - m + 1 ELSE 0
         /\ \A j \in 1 .. n - m + 1 : SubSeq(s, m, n)[j] = s[m + j - 1]
<1>1. Len(s) \in Nat /\ m \in Int /\ n \in Int
  BY LenProperties
<1>2. \A i \in m .. n : s[i] \in Network
  BY <1>1
<1> QED BY <1>1, <1>2, SubSeqProperties

\* The first entry of a network leaves the queue, the others stay in their order.
LEMMA RemoveFirstEntry ==
  ASSUME NEW s \in Seq(Network), NEW n \in Network, Contains(s, n),
         NEW k, k = CHOOSE i \in DOMAIN s : s[i] = n /\ \A j \in 1 .. i - 1 : s[j] # n
  PROVE  /\ k \in 1 .. Len(s) /\ s[k] = n /\ \A j \in 1 .. k - 1 : s[j] # n
         /\ RemoveFirst(s, n) \in Seq(Network)
         /\ Len(RemoveFirst(s, n)) = Len(s) - 1
         /\ \A j \in 1 .. k - 1 : RemoveFirst(s, n)[j] = s[j]
         /\ \A j \in k + 1 .. Len(s) : RemoveFirst(s, n)[j - 1] = s[j]
<1> DEFINE I == {i \in 1 .. Len(s) : s[i] = n}
           b == SubSeq(s, 1, k - 1)
           e == SubSeq(s, k + 1, Len(s))
<1>1. Len(s) \in Nat /\ DOMAIN s = 1 .. Len(s)
  BY LenProperties
<1>2. PICK i \in I : \A j \in I : i <= j
  <2>1. I # {} /\ I \subseteq Nat
    BY <1>1 DEF Contains
  <2> QED BY <2>1, Smallest
<1>3. i \in DOMAIN s /\ s[i] = n /\ \A j \in 1 .. i - 1 : s[j] # n
  <2>1. ASSUME NEW j \in 1 .. i - 1, s[j] = n PROVE FALSE
    <3>1. j \in I /\ i \in Nat
      BY <1>1, <2>1
    <3> QED BY <1>2, <3>1
  <2> QED BY <1>1, <2>1
<1>4. k \in DOMAIN s /\ s[k] = n /\ \A j \in 1 .. k - 1 : s[j] # n
  BY <1>3
<1>5. k \in 1 .. Len(s) /\ k \in Nat
  BY <1>1, <1>4
<1>6. ASSUME NEW x \in I, \A j \in I : x <= j PROVE x = k
  <2>1. x <= k
    BY <1>4, <1>5, <1>6
  <2>2. ~(x <= k - 1)
    BY <1>1, <1>4, <1>5
  <2> QED BY <1>1, <1>5, <2>1, <2>2
<1>7. Min(I) = k
  BY <1>2, <1>6 DEF Min
<1>8. RemoveFirst(s, n) = b \o e
  <2>1. SelectInSeq(s, LAMBDA v : v = n) = Min(I)
    BY <1>2 DEF SelectInSeq
  <2> QED BY <1>7, <2>1 DEF RemoveFirst, RemoveAt, Contains
<1>9. /\ b \in Seq(Network) /\ Len(b) = k - 1 /\ \A j \in 1 .. k - 1 : b[j] = s[j]
  <2> DEFINE p == k - 1
  <2>1. p \in 0 .. Len(s) /\ 1 \in Nat \ {0}
    BY <1>1, <1>5
  <2> HIDE DEF p
  <2>2. /\ SubSeq(s, 1, p) \in Seq(Network)
        /\ Len(SubSeq(s, 1, p)) = IF 1 <= p THEN p - 1 + 1 ELSE 0
        /\ \A j \in 1 .. p - 1 + 1 : SubSeq(s, 1, p)[j] = s[1 + j - 1]
    BY <2>1, PartOfQueue
  <2>3. SubSeq(s, 1, p) = b
    BY DEF p
  <2> HIDE DEF b
  <2>4. Len(b) = p /\ \A j \in 1 .. p : b[j] = s[j]
    BY <1>1, <2>1, <2>2, <2>3
  <2> QED BY <2>2, <2>3, <2>4 DEF p
<1>10. /\ e \in Seq(Network) /\ Len(e) = Len(s) - k
       /\ \A j \in 1 .. Len(s) - k : e[j] = s[k + j]
  <2> DEFINE p == k + 1
             l == Len(s)
  <2>1. p \in Nat \ {0} /\ l \in 0 .. Len(s) /\ l \in Nat /\ p \in 1 .. l + 1
    BY <1>1, <1>5
  <2> HIDE DEF p, l
  <2>2. /\ SubSeq(s, p, l) \in Seq(Network)
        /\ Len(SubSeq(s, p, l)) = IF p <= l THEN l - p + 1 ELSE 0
        /\ \A j \in 1 .. l - p + 1 : SubSeq(s, p, l)[j] = s[p + j - 1]
    BY <2>1, PartOfQueue
  <2>3. SubSeq(s, p, l) = e
    BY DEF p, l
  <2> HIDE DEF e
  <2>4. Len(e) = l - p + 1 /\ \A j \in 1 .. l - p + 1 : e[j] = s[p + j - 1]
    BY <2>1, <2>2, <2>3
  <2>5. p = k + 1 /\ l = Len(s)
    BY DEF p, l
  <2>6. l - p + 1 = l - k
    BY <1>5, <2>1, <2>5
  <2>7. \A j \in 1 .. l - k : p + j - 1 = k + j
    BY <1>5, <2>1, <2>5
  <2>8. \A j \in 1 .. l - k : e[j] = s[k + j]
    BY <2>4, <2>6, <2>7
  <2> QED BY <2>2, <2>3, <2>4, <2>5, <2>6, <2>8
<1> HIDE DEF b, e
<1>11. /\ b \o e \in Seq(Network) /\ Len(b \o e) = Len(b) + Len(e)
       /\ \A j \in 1 .. Len(b) + Len(e) :
            (b \o e)[j] = IF j <= Len(b) THEN b[j] ELSE e[j - Len(b)]
  BY <1>9, <1>10, ConcatProperties
<1> DEFINE r == b \o e
<1> HIDE DEF r
<1>12. r \in Seq(Network) /\ Len(r) = Len(s) - 1
  BY <1>1, <1>5, <1>9, <1>10, <1>11 DEF r
<1>13. ASSUME NEW j \in 1 .. k - 1 PROVE r[j] = s[j]
  BY <1>1, <1>5, <1>9, <1>10, <1>11 DEF r
<1>14. ASSUME NEW j \in k + 1 .. Len(s) PROVE r[j - 1] = s[j]
  <2>1. j - 1 \in 1 .. Len(b) + Len(e) /\ ~(j - 1 <= Len(b)) /\ j - 1 - Len(b) = j - k
    BY <1>1, <1>5, <1>9, <1>10
  <2>2. r[j - 1] = e[j - k]
    BY <1>11, <2>1 DEF r
  <2>3. j - k \in 1 .. Len(s) - k /\ k + (j - k) = j
    BY <1>1, <1>5
  <2> QED BY <1>10, <2>2, <2>3
<1> QED BY <1>4, <1>5, <1>8, <1>12, <1>13, <1>14 DEF r

\* What the other networks and the head see of it.
LEMMA RemoveFirstKeeps ==
  ASSUME NEW s \in Seq(Network), NEW n \in Network
  PROVE  /\ RemoveFirst(s, n) \in Seq(Network)
         /\ \A m \in Network \ {n} : Contains(s, m) => Contains(RemoveFirst(s, n), m)
         /\ s # <<>> /\ Head(s) # n =>
              /\ RemoveFirst(s, n) # <<>> /\ Head(RemoveFirst(s, n)) = Head(s)
              /\ \A m \in Network \ {n} :
                   Contains(Tail(s), m) => Contains(Tail(RemoveFirst(s, n)), m)
<1> DEFINE r == RemoveFirst(s, n)
<1>1. CASE ~Contains(s, n)
  <2>1. r = s
    BY <1>1 DEF RemoveFirst, Contains
  <2> QED BY <2>1
<1>2. CASE Contains(s, n)
  <2> DEFINE k == CHOOSE i \in DOMAIN s : s[i] = n /\ \A j \in 1 .. i - 1 : s[j] # n
  <2>1. /\ k \in 1 .. Len(s) /\ s[k] = n
        /\ r \in Seq(Network) /\ Len(r) = Len(s) - 1
        /\ \A j \in 1 .. k - 1 : r[j] = s[j]
        /\ \A j \in k + 1 .. Len(s) : r[j - 1] = s[j]
    BY <1>2, RemoveFirstEntry
  <2> HIDE DEF k, r
  <2>2. Len(s) \in Nat /\ k \in Nat
    BY <2>1, LenProperties
  <2>3. ASSUME NEW j \in 1 .. Len(s), j # k
        PROVE  \E i \in 1 .. Len(r) : r[i] = s[j] /\ (i = j \/ (i = j - 1 /\ j > k))
    <3>1. CASE j < k
      <4>1. j \in 1 .. k - 1 /\ j \in 1 .. Len(r)
        BY <2>1, <2>2, <3>1
      <4> QED BY <2>1, <4>1
    <3>2. CASE j > k
      <4>1. j \in k + 1 .. Len(s) /\ j - 1 \in 1 .. Len(r)
        BY <2>1, <2>2, <3>2
      <4> QED BY <2>1, <3>2, <4>1
    <3> QED BY <2>2, <2>3, <3>1, <3>2
  <2>4. ASSUME NEW m \in Network \ {n}, Contains(s, m) PROVE Contains(r, m)
    <3>1. PICK j \in 1 .. Len(s) : s[j] = m
      BY <2>4 DEF Contains
    <3>2. j # k
      BY <2>1, <3>1
    <3> QED BY <2>3, <3>1, <3>2 DEF Contains
  <2>5. ASSUME s # <<>>, Head(s) # n
        PROVE  /\ r # <<>> /\ Head(r) = Head(s)
               /\ \A m \in Network \ {n} : Contains(Tail(s), m) => Contains(Tail(r), m)
    <3>1. Head(s) = s[1] /\ k # 1 /\ 1 \in 1 .. k - 1
      BY <2>1, <2>2, <2>5
    <3>2. r[1] = s[1] /\ Len(r) > 0
      BY <2>1, <2>2, <3>1
    <3>3. r # <<>> /\ Head(r) = Head(s)
      BY <2>1, <3>1, <3>2
    <3>4. ASSUME NEW m \in Network \ {n}, Contains(Tail(s), m) PROVE Contains(Tail(r), m)
      <4>1. PICK j \in 1 .. Len(Tail(s)) : Tail(s)[j] = m
        BY <3>4 DEF Contains
      <4>2. Len(Tail(s)) = Len(s) - 1 /\ Tail(s)[j] = s[j + 1]
        BY <2>5, HeadTailProperties
      <4>3. Len(Tail(r)) = Len(r) - 1 /\ \A i \in 1 .. Len(r) - 1 : Tail(r)[i] = r[i + 1]
        BY <2>1, <3>3, HeadTailProperties
      <4>4. j + 1 \in 1 .. Len(s) /\ j + 1 # k
        BY <2>1, <2>2, <4>1, <4>2
      <4>5. PICK i \in 1 .. Len(r) : r[i] = m /\ (i = j + 1 \/ (i = (j + 1) - 1 /\ j + 1 > k))
        BY <2>3, <4>1, <4>2, <4>4
      <4>6. i - 1 \in 1 .. Len(r) - 1 /\ (i - 1) + 1 = i
        BY <2>1, <2>2, <3>1, <4>4, <4>5
      <4>7. Tail(r)[i - 1] = m
        BY <4>3, <4>5, <4>6
      <4> QED BY <4>3, <4>6, <4>7 DEF Contains
    <3> QED BY <3>3, <3>4
  <2> QED BY <2>1, <2>4, <2>5 DEF r
<1> QED BY <1>1, <1>2

-----------------------------------------------------------------------------
(* A step of one thread.                                                   *)

LEMMA NoneIsApart ==
  /\ None \notin Network /\ None \notin Object /\ None \notin Change
  /\ \A s \in SUBSET Bit : s # None
  /\ \A b \in Bit : AddBit(b) \in Change /\ RemoveBit(b) \in Change
  /\ AddBit("assembling") # None /\ RemoveBit("assembling") # None
  /\ AddBit("publishing") # None /\ RemoveBit("publishing") # None
<1>1. /\ None \notin Network /\ None \notin Nat /\ None \notin Change
      /\ \A s \in SUBSET Bit : s # None
  BY NetworkQueueAssumption
<1>2. None \notin Object
  BY <1>1 DEF Object
<1>3. \A b \in Bit : AddBit(b) \in Change /\ RemoveBit(b) \in Change
  BY DEF AddBit, RemoveBit, Change
<1>4. "assembling" \in Bit /\ "publishing" \in Bit
  BY DEF Bit
<1> QED BY <1>1, <1>2, <1>3, <1>4

LEMMA ThreadsDiffer ==
  /\ Generation \in Thread /\ Reprocess \in Thread /\ Generation # Reprocess
  /\ \A p \in Publisher : p \in Thread /\ p # Generation /\ p # Reprocess
BY NetworkQueueAssumption DEF Thread

\* Only t goes on: to phase p with the change u, holding network n and object o.
Moves(t, p, u, n, o) ==
  /\ pc'[t] = p /\ update'[t] = u /\ net'[t] = n /\ obj'[t] = o
  /\ \A v \in Thread \ {t} : /\ pc'[v] = pc[v] /\ update'[v] = update[v]
                             /\ net'[v] = net[v] /\ obj'[v] = obj[v]

LEMMA GoMoves ==
  ASSUME ThreadShape, NEW t \in Thread, NEW p \in Phase, NEW u \in Change \cup {None},
         NEW n \in Network \cup {None}, NEW o \in Object \cup {None},
         Go(t, p, u), seen' = seen,
         net' = [net EXCEPT ![t] = n], obj' = [obj EXCEPT ![t] = o]
  PROVE  ThreadShape' /\ Moves(t, p, u, n, o)
<1>1. pc' \in [Thread -> Phase] /\ pc'[t] = p /\ \A v \in Thread \ {t} : pc'[v] = pc[v]
  BY DEF Go, ThreadShape
<1>2. /\ update' \in [Thread -> Change \cup {None}] /\ update'[t] = u
      /\ \A v \in Thread \ {t} : update'[v] = update[v]
  BY DEF Go, ThreadShape
<1>3. /\ net' \in [Thread -> Network \cup {None}] /\ net'[t] = n
      /\ \A v \in Thread \ {t} : net'[v] = net[v]
  BY DEF ThreadShape
<1>4. /\ obj' \in [Thread -> Object \cup {None}] /\ obj'[t] = o
      /\ \A v \in Thread \ {t} : obj'[v] = obj[v]
  BY DEF ThreadShape
<1> QED BY <1>1, <1>2, <1>3, <1>4 DEF ThreadShape, Moves

LEMMA TakeMoves ==
  ASSUME ShapeInv, NEW t \in Thread, NEW p \in Phase, NEW u \in Change \cup {None},
         NEW n \in Network, Go(t, p, u), Take(t, n), seen' = seen
  PROVE  ThreadShape' /\ Moves(t, p, u, n, listed[n]) /\ listed[n] \in Object \cup {None}
<1>1. listed[n] \in Object \cup {None} /\ n \in Network \cup {None}
  BY DEF ShapeInv, FieldShape
<1> QED BY <1>1, GoMoves DEF Take, ShapeInv

LEMMA KeepMoves ==
  ASSUME ShapeInv, NEW t \in Thread, NEW p \in Phase, NEW u \in Change \cup {None},
         Go(t, p, u), UNCHANGED <<net, obj, seen>>
  PROVE  ThreadShape' /\ Moves(t, p, u, net[t], obj[t])
<1>1. net[t] \in Network \cup {None} /\ obj[t] \in Object \cup {None}
  BY DEF ShapeInv, ThreadShape
<1>2. net' = [net EXCEPT ![t] = net[t]] /\ obj' = [obj EXCEPT ![t] = obj[t]]
  BY DEF ShapeInv, ThreadShape
<1> QED BY <1>1, <1>2, GoMoves DEF ShapeInv

LEMMA LeaveMoves ==
  ASSUME ShapeInv, NEW t \in Thread, Go(t, "idle", None), Leave(t), seen' = seen
  PROVE  ThreadShape' /\ Moves(t, "idle", None, None, None)
<1>1. "idle" \in Phase
  BY DEF Phase
<1> QED BY <1>1, GoMoves DEF Leave, ShapeInv

\* The threads are in step again if the one that moved is.
LEMMA StillInStep ==
  ASSUME ShapeInv, NEW t \in Thread, NEW p, NEW u, NEW n, NEW o, Moves(t, p, u, n, o),
         seen' = seen, update[t] = None, Agenda(t)',
         o = None <=> p = "idle", n = None <=> p = "idle"
  PROVE  \A v \in Thread : InStep(v)'
<1>1. InStep(t)'
  BY DEF Moves, ShapeInv, InStep
<1>2. ASSUME NEW v \in Thread \ {t} PROVE InStep(v)'
  <2>1. Agenda(v)'
    BY DEF Moves, ShapeInv, InStep, Agenda
  <2> QED BY <2>1 DEF Moves, ShapeInv, InStep
<1> QED BY <1>1, <1>2

LEMMA WrittenShape ==
  ASSUME NEW l \in [Network -> Object \cup {None}], NEW s \in [Object -> SUBSET Bit]
  PROVE  Written(l, s) \in [Network -> (SUBSET Bit) \cup {None}]
BY DEF Written

LEMMA WorkShape ==
  ASSUME FieldShape, Request \/ EndOfProcess
  PROVE  work' \in [requests : 0 .. MaxWork, ends : 0 .. MaxEnds]
<1>1. /\ MaxWork \in Nat /\ MaxEnds \in Nat
      /\ work.requests \in 0 .. MaxWork /\ work.ends \in 0 .. MaxEnds
      /\ work \in [requests : 0 .. MaxWork, ends : 0 .. MaxEnds]
  BY NetworkQueueAssumption DEF FieldShape
<1>2. CASE Request
  <2>1. work.requests + 1 \in 0 .. MaxWork /\ work' = [work EXCEPT !.requests = work.requests + 1]
    BY <1>1, <1>2 DEF Request, Limit
  <2> QED BY <1>1, <2>1
<1>3. CASE EndOfProcess
  <2>1. work.ends + 1 \in 0 .. MaxEnds /\ work' = [work EXCEPT !.ends = work.ends + 1]
    BY <1>1, <1>3 DEF EndOfProcess, Limit
  <2> QED BY <1>1, <2>1
<1> QED BY <1>2, <1>3

\* No thread moves.
LEMMA ThreadsRest ==
  ASSUME ShapeInv, UNCHANGED <<pc, net, obj, update, seen>>
  PROVE  ThreadShape' /\ \A t \in Thread : InStep(t)'
BY DEF ShapeInv, ThreadShape, InStep, Agenda

-----------------------------------------------------------------------------
(* The shape of the state: requests.                                       *)

LEMMA CreateShape ==
  ASSUME ShapeInv, NEW n \in Network, Create(n)
  PROVE  ShapeInv'
<1> DEFINE o == IF listed[n] = None THEN Fresh ELSE listed[n]
<1>1. /\ UNCHANGED <<save, pc, net, obj, update, seen, copy, unpublished, published,
                     restored, astray>>
      /\ Request /\ disk' = Written(listed', status') /\ queue' = Append(queue, n)
      /\ listed' = [listed EXCEPT ![n] = o]
      /\ status' = IF listed[n] = None THEN [status EXCEPT ![o] = {"assembling"}] ELSE status
  BY DEF Create
<1>2. /\ Fresh \in Object /\ \A m \in Network : listed[m] # Fresh
      /\ o \in Object /\ o # None
  BY FreshIsFree, NoneIsApart DEF ShapeInv, FieldShape, ThreadShape
<1>3. ThreadShape' /\ \A t \in Thread : InStep(t)'
  BY <1>1, ThreadsRest
<1>4. listed' \in [Network -> Object \cup {None}]
  BY <1>1, <1>2 DEF ShapeInv, FieldShape
<1>5. status' \in [Object -> SUBSET Bit]
  BY <1>1, <1>2 DEF ShapeInv, FieldShape, Bit
<1>6. disk' \in [Network -> (SUBSET Bit) \cup {None}]
  BY <1>1, <1>4, <1>5, WrittenShape
<1>7. queue' \in Seq(Network) /\ work' \in [requests : 0 .. MaxWork, ends : 0 .. MaxEnds]
  BY <1>1, WorkShape DEF ShapeInv, FieldShape
<1>8. FieldShape'
  BY <1>1, <1>4, <1>5, <1>6, <1>7 DEF ShapeInv, FieldShape
<1>9. Apart'
  BY <1>1, <1>2 DEF ShapeInv, FieldShape, Apart
<1>10. CopyInv'
  BY <1>1 DEF ShapeInv, CopyInv
<1> QED BY <1>3, <1>8, <1>9, <1>10 DEF ShapeInv

LEMMA DeleteShape ==
  ASSUME ShapeInv, NEW n \in Network, Delete(n)
  PROVE  ShapeInv'
<1>1. /\ UNCHANGED <<status, pc, net, obj, update, seen, copy>>
      /\ Request /\ disk' = Written(listed', status) /\ queue' = RemoveFirst(queue, n)
      /\ listed' = [listed EXCEPT ![n] = None]
      /\ unpublished' = unpublished \ {n} /\ published' = published \ {n}
      /\ astray' = astray \ {n}
  BY DEF Delete
<1>2. save' \in BOOLEAN /\ restored' \in BOOLEAN
  BY DEF Delete, SaveWithout, ShapeInv, FieldShape
<1>3. ThreadShape' /\ \A t \in Thread : InStep(t)'
  BY <1>1, ThreadsRest
<1>4. listed' \in [Network -> Object \cup {None}]
  BY <1>1 DEF ShapeInv, FieldShape
<1>5. disk' \in [Network -> (SUBSET Bit) \cup {None}]
  BY <1>1, <1>4, WrittenShape DEF ShapeInv, FieldShape
<1>6. queue' \in Seq(Network)
  BY <1>1, RemoveFirstKeeps DEF ShapeInv, FieldShape
<1>7. work' \in [requests : 0 .. MaxWork, ends : 0 .. MaxEnds]
  BY <1>1, WorkShape DEF ShapeInv
<1>8. FieldShape'
  BY <1>1, <1>2, <1>4, <1>5, <1>6, <1>7 DEF ShapeInv, FieldShape
<1>9. Apart'
  BY <1>1 DEF ShapeInv, FieldShape, Apart
<1>10. CopyInv'
  BY <1>1 DEF ShapeInv, CopyInv
<1> QED BY <1>3, <1>8, <1>9, <1>10 DEF ShapeInv

\* A step that changes the list of networks, the status and the queue in no way.
LEMMA FieldsRest ==
  ASSUME FieldShape, UNCHANGED <<listed, status, queue, save, restored, copy, unpublished,
                                 published, disk, astray>>,
         work' = work \/ Request
  PROVE  FieldShape'
<1>1. work' \in [requests : 0 .. MaxWork, ends : 0 .. MaxEnds]
  BY WorkShape DEF FieldShape
<1> QED BY <1>1 DEF FieldShape

LEMMA ApartRest == Apart /\ listed' = listed => Apart'
BY DEF Apart

\* A thread that is no publisher moves.
LEMMA CopyRest ==
  ASSUME CopyInv, copy' = copy, \A p \in Publisher : pc'[p] = pc[p]
  PROVE  CopyInv'
BY DEF CopyInv

\* A publisher moves to or from no phase in which it has a copy.
LEMMA CopyMoves ==
  ASSUME CopyInv, copy' = copy, NEW p \in Publisher, NEW q, NEW u, NEW n, NEW o,
         Moves(p, q, u, n, o), pc[p] # "load", q # "load"
  PROVE  CopyInv'
<1>1. \A v \in Publisher \ {p} : pc'[v] = pc[v]
  BY ThreadsDiffer DEF Moves
<1> QED BY <1>1 DEF CopyInv, Moves

LEMMA ReprocessStartShape ==
  ASSUME ShapeInv, NEW n \in Network, ReprocessStart(n)
  PROVE  /\ ShapeInv'
         /\ Moves(Reprocess, "mark", AddBit("assembling"), n, listed[n])
<1>1. /\ UNCHANGED <<listed, status, queue, save, seen, copy, unpublished, published, disk,
                     restored, astray>>
      /\ Request /\ Idle(Reprocess) /\ listed[n] # None
      /\ Go(Reprocess, "mark", AddBit("assembling")) /\ Take(Reprocess, n)
  BY DEF ReprocessStart, QueueFree
<1>2. "mark" \in Phase /\ AddBit("assembling") \in Change
  BY NoneIsApart DEF Phase, Bit
<1>3. ThreadShape' /\ Moves(Reprocess, "mark", AddBit("assembling"), n, listed[n])
  BY <1>1, <1>2, TakeMoves, ThreadsDiffer
<1>4. update[Reprocess] = None
  BY <1>1, ThreadsDiffer DEF Idle, ShapeInv, InStep, Agenda
<1>5. Agenda(Reprocess)'
  BY <1>3 DEF Moves, Agenda
<1>6. \A v \in Thread : InStep(v)'
  BY <1>1, <1>3, <1>4, <1>5, StillInStep, NoneIsApart, ThreadsDiffer
<1>7. FieldShape' /\ Apart'
  BY <1>1, FieldsRest, ApartRest DEF ShapeInv
<1>8. CopyInv'
  BY <1>1, <1>3, CopyRest, ThreadsDiffer DEF Moves, ShapeInv
<1> QED BY <1>3, <1>6, <1>7, <1>8 DEF ShapeInv

LEMMA ReprocessEndShape ==
  ASSUME ShapeInv, ReprocessEnd
  PROVE  /\ ShapeInv'
         /\ Moves(Reprocess, "idle", None, None, None)
         /\ net[Reprocess] \in Network
<1>1. /\ UNCHANGED <<listed, status, save, seen, copy, unpublished, published, work,
                     restored, astray>>
      /\ pc[Reprocess] = "mark" /\ update[Reprocess] = None
      /\ disk' = Written(listed, status) /\ queue' = Append(queue, net[Reprocess])
      /\ Go(Reprocess, "idle", None) /\ Leave(Reprocess)
  BY DEF ReprocessEnd, HasUpdated
<1>2. ThreadShape' /\ Moves(Reprocess, "idle", None, None, None)
  BY <1>1, LeaveMoves, ThreadsDiffer
<1>3. Agenda(Reprocess)'
  BY <1>2 DEF Moves, Agenda
<1>4. \A v \in Thread : InStep(v)'
  BY <1>1, <1>2, <1>3, StillInStep, ThreadsDiffer
<1>5. net[Reprocess] \in Network
  BY <1>1, ThreadsDiffer DEF ShapeInv, ThreadShape, InStep
<1>6. disk' \in [Network -> (SUBSET Bit) \cup {None}] /\ queue' \in Seq(Network)
  BY <1>1, <1>5, WrittenShape DEF ShapeInv, FieldShape
<1>7. FieldShape' /\ Apart'
  BY <1>1, <1>6, ApartRest DEF ShapeInv, FieldShape
<1>8. CopyInv'
  BY <1>1, <1>2, CopyRest, ThreadsDiffer DEF Moves, ShapeInv
<1> QED BY <1>2, <1>4, <1>5, <1>7, <1>8 DEF ShapeInv

-----------------------------------------------------------------------------
(* The shape of the state: execute().                                      *)

LEMMA TakeFirstShape ==
  ASSUME ShapeInv, TakeFirst
  PROVE  /\ ShapeInv'
         /\ queue # <<>> /\ Head(queue) \in Network
         /\ listed[Head(queue)] # None =>
              /\ queue' = queue
              /\ Moves(Generation, "work", None, Head(queue), listed[Head(queue)])
         /\ listed[Head(queue)] = None =>
              queue' = Tail(queue) /\ UNCHANGED <<pc, update, net, obj>>
<1> DEFINE n == Head(queue)
<1>1. /\ UNCHANGED <<listed, status, seen, copy, unpublished, published, disk, work, astray>>
      /\ Idle(Generation) /\ queue # <<>>
      /\ save' = TRUE /\ restored' = FALSE
  BY DEF TakeFirst
<1>2. n \in Network /\ Tail(queue) \in Seq(Network)
  BY <1>1, ContainsTail DEF ShapeInv, FieldShape
<1>3. Apart'
  BY <1>1, ApartRest DEF ShapeInv
<1>a. queue' \in Seq(Network) => FieldShape'
  BY <1>1 DEF ShapeInv, FieldShape
<1>4. CASE listed[n] # None
  <2>1. Go(Generation, "work", None) /\ Take(Generation, n) /\ queue' = queue
    BY <1>4 DEF TakeFirst
  <2>2. "work" \in Phase
    BY DEF Phase
  <2>3. ThreadShape' /\ Moves(Generation, "work", None, n, listed[n])
    BY <1>1, <1>2, <2>1, <2>2, TakeMoves, ThreadsDiffer
  <2>4. update[Generation] = None
    BY <1>1, ThreadsDiffer DEF Idle, ShapeInv, InStep, Agenda
  <2>5. Agenda(Generation)'
    BY <2>3 DEF Moves, Agenda
  <2>6. \A v \in Thread : InStep(v)'
    BY <1>1, <1>2, <1>4, <2>3, <2>4, <2>5, StillInStep, NoneIsApart, ThreadsDiffer
  <2>7. FieldShape'
    BY <1>a, <2>1 DEF ShapeInv, FieldShape
  <2>8. CopyInv'
    BY <1>1, <2>3, CopyRest, ThreadsDiffer DEF Moves, ShapeInv
  <2> QED BY <1>1, <1>2, <1>3, <1>4, <2>1, <2>3, <2>6, <2>7, <2>8 DEF ShapeInv
<1>5. CASE listed[n] = None
  <2>1. queue' = Tail(queue) /\ UNCHANGED <<pc, update, net, obj>>
    BY <1>5 DEF TakeFirst
  <2>2. ThreadShape' /\ \A t \in Thread : InStep(t)'
    BY <1>1, <2>1, ThreadsRest
  <2>3. CopyInv'
    BY <1>1, <2>1 DEF ShapeInv, CopyInv
  <2> QED BY <1>1, <1>2, <1>3, <1>a, <1>5, <2>1, <2>2, <2>3 DEF ShapeInv
<1> QED BY <1>4, <1>5

LEMMA FailShape ==
  ASSUME ShapeInv, Fail
  PROVE  /\ ShapeInv'
         /\ Moves(Generation, "idle", None, None, None)
         /\ obj[Generation] \in Object
<1>1. /\ UNCHANGED <<listed, queue, save, seen, copy, unpublished, published, work,
                     restored, astray>>
      /\ pc[Generation] = "work"
      /\ status' = [status EXCEPT ![obj[Generation]] = {}]
      /\ disk' = Written(listed, status')
      /\ Go(Generation, "idle", None) /\ Leave(Generation)
  BY DEF Fail
<1>2. ThreadShape' /\ Moves(Generation, "idle", None, None, None)
  BY <1>1, LeaveMoves, ThreadsDiffer
<1>3. Agenda(Generation)' /\ update[Generation] = None
  BY <1>1, <1>2, ThreadsDiffer DEF Moves, Agenda, ShapeInv, InStep
<1>4. \A v \in Thread : InStep(v)'
  BY <1>1, <1>2, <1>3, StillInStep, ThreadsDiffer
<1>5. obj[Generation] \in Object
  BY <1>1, ThreadsDiffer DEF ShapeInv, ThreadShape, InStep
<1>6. status' \in [Object -> SUBSET Bit]
  BY <1>1, <1>5 DEF ShapeInv, FieldShape
<1>7. disk' \in [Network -> (SUBSET Bit) \cup {None}]
  BY <1>1, <1>6, WrittenShape DEF ShapeInv, FieldShape
<1>8. FieldShape' /\ Apart'
  BY <1>1, <1>6, <1>7, ApartRest DEF ShapeInv, FieldShape
<1>9. CopyInv'
  BY <1>1, <1>2, CopyRest, ThreadsDiffer DEF Moves, ShapeInv
<1> QED BY <1>2, <1>4, <1>5, <1>8, <1>9 DEF ShapeInv

LEMMA DoneShape ==
  ASSUME ShapeInv, Done
  PROVE  /\ ShapeInv'
         /\ net[Generation] \in Network
         /\ save => Moves(Generation, "finish", RemoveBit("assembling"),
                          net[Generation], obj[Generation])
         /\ ~save => Moves(Generation, "idle", None, None, None)
<1>1. /\ UNCHANGED <<listed, status, save, seen, copy, published, disk, work, restored>>
      /\ pc[Generation] = "work"
  BY DEF Done
<1>2. update[Generation] = None
  BY <1>1, ThreadsDiffer DEF ShapeInv, InStep, Agenda
<1>3. net[Generation] \in Network /\ obj[Generation] # None
  BY <1>1, ThreadsDiffer DEF ShapeInv, ThreadShape, InStep
<1>4. CASE save
  <2>1. /\ unpublished' = unpublished \cup {net[Generation]}
        /\ queue' = IF queue = <<>> THEN queue ELSE Tail(queue)
        /\ Go(Generation, "finish", RemoveBit("assembling"))
        /\ astray' = IF restored /\ queue # <<>> THEN astray \cup {Head(queue)} ELSE astray
        /\ UNCHANGED <<net, obj>>
    BY <1>4 DEF Done
  <2>2. "finish" \in Phase /\ RemoveBit("assembling") \in Change
    BY NoneIsApart DEF Phase, Bit
  <2>3. /\ ThreadShape'
        /\ Moves(Generation, "finish", RemoveBit("assembling"), net[Generation], obj[Generation])
    BY <1>1, <2>1, <2>2, KeepMoves, ThreadsDiffer
  <2>4. Agenda(Generation)'
    BY <2>3 DEF Moves, Agenda
  <2>5. \A v \in Thread : InStep(v)'
    BY <1>1, <1>2, <1>3, <2>3, <2>4, StillInStep, NoneIsApart, ThreadsDiffer
  <2>6. queue # <<>> => Head(queue) \in Network /\ Tail(queue) \in Seq(Network)
    BY ContainsTail DEF ShapeInv, FieldShape
  <2>7. queue' \in Seq(Network) /\ astray' \subseteq Network
    BY <2>1, <2>6 DEF ShapeInv, FieldShape
  <2>8. FieldShape'
    BY <1>1, <1>3, <2>1, <2>7 DEF ShapeInv, FieldShape
  <2>9. CopyInv' /\ Apart'
    BY <1>1, <2>3, CopyRest, ApartRest, ThreadsDiffer DEF Moves, ShapeInv
  <2> QED BY <1>3, <1>4, <2>3, <2>5, <2>8, <2>9 DEF ShapeInv
<1>5. CASE ~save
  <2>1. /\ Go(Generation, "idle", None) /\ Leave(Generation)
        /\ UNCHANGED <<unpublished, queue, astray>>
    BY <1>5 DEF Done
  <2>2. ThreadShape' /\ Moves(Generation, "idle", None, None, None)
    BY <1>1, <2>1, LeaveMoves, ThreadsDiffer
  <2>3. Agenda(Generation)'
    BY <2>2 DEF Moves, Agenda
  <2>4. \A v \in Thread : InStep(v)'
    BY <1>1, <1>2, <2>2, <2>3, StillInStep, ThreadsDiffer
  <2>5. FieldShape' /\ Apart'
    BY <1>1, <2>1, ApartRest DEF ShapeInv, FieldShape
  <2>6. CopyInv'
    BY <1>1, <2>2, CopyRest, ThreadsDiffer DEF Moves, ShapeInv
  <2> QED BY <1>3, <1>5, <2>2, <2>4, <2>5, <2>6 DEF ShapeInv
<1> QED BY <1>4, <1>5

LEMMA FinishShape ==
  ASSUME ShapeInv, Finish
  PROVE  /\ ShapeInv'
         /\ Moves(Generation, "idle", None, None, None)
<1>1. /\ UNCHANGED <<listed, status, queue, save, seen, copy, unpublished, published, work,
                     restored, astray>>
      /\ update[Generation] = None
      /\ disk' = Written(listed, status)
      /\ Go(Generation, "idle", None) /\ Leave(Generation)
  BY DEF Finish, HasUpdated
<1>2. ThreadShape' /\ Moves(Generation, "idle", None, None, None)
  BY <1>1, LeaveMoves, ThreadsDiffer
<1>3. Agenda(Generation)'
  BY <1>2 DEF Moves, Agenda
<1>4. \A v \in Thread : InStep(v)'
  BY <1>1, <1>2, <1>3, StillInStep, ThreadsDiffer
<1>5. disk' \in [Network -> (SUBSET Bit) \cup {None}]
  BY <1>1, WrittenShape DEF ShapeInv, FieldShape
<1>6. FieldShape' /\ Apart'
  BY <1>1, <1>5, ApartRest DEF ShapeInv, FieldShape
<1>7. CopyInv'
  BY <1>1, <1>2, CopyRest, ThreadsDiffer DEF Moves, ShapeInv
<1> QED BY <1>2, <1>4, <1>6, <1>7 DEF ShapeInv

-----------------------------------------------------------------------------
(* The shape of the state: publishNetwork().                               *)

LEMMA PublisherAtWork ==
  ASSUME ShapeInv, NEW p \in Publisher, pc[p] # "idle"
  PROVE  net[p] \in Network /\ obj[p] \in Object /\ net[p] # None /\ obj[p] # None
BY ThreadsDiffer DEF ShapeInv, ThreadShape, InStep

LEMMA PublishStartShape ==
  ASSUME ShapeInv, NEW p \in Publisher, NEW n \in Network, PublishStart(p, n)
  PROVE  /\ ShapeInv'
         /\ Moves(p, "mark", AddBit("publishing"), n, listed[n])
<1>1. /\ UNCHANGED <<listed, status, queue, save, seen, copy, unpublished, published, disk,
                     restored, astray>>
      /\ Request /\ pc[p] = "idle" /\ listed[n] # None
      /\ Go(p, "mark", AddBit("publishing")) /\ Take(p, n)
  BY DEF PublishStart, Idle
<1>2. "mark" \in Phase /\ AddBit("publishing") \in Change
  BY NoneIsApart DEF Phase, Bit
<1>3. ThreadShape' /\ Moves(p, "mark", AddBit("publishing"), n, listed[n])
  BY <1>1, <1>2, TakeMoves, ThreadsDiffer
<1>4. update[p] = None
  BY <1>1, ThreadsDiffer DEF ShapeInv, InStep, Agenda
<1>5. Agenda(p)'
  BY <1>3 DEF Moves, Agenda
<1>6. \A v \in Thread : InStep(v)'
  BY <1>1, <1>3, <1>4, <1>5, StillInStep, NoneIsApart, ThreadsDiffer
<1>7. FieldShape' /\ Apart'
  BY <1>1, FieldsRest, ApartRest DEF ShapeInv
<1>8. CopyInv'
  BY <1>1, <1>3, CopyMoves DEF ShapeInv
<1> QED BY <1>3, <1>6, <1>7, <1>8 DEF ShapeInv

LEMMA PublishSubmitShape ==
  ASSUME ShapeInv, NEW p \in Publisher, PublishSubmit(p)
  PROVE  ShapeInv' /\ Moves(p, "publish", None, net[p], obj[p])
<1>1. /\ UNCHANGED <<listed, status, queue, save, net, obj, seen, copy, unpublished,
                     published, work, restored, astray>>
      /\ pc[p] = "mark" /\ update[p] = None
      /\ disk' = Written(listed, status) /\ Go(p, "publish", None)
  BY DEF PublishSubmit, HasUpdated
<1>2. "publish" \in Phase
  BY DEF Phase
<1>3. ThreadShape' /\ Moves(p, "publish", None, net[p], obj[p])
  BY <1>1, <1>2, KeepMoves, ThreadsDiffer
<1>4. Agenda(p)'
  BY <1>3 DEF Moves, Agenda
<1>5. \A v \in Thread : InStep(v)'
  BY <1>1, <1>3, <1>4, StillInStep, PublisherAtWork, ThreadsDiffer
<1>6. disk' \in [Network -> (SUBSET Bit) \cup {None}]
  BY <1>1, WrittenShape DEF ShapeInv, FieldShape
<1>7. FieldShape' /\ Apart'
  BY <1>1, <1>6, ApartRest DEF ShapeInv, FieldShape
<1>8. CopyInv'
  BY <1>1, <1>3, CopyMoves DEF ShapeInv
<1> QED BY <1>3, <1>5, <1>7, <1>8 DEF ShapeInv

LEMMA PublishFileShape ==
  ASSUME ShapeInv, NEW p \in Publisher, PublishFile(p)
  PROVE  ShapeInv' /\ Moves(p, "flags", RemoveBit("publishing"), net[p], obj[p])
<1>1. /\ UNCHANGED <<listed, status, queue, save, net, obj, seen, copy, unpublished, disk,
                     work, restored, astray>>
      /\ pc[p] = "publish" /\ published' = published \cup {net[p]}
      /\ Go(p, "flags", RemoveBit("publishing"))
  BY DEF PublishFile
<1>2. "flags" \in Phase /\ RemoveBit("publishing") \in Change
  BY NoneIsApart DEF Phase, Bit
<1>3. ThreadShape' /\ Moves(p, "flags", RemoveBit("publishing"), net[p], obj[p])
  BY <1>1, <1>2, KeepMoves, ThreadsDiffer
<1>4. update[p] = None
  BY <1>1, ThreadsDiffer DEF ShapeInv, InStep, Agenda
<1>5. Agenda(p)'
  BY <1>3 DEF Moves, Agenda
<1>6. \A v \in Thread : InStep(v)'
  BY <1>1, <1>3, <1>4, <1>5, StillInStep, PublisherAtWork, ThreadsDiffer
<1>7. published' \subseteq Network
  BY <1>1, PublisherAtWork DEF ShapeInv, FieldShape
<1>8. FieldShape' /\ Apart'
  BY <1>1, <1>7, ApartRest DEF ShapeInv, FieldShape
<1>9. CopyInv'
  BY <1>1, <1>3, CopyMoves DEF ShapeInv
<1> QED BY <1>3, <1>6, <1>8, <1>9 DEF ShapeInv

LEMMA PublishReadShape ==
  ASSUME ShapeInv, NEW p \in Publisher, PublishRead(p)
  PROVE  ShapeInv' /\ Moves(p, "load", None, net[p], obj[p])
<1>1. /\ UNCHANGED <<listed, status, queue, save, net, obj, seen, unpublished, published,
                     disk, work, restored, astray>>
      /\ pc[p] = "flags" /\ update[p] = None
      /\ copy' = [copy EXCEPT ![p] = status[obj[p]]]
      /\ Go(p, "load", None)
  BY DEF PublishRead, HasUpdated
<1>2. "load" \in Phase
  BY DEF Phase
<1>3. ThreadShape' /\ Moves(p, "load", None, net[p], obj[p])
  BY <1>1, <1>2, KeepMoves, ThreadsDiffer
<1>4. Agenda(p)'
  BY <1>3 DEF Moves, Agenda
<1>5. \A v \in Thread : InStep(v)'
  BY <1>1, <1>3, <1>4, StillInStep, PublisherAtWork, ThreadsDiffer
<1>6. status[obj[p]] \in SUBSET Bit /\ status[obj[p]] # None
  BY <1>1, PublisherAtWork, NoneIsApart DEF ShapeInv, FieldShape
<1>7. /\ copy' \in [Publisher -> (SUBSET Bit) \cup {None}]
      /\ copy'[p] # None /\ \A q \in Publisher \ {p} : copy'[q] = copy[q]
  BY <1>1, <1>6 DEF ShapeInv, FieldShape
<1>8. FieldShape' /\ Apart'
  BY <1>1, <1>7, ApartRest DEF ShapeInv, FieldShape
<1>9. CopyInv'
  BY <1>3, <1>7, ThreadsDiffer DEF Moves, ShapeInv, CopyInv
<1> QED BY <1>3, <1>5, <1>8, <1>9 DEF ShapeInv

LEMMA PublishLoadShape ==
  ASSUME ShapeInv, NEW p \in Publisher, PublishLoad(p)
  PROVE  /\ ShapeInv' /\ Moves(p, "save", None, net[p], obj[p])
         /\ copy[p] \in SUBSET Bit
<1>1. /\ UNCHANGED <<queue, save, net, obj, seen, unpublished, published, disk, work, restored>>
      /\ pc[p] = "load"
      /\ listed' = [listed EXCEPT ![net[p]] = Fresh]
      /\ status' = [status EXCEPT ![Fresh] = copy[p]]
      /\ copy' = [copy EXCEPT ![p] = None]
      /\ Go(p, "save", None)
      /\ astray' = IF copy[p] = {} THEN astray ELSE astray \cup {net[p]}
  BY DEF PublishLoad
<1>2. "save" \in Phase
  BY DEF Phase
<1>3. ThreadShape' /\ Moves(p, "save", None, net[p], obj[p])
  BY <1>1, <1>2, KeepMoves, ThreadsDiffer
<1>4. Agenda(p)' /\ update[p] = None
  BY <1>1, <1>3, ThreadsDiffer DEF Moves, ShapeInv, InStep, Agenda
<1>5. \A v \in Thread : InStep(v)'
  BY <1>1, <1>3, <1>4, StillInStep, PublisherAtWork, ThreadsDiffer
<1>6. copy[p] \in SUBSET Bit /\ net[p] \in Network
  BY <1>1, PublisherAtWork DEF ShapeInv, FieldShape, CopyInv
<1>7. Fresh \in Object /\ Fresh # None /\ \A m \in Network : listed[m] # Fresh
  BY FreshIsFree, NoneIsApart DEF ShapeInv, FieldShape, ThreadShape
<1>8. /\ copy' \in [Publisher -> (SUBSET Bit) \cup {None}]
      /\ copy'[p] = None /\ \A q \in Publisher \ {p} : copy'[q] = copy[q]
  BY <1>1, <1>6 DEF ShapeInv, FieldShape
<1>9. listed' \in [Network -> Object \cup {None}] /\ status' \in [Object -> SUBSET Bit]
  BY <1>1, <1>6, <1>7 DEF ShapeInv, FieldShape
<1>10. FieldShape'
  BY <1>1, <1>6, <1>8, <1>9 DEF ShapeInv, FieldShape
<1>11. Apart'
  BY <1>1, <1>6, <1>7 DEF ShapeInv, FieldShape, Apart
<1>12. CopyInv'
  BY <1>3, <1>8, ThreadsDiffer DEF Moves, ShapeInv, CopyInv
<1> QED BY <1>3, <1>5, <1>6, <1>10, <1>11, <1>12 DEF ShapeInv

LEMMA PublishFailShape ==
  ASSUME ShapeInv, NEW p \in Publisher, PublishFail(p)
  PROVE  /\ ShapeInv' /\ Moves(p, "save", None, net[p], obj[p])
         /\ obj[p] \in Object
<1>1. /\ UNCHANGED <<listed, queue, save, net, obj, seen, unpublished, published, disk, work,
                     restored, astray>>
      /\ pc[p] \in {"publish", "flags", "load"} /\ update[p] = None
      /\ status' = [status EXCEPT ![obj[p]] = {}]
      /\ copy' = [copy EXCEPT ![p] = None]
      /\ Go(p, "save", None)
  BY DEF PublishFail, HasUpdated
<1>2. "save" \in Phase
  BY DEF Phase
<1>3. ThreadShape' /\ Moves(p, "save", None, net[p], obj[p])
  BY <1>1, <1>2, KeepMoves, ThreadsDiffer
<1>4. Agenda(p)'
  BY <1>3 DEF Moves, Agenda
<1>5. obj[p] \in Object /\ net[p] # None /\ obj[p] # None
  BY <1>1, PublisherAtWork
<1>6. \A v \in Thread : InStep(v)'
  BY <1>1, <1>3, <1>4, <1>5, StillInStep, ThreadsDiffer
<1>7. /\ copy' \in [Publisher -> (SUBSET Bit) \cup {None}]
      /\ copy'[p] = None /\ \A q \in Publisher \ {p} : copy'[q] = copy[q]
  BY <1>1 DEF ShapeInv, FieldShape
<1>8. status' \in [Object -> SUBSET Bit]
  BY <1>1, <1>5 DEF ShapeInv, FieldShape
<1>9. FieldShape' /\ Apart'
  BY <1>1, <1>7, <1>8, ApartRest DEF ShapeInv, FieldShape
<1>10. CopyInv'
  BY <1>3, <1>7, ThreadsDiffer DEF Moves, ShapeInv, CopyInv
<1> QED BY <1>3, <1>5, <1>6, <1>9, <1>10 DEF ShapeInv

LEMMA PublishSaveShape ==
  ASSUME ShapeInv, NEW p \in Publisher, PublishSave(p)
  PROVE  ShapeInv' /\ Moves(p, "idle", None, None, None)
<1>1. /\ UNCHANGED <<listed, status, queue, save, seen, copy, unpublished, published, work,
                     restored, astray>>
      /\ pc[p] = "save" /\ disk' = Written(listed, status)
      /\ Go(p, "idle", None) /\ Leave(p)
  BY DEF PublishSave
<1>2. ThreadShape' /\ Moves(p, "idle", None, None, None)
  BY <1>1, LeaveMoves, ThreadsDiffer
<1>3. Agenda(p)' /\ update[p] = None
  BY <1>1, <1>2, ThreadsDiffer DEF Moves, ShapeInv, InStep, Agenda
<1>4. \A v \in Thread : InStep(v)'
  BY <1>1, <1>2, <1>3, StillInStep, ThreadsDiffer
<1>5. disk' \in [Network -> (SUBSET Bit) \cup {None}]
  BY <1>1, WrittenShape DEF ShapeInv, FieldShape
<1>6. FieldShape' /\ Apart'
  BY <1>1, <1>5, ApartRest DEF ShapeInv, FieldShape
<1>7. CopyInv'
  BY <1>1, <1>2, CopyMoves DEF ShapeInv
<1> QED BY <1>2, <1>4, <1>6, <1>7 DEF ShapeInv

-----------------------------------------------------------------------------
(* The shape of the state: changes of the status, stops and restarts.      *)

LEMMA LoadShape ==
  ASSUME ShapeInv, NEW t \in Thread, Load(t)
  PROVE  ShapeInv'
<1>1. /\ UNCHANGED <<listed, status, queue, save, pc, net, obj, update, copy,
                     unpublished, published, disk, work, restored, astray>>
      /\ update[t] # None /\ seen' = [seen EXCEPT ![t] = status[obj[t]]]
  BY DEF Load
<1>2. obj[t] \in Object
  BY <1>1, ThreadsDiffer DEF ShapeInv, ThreadShape, InStep, Agenda
<1>3. status[obj[t]] \in SUBSET Bit
  BY <1>2 DEF ShapeInv, FieldShape
<1>4. /\ seen' \in [Thread -> (SUBSET Bit) \cup {None}]
      /\ \A v \in Thread \ {t} : seen'[v] = seen[v]
  BY <1>1, <1>3 DEF ShapeInv, ThreadShape
<1>5. ThreadShape' /\ \A v \in Thread : InStep(v)'
  BY <1>1, <1>4 DEF ShapeInv, ThreadShape, InStep, Agenda
<1>6. FieldShape' /\ Apart'
  BY <1>1, ApartRest DEF ShapeInv, FieldShape
<1>7. CopyInv'
  BY <1>1 DEF ShapeInv, CopyInv
<1> QED BY <1>5, <1>6, <1>7 DEF ShapeInv

\* What Store writes: its object's status, with one bit more or one less.
LEMMA StoreShape ==
  ASSUME ShapeInv, NEW t \in Thread, Store(t)
  PROVE  /\ ShapeInv'
         /\ obj[t] \in Object /\ net[t] \in Network /\ update[t] # None
         /\ UNCHANGED <<listed, queue, save, restored, pc, net, obj>>
         /\ update'[t] = None /\ \A v \in Thread \ {t} : update'[v] = update[v]
         /\ status' = [status EXCEPT ![obj[t]] =
                         IF update[t].op = "add" THEN seen[t] \cup {update[t].bit}
                                                 ELSE seen[t] \ {update[t].bit}]
         /\ astray' = IF status[obj[t]] = seen[t] THEN astray ELSE astray \cup {net[t]}
<1> DEFINE new == IF update[t].op = "add" THEN seen[t] \cup {update[t].bit}
                                          ELSE seen[t] \ {update[t].bit}
<1>1. /\ UNCHANGED <<listed, queue, save, pc, net, obj, copy,
                     unpublished, published, disk, work, restored>>
      /\ seen[t] # None
      /\ status' = [status EXCEPT ![obj[t]] = new]
      /\ seen' = [seen EXCEPT ![t] = None]
      /\ update' = [update EXCEPT ![t] = None]
      /\ astray' = IF status[obj[t]] = seen[t] THEN astray ELSE astray \cup {net[t]}
  BY DEF Store
<1>2. update[t] # None /\ pc[t] # "idle"
  BY <1>1, ThreadsDiffer DEF ShapeInv, InStep, Agenda
<1>3. obj[t] \in Object /\ net[t] \in Network
  BY <1>2 DEF ShapeInv, ThreadShape, InStep
<1>4. update[t] \in Change /\ seen[t] \in SUBSET Bit
  BY <1>1, <1>2 DEF ShapeInv, ThreadShape
<1>5. new \in SUBSET Bit
  BY <1>4 DEF Change
<1> HIDE DEF new
<1>6. status' \in [Object -> SUBSET Bit] /\ astray' \subseteq Network
  BY <1>1, <1>3, <1>5 DEF ShapeInv, FieldShape
<1>7. /\ seen' \in [Thread -> (SUBSET Bit) \cup {None}]
      /\ seen'[t] = None /\ \A v \in Thread \ {t} : seen'[v] = seen[v]
  BY <1>1 DEF ShapeInv, ThreadShape
<1>8. /\ update' \in [Thread -> Change \cup {None}]
      /\ update'[t] = None /\ \A v \in Thread \ {t} : update'[v] = update[v]
  BY <1>1 DEF ShapeInv, ThreadShape
<1>9. ThreadShape'
  BY <1>1, <1>7, <1>8 DEF ShapeInv, ThreadShape
<1>10. Agenda(t)'
  <2>1. Agenda(t) /\ pc'[t] = pc[t]
    BY <1>1 DEF ShapeInv, InStep
  <2> QED BY <1>2, <1>8, <2>1 DEF Agenda
<1>11. \A v \in Thread : InStep(v)'
  BY <1>1, <1>7, <1>8, <1>10 DEF ShapeInv, InStep, Agenda
<1>12. FieldShape' /\ Apart'
  BY <1>1, <1>6, ApartRest DEF ShapeInv, FieldShape
<1>13. CopyInv'
  BY <1>1 DEF ShapeInv, CopyInv
<1> QED BY <1>1, <1>2, <1>3, <1>8, <1>9, <1>11, <1>12, <1>13 DEF ShapeInv, new

LEMMA StopShape ==
  ASSUME ShapeInv, Stop
  PROVE  ShapeInv'
<1>1. /\ UNCHANGED <<listed, queue, save, pc, net, obj, update, seen, copy, unpublished,
                     published, restored, astray>>
      /\ EndOfProcess /\ disk' = Written(listed, status')
      /\ status' = [o \in Object |-> IF \E n \in Network : listed[n] = o
                                     THEN status[o] \ {"publishing"} ELSE status[o]]
  BY DEF Stop
<1>2. ThreadShape' /\ \A t \in Thread : InStep(t)'
  BY <1>1, ThreadsRest
<1>3. status' \in [Object -> SUBSET Bit]
  BY <1>1 DEF ShapeInv, FieldShape
<1>4. /\ disk' \in [Network -> (SUBSET Bit) \cup {None}]
      /\ work' \in [requests : 0 .. MaxWork, ends : 0 .. MaxEnds]
  BY <1>1, <1>3, WrittenShape, WorkShape DEF ShapeInv, FieldShape
<1>5. FieldShape' /\ Apart'
  BY <1>1, <1>3, <1>4, ApartRest DEF ShapeInv, FieldShape
<1>6. CopyInv'
  BY <1>1 DEF ShapeInv, CopyInv
<1> QED BY <1>2, <1>5, <1>6 DEF ShapeInv

LEMMA RestartShape ==
  ASSUME ShapeInv, Restart
  PROVE  /\ ShapeInv'
         /\ \A t \in Thread : pc'[t] = "idle" /\ obj'[t] = None
<1>1. /\ listed' = [n \in Network |-> IF disk[n] = None THEN None ELSE Number[n]]
      /\ status' = [o \in Object |-> IF \E n \in Network : listed'[n] = o
                                     THEN disk[CHOOSE n \in Network : Number[n] = o] ELSE {}]
      /\ queue' = <<>> /\ save' = TRUE /\ restored' = FALSE
      /\ astray' = {n \in Network : disk[n] \notin {None, {}}}
      /\ UNCHANGED <<unpublished, published, disk>> /\ EndOfProcess
  BY DEF Restart
<1>2. /\ pc' = [t \in Thread |-> "idle"]
      /\ net' = [t \in Thread |-> None]
      /\ obj' = [t \in Thread |-> None]
      /\ update' = [t \in Thread |-> None]
      /\ seen' = [t \in Thread |-> None]
      /\ copy' = [p \in Publisher |-> None]
  BY DEF Restart
<1>3. \A n \in Network : /\ Number[n] \in Object /\ Number[n] # None
                         /\ \A m \in Network : Number[m] = Number[n] => m = n
  BY NumberIsInjective, NoneIsApart
<1>4. /\ listed' \in [Network -> Object \cup {None}]
      /\ \A n \in Network : listed'[n] = IF disk[n] = None THEN None ELSE Number[n]
  BY <1>1, <1>3
<1>5. status' \in [Object -> SUBSET Bit]
  <2> SUFFICES ASSUME NEW o \in Object, \E n \in Network : listed'[n] = o
               PROVE  disk[CHOOSE n \in Network : Number[n] = o] \in SUBSET Bit
    BY <1>1 DEF Bit
  <2>1. PICK n \in Network : listed'[n] = o
    OBVIOUS
  <2>2. disk[n] # None /\ Number[n] = o
    BY <1>4, <2>1, NoneIsApart
  <2>3. (CHOOSE m \in Network : Number[m] = o) = n
    BY <1>3, <2>2
  <2> QED BY <2>2, <2>3 DEF ShapeInv, FieldShape
<1>6. work' \in [requests : 0 .. MaxWork, ends : 0 .. MaxEnds]
  BY <1>1, WorkShape DEF ShapeInv
<1>7. copy' \in [Publisher -> (SUBSET Bit) \cup {None}]
  BY <1>2
<1>a. astray' \subseteq Network
  BY <1>1
<1>b. queue' \in Seq(Network) /\ save' \in BOOLEAN /\ restored' \in BOOLEAN
  <2>1. <<>> \in Seq(Network)
    OBVIOUS
  <2>2. queue' = <<>> /\ save' = TRUE /\ restored' = FALSE
    BY <1>1
  <2> QED BY <2>1, <2>2
<1>c. /\ unpublished' \subseteq Network /\ published' \subseteq Network
      /\ disk' \in [Network -> (SUBSET Bit) \cup {None}]
  BY <1>1 DEF ShapeInv, FieldShape
<1>8. FieldShape'
  BY <1>4, <1>5, <1>6, <1>7, <1>a, <1>b, <1>c DEF FieldShape
<1>9. Apart'
  BY <1>3, <1>4 DEF Apart
<1>10. ThreadShape'
  BY <1>2 DEF ThreadShape, Phase
<1>11. \A t \in Thread : InStep(t)'
  BY <1>2, ThreadsDiffer DEF InStep, Agenda, Thread
<1>12. CopyInv'
  BY <1>2, ThreadsDiffer DEF CopyInv
<1> QED BY <1>2, <1>8, <1>9, <1>10, <1>11, <1>12 DEF ShapeInv

-----------------------------------------------------------------------------
(* Type correctness.                                                       *)

LEMMA InitShape == Init => ShapeInv
<1> SUFFICES ASSUME Init PROVE ShapeInv
  OBVIOUS
<1>1. MaxWork \in Nat /\ MaxEnds \in Nat
  BY NetworkQueueAssumption
<1>2. FieldShape
  <2>1. <<>> \in Seq(Network) /\ work \in [requests : 0 .. MaxWork, ends : 0 .. MaxEnds]
    BY <1>1 DEF Init
  <2>2. /\ listed \in [Network -> Object \cup {None}]
        /\ status \in [Object -> SUBSET Bit]
        /\ copy \in [Publisher -> (SUBSET Bit) \cup {None}]
        /\ disk \in [Network -> (SUBSET Bit) \cup {None}]
    BY DEF Init
  <2>3. queue = <<>> /\ save \in BOOLEAN /\ restored \in BOOLEAN
        /\ unpublished = {} /\ published = {} /\ astray = {}
    BY DEF Init
  <2> QED BY <2>1, <2>2, <2>3 DEF FieldShape
<1>3. ThreadShape /\ (\A t \in Thread : InStep(t))
  BY ThreadsDiffer DEF Init, ThreadShape, InStep, Agenda, Phase, Thread
<1>4. Apart /\ CopyInv
  BY ThreadsDiffer DEF Init, Apart, CopyInv
<1> QED BY <1>2, <1>3, <1>4 DEF ShapeInv

LEMMA RestShape == ShapeInv /\ UNCHANGED vars => ShapeInv'
<1> SUFFICES ASSUME ShapeInv, UNCHANGED vars PROVE ShapeInv'
  OBVIOUS
<1>1. FieldShape'
  BY DEF ShapeInv, vars, FieldShape
<1>2. ThreadShape' /\ (\A t \in Thread : InStep(t)')
  BY ThreadsRest DEF vars
<1>3. Apart' /\ CopyInv'
  BY ApartRest DEF ShapeInv, vars, CopyInv
<1> QED BY <1>1, <1>2, <1>3 DEF ShapeInv

LEMMA NextShape == ShapeInv /\ [Next]_vars => ShapeInv'
<1> SUFFICES ASSUME ShapeInv, [Next]_vars PROVE ShapeInv'
  OBVIOUS
<1>1. ASSUME Ask PROVE ShapeInv'
  BY <1>1, CreateShape, DeleteShape, ReprocessStartShape, PublishStartShape DEF Ask
<1>2. ASSUME Generate PROVE ShapeInv'
  BY <1>2, TakeFirstShape, FailShape, DoneShape, FinishShape DEF Generate
<1>3. ASSUME NEW p \in Publisher, Publish(p) PROVE ShapeInv'
  BY <1>3, PublishSubmitShape, PublishFileShape, PublishReadShape, PublishLoadShape,
     PublishFailShape, PublishSaveShape DEF Publish
<1>4. ASSUME NEW t \in Thread, Update(t) PROVE ShapeInv'
  BY <1>4, LoadShape, StoreShape DEF Update
<1> QED BY <1>1, <1>2, <1>3, <1>4, ReprocessEndShape, StopShape, RestartShape, RestShape DEF Next

LEMMA ShapeIsTyped == ShapeInv => TypeOK
BY DEF ShapeInv, FieldShape, ThreadShape, InStep, Apart, TypeOK

\* Everywhere and always the variables have the types TypeOK gives them; that a thread holds an
\* object exactly while it is at work, and that no object stands for two networks of the list,
\* is part of it: Fresh never hands out an object somebody still holds.
THEOREM QueueTypeCorrect == Spec => []TypeOK
<1>1. ShapeInv /\ [Next]_vars => ShapeInv'
  BY NextShape
<1> QED BY InitShape, <1>1, ShapeIsTyped, PTL DEF Spec

-----------------------------------------------------------------------------
(* An execution takes its own entry.                                       *)

\* A step that leaves the queue and the execution alone and takes no network from the list.
LEMMA OwnRest ==
  ASSUME ShapeInv, SavesItsOwn, queue' = queue, save' = save, restored' = restored,
         pc'[Generation] = pc[Generation], net'[Generation] = net[Generation],
         \A n \in Network : listed[n] # None => listed'[n] # None
  PROVE  SavesItsOwn'
<1>1. pc[Generation] = "work" => net[Generation] \in Network
  BY ThreadsDiffer DEF ShapeInv, ThreadShape, InStep
<1> QED BY <1>1 DEF SavesItsOwn

\* A step that adds a network to the queue.
LEMMA OwnAppend ==
  ASSUME ShapeInv, SavesItsOwn, NEW m \in Network, queue' = Append(queue, m),
         save' = save, restored' = restored,
         pc'[Generation] = pc[Generation], net'[Generation] = net[Generation],
         \A n \in Network : listed[n] # None => listed'[n] # None
  PROVE  SavesItsOwn'
<1>1. pc[Generation] = "work" => net[Generation] \in Network
  BY ThreadsDiffer DEF ShapeInv, ThreadShape, InStep
<1>2. queue' # <<>> /\ (queue # <<>> => Head(queue') = Head(queue))
  BY ContainsAppend DEF ShapeInv, FieldShape
<1> QED BY <1>1, <1>2 DEF SavesItsOwn

\* The deletion of the network that is processed tells m_bSave, for its entry is the first one.
LEMMA OwnDelete ==
  ASSUME ShapeInv, SavesItsOwn, NEW n \in Network, Delete(n)
  PROVE  SavesItsOwn'
<1> DEFINE k == CHOOSE i \in DOMAIN queue : queue[i] = n /\ \A j \in 1 .. i - 1 : queue[j] # n
           m == net[Generation]
<1>1. /\ pc' = pc /\ net' = net
      /\ listed' = [listed EXCEPT ![n] = None]
      /\ queue' = RemoveFirst(queue, n)
      /\ save' = IF Contains(queue, n) THEN k # 1 \/ pc[Generation] = "idle" ELSE save
      /\ restored' = (restored \/ (pc[Generation] # "idle" /\ ~save /\ save'))
  BY DEF Delete, SaveWithout
<1> SUFFICES ASSUME pc[Generation] = "work", save', ~restored'
             PROVE  listed'[m] # None /\ queue' # <<>> /\ Head(queue') = m
  BY <1>1 DEF SavesItsOwn
<1>2. save /\ ~restored
  BY <1>1
<1>3. listed[m] # None /\ queue # <<>> /\ Head(queue) = m
  BY <1>2 DEF SavesItsOwn
<1>4. m \in Network /\ queue \in Seq(Network) /\ listed \in [Network -> Object \cup {None}]
  BY ThreadsDiffer DEF ShapeInv, ThreadShape, FieldShape, InStep
<1>5. n # m
  <2> SUFFICES ASSUME n = m PROVE FALSE
    OBVIOUS
  <2>1. queue[1] = n /\ Len(queue) \in Nat \ {0}
    BY <1>3, <1>4, HeadTailProperties, EmptySeq
  <2>2. Contains(queue, n)
    BY <2>1 DEF Contains
  <2>3. k \in 1 .. Len(queue) /\ \A j \in 1 .. k - 1 : queue[j] # n
    <3>1. queue \in Seq(Network)
      BY <1>4
    <3> QED BY ONLY <3>1, <2>2, n \in Network, RemoveFirstEntry
  <2>4. k # 1
    BY <1>1, <2>2
  <2> HIDE DEF k
  <2>5. 1 \in 1 .. k - 1
    BY <2>1, <2>3, <2>4
  <2> QED BY <2>1, <2>3, <2>5
<1>6. queue' # <<>> /\ Head(queue') = m
  BY <1>1, <1>3, <1>4, <1>5, RemoveFirstKeeps
<1> QED BY <1>1, <1>3, <1>4, <1>5, <1>6

LEMMA OwnTakeFirst ==
  ASSUME ShapeInv, SavesItsOwn, TakeFirst
  PROVE  SavesItsOwn'
<1>1. Idle(Generation) /\ listed' = listed
  BY DEF TakeFirst
<1>2. CASE listed[Head(queue)] # None
  BY <1>1, <1>2, TakeFirstShape DEF Moves, SavesItsOwn
<1>3. CASE listed[Head(queue)] = None
  BY <1>1, <1>3, TakeFirstShape DEF Idle, SavesItsOwn
<1> QED BY <1>2, <1>3

LEMMA OwnStep ==
  ASSUME ShapeInv, SavesItsOwn, [Next]_vars
  PROVE  SavesItsOwn'
<1>1. ASSUME NEW n \in Network, Create(n) PROVE SavesItsOwn'
  <2>1. /\ queue' = Append(queue, n) /\ UNCHANGED <<save, restored, pc, net>>
        /\ listed' = [listed EXCEPT ![n] = IF listed[n] = None THEN Fresh ELSE listed[n]]
    BY <1>1 DEF Create
  <2>2. \A m \in Network : listed[m] # None => listed'[m] # None
    BY <2>1 DEF ShapeInv, FieldShape
  <2> QED BY <2>1, <2>2, OwnAppend
<1>2. ASSUME NEW n \in Network, ReprocessStart(n) PROVE SavesItsOwn'
  BY <1>2, ReprocessStartShape, OwnRest, ThreadsDiffer DEF ReprocessStart, Moves
<1>3. ASSUME ReprocessEnd PROVE SavesItsOwn'
  BY <1>3, ReprocessEndShape, OwnAppend, ThreadsDiffer DEF ReprocessEnd, Moves
<1>4. ASSUME Fail \/ Done \/ Finish PROVE SavesItsOwn'
  <2>1. pc'[Generation] # "work"
    BY <1>4, FailShape, DoneShape, FinishShape DEF Moves
  <2> QED BY <2>1 DEF SavesItsOwn
<1>5. ASSUME NEW p \in Publisher, NEW n \in Network, PublishStart(p, n) PROVE SavesItsOwn'
  BY <1>5, PublishStartShape, OwnRest, ThreadsDiffer DEF PublishStart, Moves
<1>6. ASSUME NEW p \in Publisher, Publish(p) PROVE SavesItsOwn'
  <2>1. queue' = queue /\ save' = save /\ restored' = restored
    BY <1>6 DEF Publish, PublishSubmit, PublishFile, PublishRead, PublishLoad, PublishFail,
                PublishSave
  <2>2. \E q, u, n, o : Moves(p, q, u, n, o)
    BY <1>6, PublishSubmitShape, PublishFileShape, PublishReadShape, PublishLoadShape,
       PublishFailShape, PublishSaveShape DEF Publish
  <2>3. pc'[Generation] = pc[Generation] /\ net'[Generation] = net[Generation]
    BY <2>2, ThreadsDiffer DEF Moves
  <2>4. \A n \in Network : listed[n] # None => listed'[n] # None
    <3>1. CASE PublishLoad(p)
      <4>1. Fresh # None /\ listed' = [listed EXCEPT ![net[p]] = Fresh]
        BY <3>1, FreshIsFree, NoneIsApart DEF PublishLoad, ShapeInv, FieldShape, ThreadShape
      <4> QED BY <4>1 DEF ShapeInv, FieldShape
    <3>2. CASE ~PublishLoad(p)
      BY <1>6, <3>2 DEF Publish, PublishSubmit, PublishFile, PublishRead, PublishFail, PublishSave
    <3> QED BY <3>1, <3>2
  <2> QED BY <2>1, <2>3, <2>4, OwnRest
<1>7. ASSUME NEW t \in Thread, Update(t) PROVE SavesItsOwn'
  <2>1. UNCHANGED <<listed, queue, save, restored, pc, net>>
    BY <1>7 DEF Update, Load, Store
  <2> QED BY <2>1, OwnRest
<1>8. ASSUME Stop \/ UNCHANGED vars PROVE SavesItsOwn'
  <2>1. UNCHANGED <<listed, queue, save, restored, pc, net>>
    BY <1>8 DEF Stop, vars
  <2> QED BY <2>1, OwnRest
<1>9. ASSUME Restart PROVE SavesItsOwn'
  BY <1>9, RestartShape, ThreadsDiffer DEF SavesItsOwn
<1> QED BY <1>1, <1>2, <1>3, <1>4, <1>5, <1>6, <1>7, <1>8, <1>9, OwnDelete, OwnTakeFirst
        DEF Next, Ask, Generate

\* The entry execute() removes at its end is that of the network it has processed, whatever
\* requests come meanwhile, as long as m_bSave has not been set again by a second deletion.
THEOREM OwnEntrySaved == Spec => []SavesItsOwn
<1>1. Init => SavesItsOwn
  BY ThreadsDiffer DEF Init, SavesItsOwn
<1>2. (ShapeInv /\ SavesItsOwn) /\ [Next]_vars => (ShapeInv /\ SavesItsOwn)'
  BY NextShape, OwnStep
<1> QED BY InitShape, <1>1, <1>2, PTL DEF Spec

-----------------------------------------------------------------------------
(* What the status says.                                                   *)

\* A thread that holds an object of the list works on the network it stands for.
Owned == \A t \in Thread, n \in Network : listed[n] # None /\ obj[t] = listed[n] => net[t] = n

\* The status of n, which the code has under control, says b.
Says(n, b) == listed[n] # None /\ n \notin astray /\ b \in status[listed[n]]

\* Publisher p has not removed the bit of its object yet.
Publishing(p) == pc[p] \in {"mark", "publish"} \/ (pc[p] = "flags" /\ update[p] # None)

AssemblingTold ==
  \A n \in Network : Says(n, "assembling") =>
    \/ Contains(queue, n)
    \/ obj[Generation] = listed[n] /\ update[Generation] # None
    \/ obj[Reprocess] = listed[n]

PublishingTold ==
  \A n \in Network : Says(n, "publishing") =>
    \E p \in Publisher : obj[p] = listed[n] /\ Publishing(p)

\* The execution is about to take the entry at the head away and to change the status of the
\* object it holds; if the list has another object by now, the network is told of elsewhere.
TailTold ==
  LET n == net[Generation] IN
  /\ pc[Generation] = "work" /\ save /\ ~restored
  /\ listed[n] # obj[Generation]
  /\ Says(n, "assembling")
  => Contains(Tail(queue), n) \/ obj[Reprocess] = listed[n]

TellInv == Owned /\ AssemblingTold /\ PublishingTold /\ TailTold

\* No status says b of a network of which it did not.
NoNews(b) == \A n \in Network : Says(n, b)' => Says(n, b) /\ listed'[n] = listed[n]

LEMMA OwnedMoves ==
  ASSUME ShapeInv, Owned, listed' = listed, NEW t \in Thread, NEW p, NEW u, NEW n, NEW o,
         Moves(t, p, u, n, o),
         o = None \/ (o = obj[t] /\ n = net[t]) \/ (o = listed[n] /\ n \in Network)
  PROVE  Owned'
<1> SUFFICES ASSUME NEW v \in Thread, NEW m \in Network, listed[m] # None, obj'[v] = listed[m]
             PROVE  net'[v] = m
  BY DEF Owned
<1>1. CASE v = t
  BY <1>1 DEF Moves, Owned, ShapeInv, Apart
<1>2. CASE v # t
  BY <1>2 DEF Moves, Owned
<1> QED BY <1>1, <1>2

LEMMA OwnedRest ==
  ASSUME Owned, UNCHANGED <<listed, net, obj>>
  PROVE  Owned'
BY DEF Owned

LEMMA AssemblingRest ==
  ASSUME ShapeInv, AssemblingTold, NoNews("assembling"),
         \A n \in Network : Contains(queue, n) => Contains(queue', n),
         obj'[Reprocess] = obj[Reprocess] \/ obj[Reprocess] = None,
         \/ obj'[Generation] = obj[Generation] /\ update'[Generation] = update[Generation]
         \/ update[Generation] = None
  PROVE  AssemblingTold'
<1> SUFFICES ASSUME NEW n \in Network, Says(n, "assembling")'
             PROVE  \/ Contains(queue', n)
                    \/ obj'[Generation] = listed'[n] /\ update'[Generation] # None
                    \/ obj'[Reprocess] = listed'[n]
  BY DEF AssemblingTold
<1>1. Says(n, "assembling") /\ listed'[n] = listed[n] /\ listed[n] # None
  BY DEF NoNews, Says
<1> QED BY <1>1 DEF AssemblingTold

LEMMA PublishingRest ==
  ASSUME PublishingTold, NoNews("publishing"),
         \A p \in Publisher : Publishing(p) =>
           \/ obj'[p] = obj[p] /\ Publishing(p)'
           \/ \A n \in Network : Says(n, "publishing")' => obj[p] # listed[n]
  PROVE  PublishingTold'
<1> SUFFICES ASSUME NEW n \in Network, Says(n, "publishing")'
             PROVE  \E p \in Publisher : obj'[p] = listed'[n] /\ Publishing(p)'
  BY DEF PublishingTold
<1>1. Says(n, "publishing") /\ listed'[n] = listed[n]
  BY DEF NoNews
<1>2. PICK p \in Publisher : obj[p] = listed[n] /\ Publishing(p)
  BY <1>1 DEF PublishingTold
<1> QED BY <1>1, <1>2

LEMMA TailRest ==
  ASSUME ShapeInv, TailTold, NoNews("assembling"),
         pc'[Generation] = pc[Generation], net'[Generation] = net[Generation],
         obj'[Generation] = obj[Generation],
         pc[Generation] = "work" /\ save' /\ ~restored' =>
           /\ save /\ ~restored
           /\ Contains(Tail(queue), net[Generation]) => Contains(Tail(queue'), net[Generation]),
         obj'[Reprocess] = obj[Reprocess] \/ obj[Reprocess] = None
  PROVE  TailTold'
<1> DEFINE n == net[Generation]
<1> SUFFICES ASSUME pc[Generation] = "work", save', ~restored', listed'[n] # obj[Generation],
                    Says(n, "assembling")'
             PROVE  Contains(Tail(queue'), n) \/ obj'[Reprocess] = listed'[n]
  BY DEF TailTold, Says
<1>1. n \in Network
  BY ThreadsDiffer DEF ShapeInv, ThreadShape, InStep
<1>2. Says(n, "assembling") /\ listed'[n] = listed[n] /\ listed[n] # None
  BY <1>1 DEF NoNews, Says
<1> QED BY <1>2 DEF TailTold

\* Only the execution at work loses an entry, so outside of it nothing is asked of the tail.
LEMMA TailIdle == pc'[Generation] # "work" => TailTold'
BY DEF TailTold

\* The thread of reprocessNetwork(), or a publisher, moves; the queue stays.
LEMMA TellOther ==
  ASSUME ShapeInv, AssemblingTold, TailTold, NoNews("assembling"),
         UNCHANGED <<queue, save, restored>>,
         pc'[Generation] = pc[Generation], net'[Generation] = net[Generation],
         obj'[Generation] = obj[Generation], update'[Generation] = update[Generation],
         obj'[Reprocess] = obj[Reprocess] \/ obj[Reprocess] = None
  PROVE  AssemblingTold' /\ TailTold'
BY AssemblingRest, TailRest

LEMMA SameNews ==
  ASSUME listed' = listed, astray' = astray, status' = status
  PROVE  NoNews("assembling") /\ NoNews("publishing")
BY DEF NoNews, Says

\* The status of one object becomes empty.
LEMMA ClearNews ==
  ASSUME ShapeInv, listed' = listed, astray' = astray, NEW o \in Object,
         status' = [status EXCEPT ![o] = {}]
  PROVE  /\ NoNews("assembling") /\ NoNews("publishing")
         /\ \A n \in Network, b \in Bit : Says(n, b)' => listed[n] # o
<1>1. \A n \in Network : listed[n] # None => listed[n] \in Object
  BY DEF ShapeInv, FieldShape
<1>2. status' [o] = {} /\ \A x \in Object \ {o} : status'[x] = status[x]
  BY DEF ShapeInv, FieldShape
<1> QED BY <1>1, <1>2 DEF NoNews, Says

\* A publisher moves, and the list stays.
LEMMA TellPublisher ==
  ASSUME ShapeInv, TellInv, NoNews("assembling"), NoNews("publishing"),
         UNCHANGED <<queue, save, restored>>,
         NEW p \in Publisher, NEW q, NEW u, NEW n, NEW o, Moves(p, q, u, n, o), Owned',
         Publishing(p) =>
           \/ o = obj[p] /\ Publishing(p)'
           \/ \A m \in Network : Says(m, "publishing")' => obj[p] # listed[m]
  PROVE  TellInv'
<1>1. AssemblingTold' /\ TailTold'
  BY TellOther, ThreadsDiffer DEF Moves, TellInv
<1>2. \A v \in Publisher \ {p} : Publishing(v) => obj'[v] = obj[v] /\ Publishing(v)'
  BY ThreadsDiffer DEF Moves, Publishing
<1>3. PublishingTold'
  BY <1>2, PublishingRest DEF Moves, TellInv
<1> QED BY <1>1, <1>3 DEF TellInv

-----------------------------------------------------------------------------
(* Requests and executions keep the status true.                           *)

LEMMA TellCreate ==
  ASSUME ShapeInv, TellInv, SavesItsOwn, NEW n \in Network, Create(n)
  PROVE  TellInv'
<1> DEFINE o == IF listed[n] = None THEN Fresh ELSE listed[n]
<1>1. /\ UNCHANGED <<save, pc, net, obj, update, seen, copy, unpublished, published,
                     restored, astray>>
      /\ queue' = Append(queue, n)
      /\ listed' = [listed EXCEPT ![n] = o]
      /\ status' = IF listed[n] = None THEN [status EXCEPT ![o] = {"assembling"}] ELSE status
  BY DEF Create
<1>2. /\ Fresh \in Object /\ \A m \in Network : listed[m] # Fresh
      /\ \A t \in Thread : obj[t] # Fresh
  BY FreshIsFree DEF ShapeInv, FieldShape, ThreadShape
<1>3. /\ \A m \in Network : listed[m] # None => listed'[m] = listed[m]
      /\ \A m \in Network \ {n} : listed'[m] = listed[m]
      /\ listed'[n] = o
      /\ \A x \in Object \ {Fresh} : status'[x] = status[x]
      /\ listed[n] = None => status'[Fresh] = {"assembling"}
      /\ \A m \in Network : listed[m] # None => listed[m] \in Object
  BY <1>1, <1>2 DEF ShapeInv, FieldShape
<1>4. \A m \in Network : listed'[m] = listed[m] \/ (m = n /\ listed[n] = None /\ listed'[n] = Fresh)
  BY <1>3
<1>5. \A m \in Network, b \in Bit :
        Says(m, b)' => \/ Says(m, b) /\ listed'[m] = listed[m]
                       \/ m = n /\ b = "assembling"
  BY <1>1, <1>2, <1>3, <1>4 DEF Says
<1>6. Owned'
  BY <1>1, <1>2, <1>4 DEF TellInv, Owned
<1>7. \A m \in Network : Contains(queue', m) <=> Contains(queue, m) \/ m = n
  BY <1>1, ContainsAppend DEF ShapeInv, FieldShape
<1>8. AssemblingTold'
  <2>1. "assembling" \in Bit
    BY DEF Bit
  <2> SUFFICES ASSUME NEW m \in Network, m # n, Says(m, "assembling")'
               PROVE  \/ Contains(queue', m)
                      \/ obj'[Generation] = listed'[m] /\ update'[Generation] # None
                      \/ obj'[Reprocess] = listed'[m]
    BY <1>7 DEF AssemblingTold
  <2>2. Says(m, "assembling") /\ listed'[m] = listed[m]
    BY <1>5, <2>1
  <2> QED BY <1>1, <1>7, <2>2 DEF TellInv, AssemblingTold
<1>9. PublishingTold'
  <2>1. NoNews("publishing")
    BY <1>5 DEF NoNews, Bit
  <2>2. \A p \in Publisher : Publishing(p) => obj'[p] = obj[p] /\ Publishing(p)'
    BY <1>1 DEF Publishing
  <2> QED BY <2>1, <2>2, PublishingRest DEF TellInv
<1>10. TailTold'
  <2> DEFINE m == net[Generation]
  <2> SUFFICES ASSUME pc[Generation] = "work", save, ~restored, listed'[m] # obj[Generation],
                      Says(m, "assembling")'
               PROVE  Contains(Tail(queue'), m) \/ obj'[Reprocess] = listed'[m]
    BY <1>1 DEF TailTold, Says
  <2>1. m \in Network /\ listed[m] # None /\ queue # <<>>
    BY ThreadsDiffer DEF SavesItsOwn, ShapeInv, ThreadShape, InStep
  <2>2. Says(m, "assembling") /\ listed'[m] = listed[m]
    BY <1>1, <1>2, <1>3, <2>1 DEF Says
  <2>3. Contains(Tail(queue), m) \/ obj[Reprocess] = listed[m]
    BY <2>2 DEF TellInv, TailTold
  <2>4. Contains(Tail(queue), m) => Contains(Tail(queue'), m)
    <3>1. queue \in Seq(Network)
      BY DEF ShapeInv, FieldShape
    <3> QED BY <1>1, <2>1, <3>1, TailAppend
  <2> QED BY <1>1, <2>2, <2>3, <2>4
<1> QED BY <1>6, <1>8, <1>9, <1>10 DEF TellInv

LEMMA TellDelete ==
  ASSUME ShapeInv, TellInv, SavesItsOwn, SavesItsOwn', NEW n \in Network, Delete(n)
  PROVE  TellInv'
<1>1. /\ UNCHANGED <<status, pc, net, obj, update, seen, copy>>
      /\ queue' = RemoveFirst(queue, n)
      /\ listed' = [listed EXCEPT ![n] = None]
      /\ astray' = astray \ {n}
      /\ restored' = (restored \/ (pc[Generation] # "idle" /\ ~save /\ save'))
  BY DEF Delete
<1>2. listed'[n] = None /\ \A m \in Network \ {n} : listed'[m] = listed[m]
  BY <1>1 DEF ShapeInv, FieldShape
<1>3. \A m \in Network, b \in Bit : Says(m, b)' => m # n /\ Says(m, b) /\ listed'[m] = listed[m]
  BY <1>1, <1>2 DEF Says
<1>4. NoNews("publishing") /\ "assembling" \in Bit
  BY <1>3 DEF NoNews, Bit
<1>5. Owned'
  BY <1>1, <1>2 DEF TellInv, Owned
<1>6. \A m \in Network \ {n} : Contains(queue, m) => Contains(queue', m)
  BY <1>1, RemoveFirstKeeps DEF ShapeInv, FieldShape
<1>7. AssemblingTold'
  <2> SUFFICES ASSUME NEW m \in Network, Says(m, "assembling")'
               PROVE  \/ Contains(queue', m)
                      \/ obj'[Generation] = listed'[m] /\ update'[Generation] # None
                      \/ obj'[Reprocess] = listed'[m]
    BY DEF AssemblingTold
  <2>1. m # n /\ Says(m, "assembling") /\ listed'[m] = listed[m]
    BY <1>3, <1>4
  <2> QED BY <1>1, <1>6, <2>1 DEF TellInv, AssemblingTold
<1>8. PublishingTold'
  <2>1. \A p \in Publisher : Publishing(p) => obj'[p] = obj[p] /\ Publishing(p)'
    BY <1>1 DEF Publishing
  <2> QED BY <1>4, <2>1, PublishingRest DEF TellInv
<1>9. TailTold'
  <2> DEFINE m == net[Generation]
  <2> SUFFICES ASSUME pc[Generation] = "work", save', ~restored', listed'[m] # obj[Generation],
                      Says(m, "assembling")'
               PROVE  Contains(Tail(queue'), m) \/ obj'[Reprocess] = listed'[m]
    BY <1>1 DEF TailTold, Says
  <2>1. m \in Network /\ save /\ ~restored
    BY <1>1, ThreadsDiffer DEF ShapeInv, ThreadShape, InStep
  <2>2. m # n /\ queue # <<>> /\ Head(queue) = m
    BY <1>1, <1>2, <2>1 DEF SavesItsOwn
  <2>3. Says(m, "assembling") /\ listed'[m] = listed[m]
    BY <1>1, <1>3, <1>4, <2>1
  <2>4. Contains(Tail(queue), m) \/ obj[Reprocess] = listed[m]
    BY <2>1, <2>3 DEF TellInv, TailTold
  <2>5. Contains(Tail(queue), m) => Contains(Tail(queue'), m)
    <3>1. queue \in Seq(Network) /\ m \in Network \ {n}
      BY <2>1, <2>2 DEF ShapeInv, FieldShape
    <3> QED BY <1>1, <2>2, <3>1, RemoveFirstKeeps
  <2> QED BY <1>1, <2>3, <2>4, <2>5
<1> QED BY <1>5, <1>7, <1>8, <1>9 DEF TellInv

LEMMA TellReprocessStart ==
  ASSUME ShapeInv, TellInv, NEW n \in Network, ReprocessStart(n)
  PROVE  TellInv'
<1>1. /\ UNCHANGED <<listed, status, queue, save, restored, astray>>
      /\ Idle(Reprocess) /\ obj[Reprocess] = None
  BY ThreadsDiffer DEF ReprocessStart, QueueFree, Idle, ShapeInv, InStep
<1>2. Moves(Reprocess, "mark", AddBit("assembling"), n, listed[n])
  BY ReprocessStartShape
<1>3. NoNews("assembling") /\ NoNews("publishing")
  BY <1>1, SameNews
<1>4. Owned'
  BY <1>1, <1>2, OwnedMoves, ThreadsDiffer DEF TellInv
<1>5. AssemblingTold' /\ TailTold'
  BY <1>1, <1>2, <1>3, TellOther, ThreadsDiffer DEF Moves, TellInv
<1>6. PublishingTold'
  <2>1. \A p \in Publisher : Publishing(p) => obj'[p] = obj[p] /\ Publishing(p)'
    BY <1>2, ThreadsDiffer DEF Moves, Publishing
  <2> QED BY <1>3, <2>1, PublishingRest DEF TellInv
<1> QED BY <1>4, <1>5, <1>6 DEF TellInv

\* The request leaves when the network is in the queue again.
LEMMA TellReprocessEnd ==
  ASSUME ShapeInv, TellInv, SavesItsOwn, ReprocessEnd
  PROVE  TellInv'
<1> DEFINE n == net[Reprocess]
<1>1. /\ UNCHANGED <<listed, status, save, restored, astray>>
      /\ queue' = Append(queue, n)
  BY DEF ReprocessEnd
<1>2. Moves(Reprocess, "idle", None, None, None) /\ n \in Network
  BY ReprocessEndShape
<1>3. NoNews("assembling") /\ NoNews("publishing")
  BY <1>1, SameNews
<1>4. Owned'
  BY <1>1, <1>2, OwnedMoves, ThreadsDiffer DEF TellInv
<1>5. \A m \in Network : Contains(queue', m) <=> Contains(queue, m) \/ m = n
  BY <1>1, <1>2, ContainsAppend DEF ShapeInv, FieldShape
<1>6. \A m \in Network : listed[m] # None /\ obj[Reprocess] = listed[m] => m = n
  BY ThreadsDiffer DEF TellInv, Owned
<1>7. /\ pc'[Generation] = pc[Generation] /\ net'[Generation] = net[Generation]
      /\ obj'[Generation] = obj[Generation] /\ update'[Generation] = update[Generation]
  BY <1>2, ThreadsDiffer DEF Moves
<1>8. AssemblingTold'
  <2> SUFFICES ASSUME NEW m \in Network, Says(m, "assembling")'
               PROVE  \/ Contains(queue', m)
                      \/ obj'[Generation] = listed'[m] /\ update'[Generation] # None
    BY DEF AssemblingTold
  <2>1. Says(m, "assembling") /\ listed'[m] = listed[m] /\ listed[m] # None
    BY <1>3 DEF NoNews, Says
  <2>2. \/ Contains(queue, m)
        \/ obj[Generation] = listed[m] /\ update[Generation] # None
        \/ m = n
    BY <1>6, <2>1 DEF TellInv, AssemblingTold
  <2> QED BY <1>5, <1>7, <2>1, <2>2
<1>9. PublishingTold'
  <2>1. \A p \in Publisher : Publishing(p) => obj'[p] = obj[p] /\ Publishing(p)'
    BY <1>2, ThreadsDiffer DEF Moves, Publishing
  <2> QED BY <1>3, <2>1, PublishingRest DEF TellInv
<1>10. TailTold'
  <2> DEFINE m == net[Generation]
  <2> SUFFICES ASSUME pc[Generation] = "work", save, ~restored, listed[m] # obj[Generation],
                      Says(m, "assembling")
               PROVE  Contains(Tail(queue'), m)
    BY <1>1, <1>7 DEF TailTold, Says
  <2>1. m \in Network /\ listed[m] # None /\ queue # <<>>
    BY ThreadsDiffer DEF SavesItsOwn, ShapeInv, ThreadShape, InStep
  <2>2. Contains(Tail(queue), m) \/ m = n
    BY <1>6, <2>1 DEF TellInv, TailTold
  <2>3. queue \in Seq(Network)
    BY DEF ShapeInv, FieldShape
  <2> QED BY <1>1, <1>2, <2>1, <2>2, <2>3, TailAppend
<1> QED BY <1>4, <1>8, <1>9, <1>10 DEF TellInv

\* The thread of execute() moves, without a change of the status left behind.
LEMMA TellGeneration ==
  ASSUME ShapeInv, TellInv, NoNews("assembling"), NoNews("publishing"), queue' = queue,
         NEW q, NEW n, NEW o, Moves(Generation, q, None, n, o), update[Generation] = None,
         Owned', TailTold'
  PROVE  TellInv'
<1>1. obj'[Reprocess] = obj[Reprocess]
  BY ThreadsDiffer DEF Moves
<1>2. AssemblingTold'
  BY <1>1, AssemblingRest DEF TellInv
<1>3. \A p \in Publisher : Publishing(p) => obj'[p] = obj[p] /\ Publishing(p)'
  BY ThreadsDiffer DEF Moves, Publishing
<1>4. PublishingTold'
  BY <1>3, PublishingRest DEF TellInv
<1> QED BY <1>2, <1>4 DEF TellInv

LEMMA TellTakeFirst ==
  ASSUME ShapeInv, TellInv, TakeFirst
  PROVE  TellInv'
<1> DEFINE n == Head(queue)
<1>1. UNCHANGED <<listed, status, astray>> /\ pc[Generation] = "idle"
  BY DEF TakeFirst, Idle
<1>2. update[Generation] = None
  BY <1>1, ThreadsDiffer DEF ShapeInv, InStep, Agenda
<1>3. NoNews("assembling") /\ NoNews("publishing")
  BY <1>1, SameNews
<1>4. n \in Network /\ queue # <<>> /\ queue \in Seq(Network)
  BY TakeFirstShape DEF ShapeInv, FieldShape
<1>5. CASE listed[n] # None
  <2>1. queue' = queue /\ Moves(Generation, "work", None, n, listed[n])
    BY <1>5, TakeFirstShape
  <2>2. Owned'
    BY <1>1, <1>4, <2>1, OwnedMoves, ThreadsDiffer DEF TellInv
  <2>3. net'[Generation] = n /\ obj'[Generation] = listed[n]
    BY <2>1 DEF Moves
  <2>4. TailTold'
    BY <1>1, <2>3 DEF TailTold
  <2> QED BY <1>2, <1>3, <2>1, <2>2, <2>4, TellGeneration
<1>6. CASE listed[n] = None
  <2>1. queue' = Tail(queue) /\ UNCHANGED <<pc, update, net, obj>>
    BY <1>6, TakeFirstShape
  <2>2. Owned' /\ TailTold'
    BY <1>1, <2>1, OwnedRest, TailIdle DEF TellInv
  <2>3. \A m \in Network : Contains(queue, m) => n = m \/ Contains(queue', m)
    BY <1>4, <2>1, ContainsTail
  <2>4. AssemblingTold'
    BY <1>1, <1>6, <2>1, <2>3 DEF TellInv, AssemblingTold, Says
  <2>5. \A p \in Publisher : Publishing(p) => obj'[p] = obj[p] /\ Publishing(p)'
    BY <2>1 DEF Publishing
  <2>6. PublishingTold'
    BY <1>3, <2>5, PublishingRest DEF TellInv
  <2> QED BY <2>2, <2>4, <2>6 DEF TellInv
<1> QED BY <1>5, <1>6

LEMMA TellFail ==
  ASSUME ShapeInv, TellInv, Fail
  PROVE  TellInv'
<1>1. /\ UNCHANGED <<listed, queue, astray>> /\ pc[Generation] = "work"
      /\ status' = [status EXCEPT ![obj[Generation]] = {}]
  BY DEF Fail
<1>2. Moves(Generation, "idle", None, None, None) /\ obj[Generation] \in Object
  BY FailShape
<1>3. NoNews("assembling") /\ NoNews("publishing")
  BY <1>1, <1>2, ClearNews
<1>4. Owned'
  BY <1>1, <1>2, OwnedMoves, ThreadsDiffer DEF TellInv
<1>5. TailTold' /\ update[Generation] = None
  BY <1>1, <1>2, TailIdle, ThreadsDiffer DEF Moves, ShapeInv, InStep, Agenda
<1> QED BY <1>1, <1>2, <1>3, <1>4, <1>5, TellGeneration

\* The entry that goes is that of the network in work, and its status is about to be changed.
LEMMA TellDone ==
  ASSUME ShapeInv, TellInv, SavesItsOwn, Done
  PROVE  TellInv'
<1>1. UNCHANGED <<listed, status, save, restored>> /\ pc[Generation] = "work"
  BY DEF Done
<1>2. update[Generation] = None
  BY <1>1, ThreadsDiffer DEF ShapeInv, InStep, Agenda
<1>3. CASE ~save
  <2>1. UNCHANGED <<queue, astray>>
    BY <1>3 DEF Done
  <2>2. Moves(Generation, "idle", None, None, None)
    BY <1>3, DoneShape
  <2>3. NoNews("assembling") /\ NoNews("publishing")
    BY <1>1, <2>1, SameNews
  <2>4. Owned'
    BY <1>1, <2>2, OwnedMoves, ThreadsDiffer DEF TellInv
  <2>5. TailTold'
    BY <2>2, TailIdle DEF Moves
  <2> QED BY <1>2, <2>1, <2>2, <2>3, <2>4, <2>5, TellGeneration
<1>4. CASE save
  <2>1. /\ queue' = IF queue = <<>> THEN queue ELSE Tail(queue)
        /\ astray' = IF restored /\ queue # <<>> THEN astray \cup {Head(queue)} ELSE astray
    BY <1>4 DEF Done
  <2>2. Moves(Generation, "finish", RemoveBit("assembling"), net[Generation], obj[Generation])
    BY <1>4, DoneShape
  <2>3. Owned'
    BY <1>1, <2>2, OwnedMoves, ThreadsDiffer DEF TellInv
  <2>4. TailTold'
    BY <2>2, TailIdle DEF Moves
  <2>5. NoNews("publishing")
    BY <1>1, <2>1 DEF NoNews, Says
  <2>6. \A p \in Publisher : Publishing(p) => obj'[p] = obj[p] /\ Publishing(p)'
    BY <2>2, ThreadsDiffer DEF Moves, Publishing
  <2>7. PublishingTold'
    BY <2>5, <2>6, PublishingRest DEF TellInv
  <2>8. /\ obj'[Generation] = obj[Generation] /\ update'[Generation] # None
        /\ obj'[Reprocess] = obj[Reprocess]
    BY <2>2, ThreadsDiffer, NoneIsApart DEF Moves
  <2>9. AssemblingTold'
    <3> SUFFICES ASSUME NEW m \in Network, Says(m, "assembling")'
                 PROVE  \/ Contains(queue', m)
                        \/ obj[Generation] = listed[m]
                        \/ obj[Reprocess] = listed[m]
      BY <1>1, <2>8 DEF AssemblingTold
    <3>1. Says(m, "assembling")
      BY <1>1, <2>1 DEF Says
    <3>2. Contains(queue, m) \/ obj[Reprocess] = listed[m]
      BY <1>2, <3>1 DEF TellInv, AssemblingTold
    <3>3. CASE queue = <<>>
      BY <2>1, <3>2, <3>3
    <3>4. CASE queue # <<>>
      <4>1. Contains(queue, m) => Head(queue) = m \/ Contains(queue', m)
        BY <2>1, <3>4, ContainsTail DEF ShapeInv, FieldShape
      <4>2. CASE Head(queue) = m
        <5>1. ~restored
          BY <2>1, <3>4, <4>2 DEF Says
        <5>2. m = net[Generation]
          BY <1>1, <1>4, <4>2, <5>1 DEF SavesItsOwn
        <5> QED BY <1>1, <1>4, <2>1, <3>1, <3>4, <5>1, <5>2 DEF TellInv, TailTold
      <4> QED BY <3>2, <4>1, <4>2
    <3> QED BY <3>3, <3>4
  <2> QED BY <2>3, <2>4, <2>7, <2>9 DEF TellInv
<1> QED BY <1>3, <1>4

LEMMA TellFinish ==
  ASSUME ShapeInv, TellInv, Finish
  PROVE  TellInv'
<1>1. UNCHANGED <<listed, status, queue, astray>> /\ update[Generation] = None
  BY DEF Finish, HasUpdated
<1>2. Moves(Generation, "idle", None, None, None)
  BY FinishShape
<1>3. NoNews("assembling") /\ NoNews("publishing")
  BY <1>1, SameNews
<1>4. Owned' /\ TailTold'
  BY <1>1, <1>2, OwnedMoves, TailIdle, ThreadsDiffer DEF Moves, TellInv
<1> QED BY <1>1, <1>2, <1>3, <1>4, TellGeneration

-----------------------------------------------------------------------------
(* So does the publishing.                                                 *)

LEMMA TellPublishStart ==
  ASSUME ShapeInv, TellInv, NEW p \in Publisher, NEW n \in Network, PublishStart(p, n)
  PROVE  TellInv'
<1>1. UNCHANGED <<listed, status, queue, save, restored, astray>> /\ pc[p] = "idle"
  BY DEF PublishStart, Idle
<1>2. Moves(p, "mark", AddBit("publishing"), n, listed[n])
  BY PublishStartShape
<1>3. NoNews("assembling") /\ NoNews("publishing")
  BY <1>1, SameNews
<1>4. Owned' /\ ~Publishing(p)
  BY <1>1, <1>2, OwnedMoves, ThreadsDiffer DEF TellInv, Publishing
<1> QED BY <1>1, <1>2, <1>3, <1>4, TellPublisher

\* A publisher goes on, the list and the status stay, and it does not forget its bit.
LEMMA TellPublishRest ==
  ASSUME ShapeInv, TellInv, NEW p \in Publisher, NEW q, NEW u, NEW n, NEW o,
         Moves(p, q, u, n, o),
         UNCHANGED <<listed, status, queue, save, restored, astray>>,
         (o = obj[p] /\ n = net[p]) \/ o = None,
         Publishing(p) => o = obj[p] /\ Publishing(p)'
  PROVE  TellInv'
<1>1. NoNews("assembling") /\ NoNews("publishing")
  BY SameNews
<1>2. Owned'
  BY OwnedMoves, ThreadsDiffer DEF TellInv
<1> QED BY <1>1, <1>2, TellPublisher

LEMMA TellPublishGoOn ==
  ASSUME ShapeInv, TellInv, NEW p \in Publisher,
         PublishSubmit(p) \/ PublishFile(p) \/ PublishRead(p) \/ PublishSave(p)
  PROVE  TellInv'
<1>1. UNCHANGED <<listed, status, queue, save, restored, astray>>
  BY DEF PublishSubmit, PublishFile, PublishRead, PublishSave
<1>2. CASE PublishSubmit(p)
  <2>1. Moves(p, "publish", None, net[p], obj[p])
    BY <1>2, PublishSubmitShape
  <2>2. Publishing(p)'
    BY <2>1 DEF Moves, Publishing
  <2> QED BY <1>1, <2>1, <2>2, TellPublishRest
<1>3. CASE PublishFile(p)
  <2>1. Moves(p, "flags", RemoveBit("publishing"), net[p], obj[p])
    BY <1>3, PublishFileShape
  <2>2. Publishing(p)'
    BY <2>1, NoneIsApart DEF Moves, Publishing
  <2> QED BY <1>1, <2>1, <2>2, TellPublishRest
<1>4. CASE PublishRead(p)
  <2>1. Moves(p, "load", None, net[p], obj[p])
    BY <1>4, PublishReadShape
  <2>2. ~Publishing(p)
    BY <1>4 DEF PublishRead, HasUpdated, Publishing
  <2> QED BY <1>1, <2>1, <2>2, TellPublishRest
<1>5. CASE PublishSave(p)
  <2>1. Moves(p, "idle", None, None, None)
    BY <1>5, PublishSaveShape
  <2>2. ~Publishing(p)
    BY <1>5 DEF PublishSave, Publishing
  <2> QED BY <1>1, <2>1, <2>2, TellPublishRest
<1> QED BY <1>2, <1>3, <1>4, <1>5

\* The new object has an empty status, or its network goes astray.
LEMMA TellPublishLoad ==
  ASSUME ShapeInv, TellInv, NEW p \in Publisher, PublishLoad(p)
  PROVE  TellInv'
<1> DEFINE n == net[p]
<1>1. /\ UNCHANGED <<queue, save, restored>> /\ pc[p] = "load"
      /\ listed' = [listed EXCEPT ![n] = Fresh]
      /\ status' = [status EXCEPT ![Fresh] = copy[p]]
      /\ astray' = IF copy[p] = {} THEN astray ELSE astray \cup {n}
  BY DEF PublishLoad
<1>2. Moves(p, "save", None, n, obj[p]) /\ n \in Network
  BY <1>1, PublishLoadShape, PublisherAtWork
<1>3. /\ Fresh \in Object /\ \A m \in Network : listed[m] # Fresh
      /\ \A t \in Thread : obj[t] # Fresh
  BY FreshIsFree DEF ShapeInv, FieldShape, ThreadShape
<1>4. /\ listed'[n] = Fresh /\ \A m \in Network \ {n} : listed'[m] = listed[m]
      /\ status'[Fresh] = copy[p] /\ \A x \in Object \ {Fresh} : status'[x] = status[x]
      /\ \A m \in Network : listed[m] # None => listed[m] \in Object
  BY <1>1, <1>2, <1>3 DEF ShapeInv, FieldShape
<1>5. \A m \in Network, b \in Bit : Says(m, b)' => m # n
  BY <1>1, <1>4 DEF Says
<1>6. \A m \in Network, b \in Bit : Says(m, b)' => Says(m, b) /\ listed'[m] = listed[m]
  BY <1>1, <1>3, <1>4, <1>5 DEF Says
<1>7. NoNews("assembling") /\ NoNews("publishing")
  BY <1>6 DEF NoNews, Bit
<1>8. Owned'
  <2>1. \A t \in Thread : net'[t] = net[t] /\ obj'[t] = obj[t]
    BY <1>2 DEF Moves
  <2>2. \A m \in Network : listed'[m] = listed[m] \/ listed'[m] = Fresh
    BY <1>4
  <2> QED BY <1>3, <2>1, <2>2 DEF TellInv, Owned
<1>9. ~Publishing(p)
  BY <1>1 DEF Publishing
<1> QED BY <1>1, <1>2, <1>7, <1>8, <1>9, TellPublisher

LEMMA TellPublishFail ==
  ASSUME ShapeInv, TellInv, NEW p \in Publisher, PublishFail(p)
  PROVE  TellInv'
<1>1. /\ UNCHANGED <<listed, queue, save, restored, astray>>
      /\ status' = [status EXCEPT ![obj[p]] = {}]
  BY DEF PublishFail
<1>2. Moves(p, "save", None, net[p], obj[p]) /\ obj[p] \in Object
  BY PublishFailShape
<1>3. /\ NoNews("assembling") /\ NoNews("publishing")
      /\ \A m \in Network : Says(m, "publishing")' => listed[m] # obj[p]
  BY <1>1, <1>2, ClearNews DEF Bit
<1>4. Owned'
  BY <1>1, <1>2, OwnedMoves, ThreadsDiffer DEF TellInv
<1> QED BY <1>1, <1>2, <1>3, <1>4, TellPublisher

-----------------------------------------------------------------------------
(* Changes of the status, stops and restarts.                              *)

\* What a store makes of what the statuses say: if what was loaded is stale, the network goes
\* astray; otherwise one bit changes of the object the thread holds.
LEMMA StoreSays ==
  ASSUME ShapeInv, Owned, NEW t \in Thread, Store(t), NEW m \in Network, NEW b \in Bit,
         Says(m, b)'
  PROVE  /\ \/ Says(m, b)
            \/ listed[m] = obj[t] /\ update[t] = AddBit(b)
         /\ ~(listed[m] = obj[t] /\ update[t] = RemoveBit(b))
<1> DEFINE o == obj[t]
           new == IF update[t].op = "add" THEN seen[t] \cup {update[t].bit}
                                          ELSE seen[t] \ {update[t].bit}
<1>1. /\ o \in Object /\ net[t] \in Network /\ listed' = listed
      /\ status' = [status EXCEPT ![o] = new]
      /\ astray' = IF status[o] = seen[t] THEN astray ELSE astray \cup {net[t]}
  BY StoreShape
<1>2. update[t] \in Change
  BY StoreShape DEF ShapeInv, ThreadShape
<1> HIDE DEF new
<1>3. status'[o] = new /\ \A x \in Object \ {o} : status'[x] = status[x]
  BY <1>1 DEF ShapeInv, FieldShape
<1>4. listed[m] # None /\ listed[m] \in Object /\ m \notin astray /\ b \in status'[listed[m]]
  BY <1>1 DEF Says, ShapeInv, FieldShape
<1>5. CASE listed[m] # o
  BY <1>3, <1>4, <1>5 DEF Says
<1>6. CASE listed[m] = o
  <2>1. m = net[t]
    BY <1>4, <1>6 DEF Owned
  <2>2. status[o] = seen[t]
    BY <1>1, <2>1 DEF Says
  <2>3. b \in new
    BY <1>3, <1>4, <1>6
  <2>4. CASE update[t].op = "add"
    <3>1. b \in status[o] \/ b = update[t].bit
      BY <2>2, <2>3, <2>4 DEF new
    <3>2. update[t] # RemoveBit(b)
      BY <2>4 DEF RemoveBit
    <3>3. b = update[t].bit => update[t] = AddBit(b)
      BY <1>2, <2>4 DEF Change, AddBit
    <3> QED BY <1>4, <1>6, <3>1, <3>2, <3>3 DEF Says
  <2>5. CASE update[t].op # "add"
    <3>1. b \in status[o] /\ b # update[t].bit
      BY <2>2, <2>3, <2>5 DEF new
    <3>2. update[t] # RemoveBit(b)
      BY <3>1 DEF RemoveBit
    <3> QED BY <1>4, <1>6, <3>1, <3>2 DEF Says
  <2> QED BY <2>4, <2>5
<1> QED BY <1>5, <1>6

LEMMA TellStore ==
  ASSUME ShapeInv, TellInv, NEW t \in Thread, Store(t)
  PROVE  TellInv'
<1>1. /\ UNCHANGED <<listed, queue, save, restored, pc, net, obj>>
      /\ update[t] # None
      /\ update'[t] = None /\ \A v \in Thread \ {t} : update'[v] = update[v]
  BY StoreShape
<1>2. \A m \in Network, b \in Bit : Says(m, b)' =>
        /\ Says(m, b) \/ (listed[m] = obj[t] /\ update[t] = AddBit(b))
        /\ ~(listed[m] = obj[t] /\ update[t] = RemoveBit(b))
  BY StoreSays DEF TellInv
<1>3. /\ AddBit("assembling") # AddBit("publishing")
      /\ \A b, c \in Bit : RemoveBit(b) # AddBit(c)
      /\ "assembling" \in Bit /\ "publishing" \in Bit
  BY DEF AddBit, RemoveBit, Bit
<1>4. Owned'
  BY <1>1, OwnedRest DEF TellInv
<1>5. \A b \in Bit : update[t] # AddBit(b) => NoNews(b)
  BY <1>1, <1>2 DEF NoNews
<1>6. \A p \in Publisher : p # t /\ Publishing(p) => obj'[p] = obj[p] /\ Publishing(p)'
  BY <1>1, ThreadsDiffer DEF Publishing
<1>7. CASE t = Generation /\ pc[t] = "finish" /\ update[t] = RemoveBit("assembling")
  <2>1. NoNews("assembling") /\ NoNews("publishing")
    BY <1>3, <1>5, <1>7
  <2>2. \A p \in Publisher : p # t
    BY <1>7, ThreadsDiffer
  <2>3. PublishingTold'
    BY <1>6, <2>1, <2>2, PublishingRest DEF TellInv
  <2>4. TailTold'
    BY <1>1, <1>7, TailIdle
  <2>5. AssemblingTold'
    <3> SUFFICES ASSUME NEW m \in Network, Says(m, "assembling")'
                 PROVE  Contains(queue, m) \/ obj[Reprocess] = listed[m]
      BY <1>1 DEF AssemblingTold
    <3>1. Says(m, "assembling") /\ listed[m] # obj[Generation]
      BY <1>2, <1>3, <1>7, <2>1 DEF NoNews
    <3> QED BY <3>1 DEF TellInv, AssemblingTold
  <2> QED BY <1>4, <2>3, <2>4, <2>5 DEF TellInv
<1>8. CASE t = Reprocess /\ update[t] = AddBit("assembling")
  <2>1. NoNews("publishing")
    BY <1>3, <1>5, <1>8
  <2>2. \A p \in Publisher : p # t
    BY <1>8, ThreadsDiffer
  <2>3. PublishingTold'
    BY <1>6, <2>1, <2>2, PublishingRest DEF TellInv
  <2>4. \A m \in Network : Says(m, "assembling")' =>
          Says(m, "assembling") \/ obj[Reprocess] = listed[m]
    BY <1>2, <1>3, <1>8
  <2>5. update'[Generation] = update[Generation]
    BY <1>1, <1>8, ThreadsDiffer
  <2>6. AssemblingTold'
    BY <1>1, <2>4, <2>5 DEF TellInv, AssemblingTold
  <2>7. TailTold'
    <3> DEFINE m == net[Generation]
    <3> SUFFICES ASSUME pc[Generation] = "work", save, ~restored, listed[m] # obj[Generation],
                        Says(m, "assembling")'
                 PROVE  Contains(Tail(queue), m) \/ obj[Reprocess] = listed[m]
      BY <1>1 DEF TailTold
    <3>1. m \in Network
      BY ThreadsDiffer DEF ShapeInv, ThreadShape, InStep
    <3>2. Says(m, "assembling") \/ obj[Reprocess] = listed[m]
      BY <1>1, <2>4, <3>1
    <3> QED BY <3>2 DEF TellInv, TailTold
  <2> QED BY <1>4, <2>3, <2>6, <2>7 DEF TellInv
<1>9. CASE t \in Publisher /\ pc[t] = "mark" /\ update[t] = AddBit("publishing")
  <2>1. NoNews("assembling")
    BY <1>3, <1>5, <1>9
  <2>2. update'[Generation] = update[Generation]
    BY <1>1, <1>9, ThreadsDiffer
  <2>3. AssemblingTold' /\ TailTold'
    BY <1>1, <2>1, <2>2, TellOther DEF TellInv
  <2>4. Publishing(t)' /\ obj'[t] = obj[t]
    BY <1>1, <1>9 DEF Publishing
  <2>5. PublishingTold'
    <3> SUFFICES ASSUME NEW m \in Network, Says(m, "publishing")'
                 PROVE  \E p \in Publisher : obj'[p] = listed[m] /\ Publishing(p)'
      BY <1>1 DEF PublishingTold
    <3>1. Says(m, "publishing") \/ obj[t] = listed[m]
      BY <1>2, <1>3
    <3>2. CASE obj[t] = listed[m]
      BY <1>9, <2>4, <3>2
    <3>3. CASE Says(m, "publishing")
      <4>1. PICK p \in Publisher : obj[p] = listed[m] /\ Publishing(p)
        BY <3>3 DEF TellInv, PublishingTold
      <4> QED BY <1>6, <2>4, <4>1
    <3> QED BY <3>1, <3>2, <3>3
  <2> QED BY <1>4, <2>3, <2>5 DEF TellInv
<1>10. CASE t \in Publisher /\ pc[t] = "flags" /\ update[t] = RemoveBit("publishing")
  <2>1. NoNews("assembling") /\ NoNews("publishing")
    BY <1>3, <1>5, <1>10
  <2>2. update'[Generation] = update[Generation]
    BY <1>1, <1>10, ThreadsDiffer
  <2>3. AssemblingTold' /\ TailTold'
    BY <1>1, <2>1, <2>2, TellOther DEF TellInv
  <2>4. \A m \in Network : Says(m, "publishing")' => obj[t] # listed[m]
    BY <1>2, <1>3, <1>10
  <2>5. PublishingTold'
    BY <1>6, <2>1, <2>4, PublishingRest DEF TellInv
  <2> QED BY <1>4, <2>3, <2>5 DEF TellInv
<1>11. Agenda(t)
  BY DEF ShapeInv, InStep
<1> QED BY <1>1, <1>7, <1>8, <1>9, <1>10, <1>11 DEF Agenda

\* Nobody moves, and no status says more than before.
LEMMA TellRest ==
  ASSUME ShapeInv, TellInv, NoNews("assembling"), NoNews("publishing"),
         UNCHANGED <<listed, queue, save, restored, pc, net, obj, update>>
  PROVE  TellInv'
<1>1. Owned' /\ AssemblingTold' /\ TailTold'
  BY OwnedRest, TellOther DEF TellInv
<1>2. PublishingTold'
  BY PublishingRest DEF TellInv, Publishing
<1> QED BY <1>1, <1>2 DEF TellInv

LEMMA TellStop ==
  ASSUME ShapeInv, TellInv, Stop
  PROVE  TellInv'
<1>1. /\ UNCHANGED <<listed, queue, save, restored, pc, net, obj, update, astray>>
      /\ status' = [o \in Object |-> IF \E n \in Network : listed[n] = o
                                     THEN status[o] \ {"publishing"} ELSE status[o]]
  BY DEF Stop
<1>2. \A n \in Network : listed[n] # None => status'[listed[n]] \subseteq status[listed[n]]
  BY <1>1 DEF ShapeInv, FieldShape
<1>3. NoNews("assembling") /\ NoNews("publishing")
  BY <1>1, <1>2 DEF NoNews, Says
<1> QED BY <1>1, <1>3, TellRest

\* A network comes back with the status the file has of it, astray unless this is empty.
LEMMA TellRestart ==
  ASSUME ShapeInv, TellInv, Restart
  PROVE  TellInv'
<1>1. /\ listed' = [n \in Network |-> IF disk[n] = None THEN None ELSE Number[n]]
      /\ status' = [o \in Object |-> IF \E n \in Network : listed'[n] = o
                                     THEN disk[CHOOSE n \in Network : Number[n] = o] ELSE {}]
      /\ astray' = {n \in Network : disk[n] \notin {None, {}}}
  BY DEF Restart
<1>2. \A t \in Thread : pc'[t] = "idle" /\ obj'[t] = None
  BY RestartShape
<1>3. \A n \in Network : /\ Number[n] \in Object
                         /\ \A m \in Network : Number[m] = Number[n] => m = n
  BY NumberIsInjective
<1>4. \A n \in Network, b \in Bit : ~Says(n, b)'
  <2> SUFFICES ASSUME NEW n \in Network, listed'[n] # None, n \notin astray'
               PROVE  status'[listed'[n]] = {}
    BY DEF Says
  <2>1. disk[n] = {} /\ listed'[n] = Number[n]
    BY <1>1
  <2>2. (CHOOSE m \in Network : Number[m] = Number[n]) = n
    BY <1>3
  <2> QED BY <1>1, <1>3, <2>1, <2>2
<1>5. "assembling" \in Bit /\ "publishing" \in Bit
  BY DEF Bit
<1>6. Owned' /\ TailTold'
  BY <1>2, TailIdle, ThreadsDiffer DEF Owned
<1> QED BY <1>4, <1>5, <1>6 DEF TellInv, AssemblingTold, PublishingTold

LEMMA TellStep ==
  ASSUME ShapeInv, TellInv, SavesItsOwn, SavesItsOwn', [Next]_vars
  PROVE  TellInv'
<1>1. ASSUME Ask PROVE TellInv'
  BY <1>1, TellCreate, TellDelete, TellReprocessStart, TellPublishStart DEF Ask
<1>2. ASSUME Generate PROVE TellInv'
  BY <1>2, TellTakeFirst, TellFail, TellDone, TellFinish DEF Generate
<1>3. ASSUME NEW p \in Publisher, Publish(p) PROVE TellInv'
  BY <1>3, TellPublishGoOn, TellPublishLoad, TellPublishFail DEF Publish
<1>4. ASSUME NEW t \in Thread, Load(t) PROVE TellInv'
  <2>1. UNCHANGED <<listed, status, queue, save, restored, pc, net, obj, update, astray>>
    BY <1>4 DEF Load
  <2> QED BY <2>1, SameNews, TellRest
<1>5. ASSUME NEW t \in Thread, Update(t) PROVE TellInv'
  BY <1>4, <1>5, TellStore DEF Update
<1>6. ASSUME UNCHANGED vars PROVE TellInv'
  <2>1. UNCHANGED <<listed, status, queue, save, restored, pc, net, obj, update, astray>>
    BY <1>6 DEF vars
  <2> QED BY <2>1, SameNews, TellRest
<1> QED BY <1>1, <1>2, <1>3, <1>5, <1>6, TellReprocessEnd, TellStop, TellRestart DEF Next

LEMMA TellMeansWork == ShapeInv /\ TellInv => StatusTellsWork
<1> SUFFICES ASSUME ShapeInv, TellInv, NEW n \in Network, listed[n] # None, n \notin astray
             PROVE  /\ "assembling" \in status[listed[n]] =>
                         \/ Contains(queue, n)
                         \/ \E t \in {Generation, Reprocess} :
                              obj[t] = listed[n] /\ pc[t] \in {"finish", "mark"}
                    /\ "publishing" \in status[listed[n]] =>
                         \E p \in Publisher : obj[p] = listed[n]
  BY DEF StatusTellsWork
<1>1. update[Generation] # None => pc[Generation] = "finish"
  BY ThreadsDiffer DEF ShapeInv, InStep, Agenda
<1>2. obj[Reprocess] # None => pc[Reprocess] = "mark"
  BY ThreadsDiffer DEF ShapeInv, InStep, Agenda
<1> QED BY <1>1, <1>2 DEF TellInv, AssemblingTold, PublishingTold, Says

\* Whatever the order in which requests, executions and publishers load and store the status, a
\* status that has not gone astray says that a network is assembling, or publishing, only while
\* somebody is going to take that back.
THEOREM StatusTrue == Spec => []StatusTellsWork
<1>1. Init => SavesItsOwn /\ TellInv
  BY ThreadsDiffer DEF Init, SavesItsOwn, TellInv, Owned, AssemblingTold, PublishingTold,
                       TailTold, Says
<1>2. ASSUME ShapeInv, SavesItsOwn, TellInv, [Next]_vars
      PROVE  ShapeInv' /\ SavesItsOwn' /\ TellInv'
  BY <1>2, NextShape, OwnStep, TellStep
<1>3. (ShapeInv /\ SavesItsOwn /\ TellInv) /\ [Next]_vars => (ShapeInv /\ SavesItsOwn /\ TellInv)'
  BY <1>2
<1> QED BY InitShape, <1>1, <1>3, TellMeansWork, PTL DEF Spec
=============================================================================
