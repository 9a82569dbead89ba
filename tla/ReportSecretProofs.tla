------------------------- MODULE ReportSecretProofs -------------------------
(***************************************************************************)
(* Proofs about ReportSecret, for any number of appends and pods, any sizes*)
(* of events and any limits.                                               *)
(***************************************************************************)
EXTENDS ReportSecret, SequenceTheorems, FiniteSetTheorems, WellFoundedInduction, TLAPS

(***************************************************************************)
(* Sequences                                                               *)
(***************************************************************************)

\* What a suffix of a sequence is made of.
LEMMA SuffixProperties ==
    ASSUME NEW S, NEW s \in Seq(S), NEW i \in 1 .. Len(s) + 1
    PROVE  /\ Suffix(s, i) \in Seq(S)
           /\ Len(Suffix(s, i)) = Len(s) - i + 1
           /\ \A k \in 1 .. Len(s) - i + 1 : Suffix(s, i)[k] = s[i + k - 1]
<1>1. Len(s) \in Nat
  BY LenProperties
<1>2. \A k \in i .. Len(s) : s[k] \in S
  BY <1>1, ElementOfSeq
<1> QED
  BY <1>1, <1>2, SubSeqProperties DEF Suffix

\* A suffix of a suffix is a suffix.
LEMMA SuffixOfSuffix ==
    ASSUME NEW S, NEW s \in Seq(S), NEW i \in 1 .. Len(s) + 1,
           NEW k \in 1 .. Len(s) - i + 2
    PROVE  Suffix(Suffix(s, i), k) = Suffix(s, i + k - 1)
<1> DEFINE t == Suffix(s, i)
<1>0. Len(s) \in Nat
  BY LenProperties
<1>1. /\ t \in Seq(S) /\ Len(t) = Len(s) - i + 1
      /\ \A n \in 1 .. Len(s) - i + 1 : t[n] = s[i + n - 1]
  BY SuffixProperties
<1> HIDE DEF t
<1>2. /\ Suffix(t, k) \in Seq(S) /\ Len(Suffix(t, k)) = Len(t) - k + 1
      /\ \A n \in 1 .. Len(t) - k + 1 : Suffix(t, k)[n] = t[k + n - 1]
  <2>1. t \in Seq(S) /\ k \in 1 .. Len(t) + 1
    BY <1>0, <1>1
  <2> QED
    BY <2>1, SuffixProperties
<1>3. i + k - 1 \in 1 .. Len(s) + 1
  BY <1>0
<1>4. /\ Suffix(s, i + k - 1) \in Seq(S)
      /\ Len(Suffix(s, i + k - 1)) = Len(s) - (i + k - 1) + 1
      /\ \A n \in 1 .. Len(s) - (i + k - 1) + 1 :
            Suffix(s, i + k - 1)[n] = s[(i + k - 1) + n - 1]
  BY <1>3, SuffixProperties
<1>5. Suffix(t, k) = Suffix(s, i + k - 1)
  <2>1. Len(Suffix(t, k)) = Len(Suffix(s, i + k - 1))
    BY <1>0, <1>1, <1>2, <1>4
  <2>2. ASSUME NEW n \in 1 .. Len(Suffix(t, k))
        PROVE  Suffix(t, k)[n] = Suffix(s, i + k - 1)[n]
    BY <1>0, <1>1, <1>2, <1>4
  <2> QED
    BY <1>2, <1>4, <2>1, <2>2, SeqEqual
<1> QED
  BY <1>5 DEF t

\* A suffix of a sequence grows with it.
LEMMA SuffixOfAppend ==
    ASSUME NEW S, NEW s \in Seq(S), NEW e \in S, NEW i \in 1 .. Len(s) + 1
    PROVE  Suffix(Append(s, e), i) = Append(Suffix(s, i), e)
<1> DEFINE t == Append(s, e)
           u == Suffix(s, i)
<1>0. Len(s) \in Nat
  BY LenProperties
<1>1. /\ t \in Seq(S) /\ Len(t) = Len(s) + 1 /\ t[Len(s) + 1] = e
      /\ \A n \in 1 .. Len(s) : t[n] = s[n]
  BY AppendProperties
<1>2. /\ u \in Seq(S) /\ Len(u) = Len(s) - i + 1
      /\ \A n \in 1 .. Len(s) - i + 1 : u[n] = s[i + n - 1]
  BY SuffixProperties
<1> HIDE DEF t, u
<1>3. /\ Suffix(t, i) \in Seq(S) /\ Len(Suffix(t, i)) = Len(t) - i + 1
      /\ \A n \in 1 .. Len(t) - i + 1 : Suffix(t, i)[n] = t[i + n - 1]
  <2>1. t \in Seq(S) /\ i \in 1 .. Len(t) + 1
    BY <1>0, <1>1
  <2> QED
    BY <2>1, SuffixProperties
<1>4. /\ Append(u, e) \in Seq(S) /\ Len(Append(u, e)) = Len(u) + 1
      /\ Append(u, e)[Len(u) + 1] = e
      /\ \A n \in 1 .. Len(u) : Append(u, e)[n] = u[n]
  BY <1>2, AppendProperties
<1>5. Suffix(t, i) = Append(u, e)
  <2>1. Len(Suffix(t, i)) = Len(Append(u, e))
    BY <1>0, <1>1, <1>2, <1>3, <1>4
  <2>2. ASSUME NEW n \in 1 .. Len(Suffix(t, i))
        PROVE  Suffix(t, i)[n] = Append(u, e)[n]
    <3>0. n \in 1 .. Len(u) + 1 /\ Suffix(t, i)[n] = t[i + n - 1]
      BY <1>0, <1>1, <1>2, <1>3
    <3>1. CASE n = Len(u) + 1
      <4>1. i + n - 1 = Len(s) + 1
        BY <1>0, <1>2, <3>1
      <4> QED
        BY <1>1, <1>4, <3>0, <3>1, <4>1
    <3>2. CASE n # Len(u) + 1
      <4>0. Len(u) = Len(s) - i + 1 /\ n \in 1 .. Len(u) + 1
        BY <1>2, <3>0
      <4>1. n \in 1 .. Len(u) /\ i + n - 1 \in 1 .. Len(s)
        BY <1>0, <3>2, <4>0
      <4>2. u[n] = s[i + n - 1]
        BY <1>0, <1>2, <4>1
      <4> QED
        BY <1>1, <1>4, <3>0, <4>1, <4>2
    <3> QED
      BY <3>1, <3>2
  <2> QED
    BY <1>3, <1>4, <2>1, <2>2, SeqEqual
<1> QED
  BY <1>5 DEF t, u

\* Of some naturals one is the least.
LEMMA Least ==
    ASSUME NEW T, T \subseteq Nat, T # {}
    PROVE  \E x \in T : \A y \in T : x <= y
<1>1. PICK x \in T : \A y \in T : <<y, x>> \notin OpToRel(<, Nat)
  BY NatLessThanWellFounded, WFMin
<1>2. \A y \in T : ~(y < x)
  BY <1>1 DEF OpToRel
<1> QED
  BY <1>2

-----------------------------------------------------------------------------
(***************************************************************************)
(* The size of a report and what AppendEvents keeps of it                  *)
(***************************************************************************)

\* The bytes of a report's events.
Bytes(events) == UNION {{i} \X (1 .. events[i].size) : i \in DOMAIN events}

\* They are finitely many.
LEMMA BytesFinite ==
    ASSUME NEW events \in Seq(Event)
    PROVE  IsFiniteSet(Bytes(events))
<1> DEFINE D == 1 .. Len(events)
           B(i) == {i} \X (1 .. events[i].size)
           F == {B(i) : i \in D}
           f == [i \in D |-> B(i)]
<1>1. Len(events) \in Nat /\ DOMAIN events = D
  BY LenProperties
<1>2. \A i \in D : events[i].size \in Nat
  <2> TAKE i \in D
  <2>1. events[i] \in Event
    BY ElementOfSeq
  <2> QED
    BY <2>1, SizesAssumption DEF Event
<1>3. IsFiniteSet(D)
  BY <1>1, FS_Interval
<1>4. \A m \in Int : IsFiniteSet(1 .. m)
  <2> TAKE m \in Int
  <2> QED
    BY FS_Interval
<1>5. \A i \in D : IsFiniteSet(B(i))
  <2> TAKE i \in D
  <2>1. events[i].size \in Int
    BY <1>2
  <2>2. IsFiniteSet(1 .. events[i].size)
    BY <1>4, <2>1
  <2>3. IsFiniteSet({i})
    BY FS_Singleton
  <2> QED
    BY <2>2, <2>3, FS_Product
<1>6. f \in Surjection(D, F)
  BY DEF Surjection
<1>7. IsFiniteSet(F)
  BY <1>3, <1>6, FS_Surjection
<1>8. IsFiniteSet(UNION F)
  BY <1>5, <1>7, FS_UNION
<1> QED
  BY <1>1, <1>8 DEF Bytes

\* An event more does not make a report smaller.
LEMMA SizeOfAppend ==
    ASSUME NEW events \in Seq(Event), NEW e \in Event
    PROVE  /\ SizeOf(events) \in Nat
           /\ SizeOf(Append(events, e)) \in Nat
           /\ SizeOf(events) <= SizeOf(Append(events, e))
<1> DEFINE t == Append(events, e)
<1>1. t \in Seq(Event) /\ DOMAIN events \subseteq DOMAIN t
      /\ \A i \in DOMAIN events : t[i] = events[i]
  BY AppendProperties, LenProperties
<1>2. Bytes(events) \in SUBSET Bytes(t)
  BY <1>1 DEF Bytes
<1>3. IsFiniteSet(Bytes(events)) /\ IsFiniteSet(Bytes(t))
  BY <1>1, BytesFinite
<1>4. /\ Cardinality(Bytes(events)) \in Nat /\ Cardinality(Bytes(t)) \in Nat
      /\ Cardinality(Bytes(events)) <= Cardinality(Bytes(t))
  BY <1>2, <1>3, FS_CardinalityType, FS_Subset
<1> QED
  BY <1>4 DEF SizeOf, Bytes

\* What DropToSize keeps: the longest suffix that is small enough.
LEMMA DropToSizeKeeps ==
    ASSUME NEW events \in Seq(Event), DropToSize(events) # <<>>
    PROVE  \E k \in 1 .. Len(events) :
              /\ DropToSize(events) = Suffix(events, k)
              /\ SizeOf(Suffix(events, k)) <= SizeLimit
              /\ \A j \in 1 .. k - 1 : ~(SizeOf(Suffix(events, j)) <= SizeLimit)
<1> DEFINE fitting == {i \in 1 .. Len(events) : SizeOf(Suffix(events, i)) <= SizeLimit}
           k == CHOOSE i \in fitting : \A j \in fitting : i <= j
<1>0. Len(events) \in Nat
  BY LenProperties
<1>1. fitting # {} /\ DropToSize(events) = Suffix(events, k)
  BY DEF DropToSize
<1>2. fitting \subseteq Nat
  BY <1>0
<1>3. \E i \in fitting : \A j \in fitting : i <= j
  <2> HIDE DEF fitting
  <2> QED
    BY <1>1, <1>2, Least
<1>4. k \in fitting /\ \A j \in fitting : k <= j
  <2> HIDE DEF fitting
  <2> QED
    BY <1>3
<1>5. k \in 1 .. Len(events) /\ SizeOf(Suffix(events, k)) <= SizeLimit
  BY <1>4
<1>6. ASSUME NEW j \in 1 .. k - 1 PROVE ~(SizeOf(Suffix(events, j)) <= SizeLimit)
  <2> HIDE DEF k
  <2>1. j \in 1 .. Len(events) /\ ~(k <= j)
    BY <1>0, <1>5
  <2> QED
    BY <1>4, <2>1
<1> HIDE DEF k, fitting
<1> QED
  BY <1>1, <1>5, <1>6

\* What AppendEvents keeps: the longest suffix that fits both limits.
LEMMA AppendEventsKeeps ==
    ASSUME NEW events \in Seq(Event), NEW e \in Event, AppendEvents(events, e) # <<>>
    PROVE  \E k \in 1 .. Len(events) + 1 :
              /\ AppendEvents(events, e) = Suffix(Append(events, e), k)
              /\ Fits(Suffix(Append(events, e), k))
              /\ k > 1 => ~Fits(Suffix(Append(events, e), k - 1))
<1> DEFINE all == Append(events, e)
           d == Len(all) - EventLimit + 1
<1>0. /\ all \in Seq(Event) /\ Len(all) = Len(events) + 1
      /\ Len(events) \in Nat /\ EventLimit \in Nat \ {0}
  BY AppendProperties, LenProperties, LimitsAssumption
<1>1. CASE Len(all) > EventLimit
  <2> DEFINE rest == Suffix(all, d)
  <2>1. d \in 2 .. Len(all)
    BY <1>0, <1>1
  <2>2. AppendEvents(events, e) = DropToSize(rest)
    BY <1>1 DEF AppendEvents
  <2> HIDE DEF all, d
  <2>3. rest \in Seq(Event) /\ Len(rest) = Len(all) - d + 1
    <3>1. d \in 1 .. Len(all) + 1
      BY <1>0, <2>1
    <3> QED
      BY <1>0, <3>1, SuffixProperties
  <2>4. PICK k \in 1 .. Len(rest) :
            /\ DropToSize(rest) = Suffix(rest, k)
            /\ SizeOf(Suffix(rest, k)) <= SizeLimit
            /\ \A j \in 1 .. k - 1 : ~(SizeOf(Suffix(rest, j)) <= SizeLimit)
    BY <2>2, <2>3, DropToSizeKeeps
  <2>5. \A j \in 1 .. Len(rest) : Suffix(rest, j) = Suffix(all, d + j - 1)
    <3> TAKE j \in 1 .. Len(rest)
    <3>1. d \in 1 .. Len(all) + 1 /\ j \in 1 .. Len(all) - d + 2
      BY <1>0, <2>1, <2>3
    <3> QED
      BY <1>0, <3>1, SuffixOfSuffix
  <2> HIDE DEF rest
  <2> DEFINE n == d + k - 1
  <2>6. n \in 2 .. Len(all) /\ k \in Nat
    BY <1>0, <2>1, <2>3
  <2>7. Len(Suffix(all, n)) = Len(all) - n + 1
    <3>1. n \in 1 .. Len(all) + 1
      BY <1>0, <2>6
    <3> HIDE DEF n
    <3> QED
      BY <1>0, <3>1, SuffixProperties
  <2>8. Len(all) - n + 1 <= EventLimit
    BY <1>0, <2>1, <2>4 DEF d
  <2>9. Suffix(all, n) = Suffix(rest, k)
    BY <2>5
  <2>10. Fits(Suffix(all, n))
    BY <2>4, <2>7, <2>8, <2>9 DEF Fits
  <2>11. ~Fits(Suffix(all, n - 1))
    <3>1. CASE k = 1
      <4>1. n - 1 \in 1 .. Len(all) + 1 /\ Len(all) - (n - 1) + 1 = EventLimit + 1
        BY <1>0, <2>6, <3>1 DEF d
      <4>2. Len(Suffix(all, n - 1)) = EventLimit + 1
        <5> HIDE DEF n
        <5> QED
          BY <1>0, <4>1, SuffixProperties
      <4> QED
        BY <1>0, <4>2 DEF Fits
    <3>2. CASE k # 1
      <4>1. k - 1 \in 1 .. k - 1 /\ k - 1 \in 1 .. Len(rest) /\ d + (k - 1) - 1 = n - 1
        BY <2>1, <2>3, <2>6, <3>2
      <4>2. Suffix(rest, k - 1) = Suffix(all, n - 1)
        BY <2>5, <4>1
      <4> QED
        BY <2>4, <4>1, <4>2 DEF Fits
    <3> QED
      BY <3>1, <3>2
  <2>12. n \in 1 .. Len(events) + 1 /\ AppendEvents(events, e) = Suffix(all, n)
    BY <1>0, <2>2, <2>4, <2>6, <2>9
  <2> HIDE DEF n
  <2> QED
    BY <2>10, <2>11, <2>12 DEF all
<1>2. CASE ~(Len(all) > EventLimit)
  <2>1. AppendEvents(events, e) = DropToSize(all)
    BY <1>2 DEF AppendEvents
  <2> HIDE DEF all
  <2>2. PICK k \in 1 .. Len(all) :
            /\ DropToSize(all) = Suffix(all, k)
            /\ SizeOf(Suffix(all, k)) <= SizeLimit
            /\ \A j \in 1 .. k - 1 : ~(SizeOf(Suffix(all, j)) <= SizeLimit)
    BY <1>0, <2>1, DropToSizeKeeps
  <2>3. k \in 1 .. Len(all) + 1 /\ (k > 1 => k - 1 \in 1 .. k - 1)
    BY <1>0
  <2>4. Len(Suffix(all, k)) = Len(all) - k + 1
    BY <1>0, <2>3, SuffixProperties
  <2>5. Len(all) - k + 1 <= EventLimit
    BY <1>0, <1>2
  <2>6. Fits(Suffix(all, k)) /\ (k > 1 => ~Fits(Suffix(all, k - 1)))
    BY <2>2, <2>3, <2>4, <2>5 DEF Fits
  <2>7. k \in 1 .. Len(events) + 1
    BY <1>0
  <2> QED
    BY <2>1, <2>2, <2>6, <2>7 DEF all
<1> QED
  BY <1>1, <1>2

\* The report that an append leaves holds the newest of all events if the
\* report that it found did.
LEMMA NewEventsAreNewest ==
    ASSUME NEW all \in Seq(Event), NEW s \in Report, NEW e \in Event,
           all # <<>> => s.events # <<>>,
           NEW i \in 1 .. Len(all) + 1,
           s.events = Suffix(all, i), i > 1 => ~Fits(Suffix(all, i - 1)),
           NewEvents(s, e) # <<>>, SizeOf(NewEvents(s, e)) <= SizeLimit
    PROVE  \E n \in 1 .. Len(Append(all, e)) + 1 :
              /\ NewEvents(s, e) = Suffix(Append(all, e), n)
              /\ Fits(NewEvents(s, e))
              /\ n > 1 => ~Fits(Suffix(Append(all, e), n - 1))
<1>0. /\ Append(all, e) \in Seq(Event) /\ Len(Append(all, e)) = Len(all) + 1
      /\ Len(all) \in Nat /\ EventLimit \in Nat \ {0}
  BY AppendProperties, LenProperties, LimitsAssumption
<1>1. CASE s.events = <<>>
  <2>1. all = <<>> /\ NewEvents(s, e) = <<e>>
    BY <1>1 DEF NewEvents
  <2>2. Append(all, e) = <<e>> /\ Len(<<e>>) = 1 /\ <<e>> \in Seq(Event)
    BY <2>1
  <2>3. Suffix(<<e>>, 1) = <<e>>
    BY <2>2, SubSeqFull DEF Suffix
  <2>4. Fits(<<e>>)
    BY <1>0, <2>1, <2>2 DEF Fits
  <2> QED
    BY <2>1, <2>2, <2>3, <2>4
<1>2. CASE s.events # <<>>
  <2> DEFINE t == Append(all, e)
             more == Append(s.events, e)
  <2>1. NewEvents(s, e) = AppendEvents(s.events, e) /\ s.events \in Seq(Event)
    BY <1>2 DEF NewEvents, Report
  <2>2. more = Suffix(t, i) /\ Len(s.events) = Len(all) - i + 1
    BY SuffixOfAppend, SuffixProperties
  <2>3. PICK k \in 1 .. Len(s.events) + 1 :
            /\ AppendEvents(s.events, e) = Suffix(more, k)
            /\ Fits(Suffix(more, k))
            /\ k > 1 => ~Fits(Suffix(more, k - 1))
    BY <2>1, AppendEventsKeeps
  <2> DEFINE n == i + k - 1
  <2>4. k \in Nat /\ k >= 1 /\ k <= Len(all) - i + 2
    BY <1>0, <2>2
  <2>5. \A j \in 1 .. k : Suffix(more, j) = Suffix(t, i + j - 1)
    <3> TAKE j \in 1 .. k
    <3> HIDE DEF t
    <3>1. i \in 1 .. Len(t) + 1 /\ j \in 1 .. Len(t) - i + 2
      BY <1>0, <2>4 DEF t
    <3>2. t \in Seq(Event)
      BY <1>0 DEF t
    <3> QED
      BY <2>2, <3>1, <3>2, SuffixOfSuffix
  <2>6. n \in 1 .. Len(t) + 1 /\ Suffix(more, k) = Suffix(t, n)
    BY <1>0, <2>4, <2>5
  <2>7. n > 1 => ~Fits(Suffix(t, n - 1))
    <3>1. CASE k > 1
      <4>1. k - 1 \in 1 .. k /\ i + (k - 1) - 1 = n - 1
        BY <2>4, <3>1
      <4> QED
        BY <2>3, <2>5, <3>1, <4>1
    <3>2. CASE ~(k > 1)
      <4> SUFFICES ASSUME i > 1 PROVE ~Fits(Suffix(t, i - 1))
        BY <2>4, <3>2
      <4> DEFINE u == Suffix(all, i - 1)
      <4>1. i - 1 \in 1 .. Len(all) + 1
        BY <1>0
      <4>2. u \in Seq(Event) /\ Suffix(t, i - 1) = Append(u, e)
        BY <4>1, SuffixProperties, SuffixOfAppend
      <4>3. ~(Len(u) <= EventLimit) \/ ~(SizeOf(u) <= SizeLimit)
        BY DEF Fits
      <4> HIDE DEF u
      <4>4. Len(Append(u, e)) = Len(u) + 1 /\ Len(u) \in Nat
        BY <4>2, AppendProperties, LenProperties
      <4>5. SizeOf(u) \in Nat /\ SizeOf(Append(u, e)) \in Nat /\ SizeOf(u) <= SizeOf(Append(u, e))
        BY <4>2, SizeOfAppend
      <4>6. ~(Len(Append(u, e)) <= EventLimit) \/ ~(SizeOf(Append(u, e)) <= SizeLimit)
        BY <1>0, <4>3, <4>4, <4>5, LimitsAssumption
      <4> QED
        BY <4>2, <4>6 DEF Fits
    <3> QED
      BY <3>1, <3>2
  <2> HIDE DEF n, more
  <2> QED
    BY <2>1, <2>3, <2>6, <2>7
<1> QED
  BY <1>1, <1>2

-----------------------------------------------------------------------------
(***************************************************************************)
(* The inductive invariant.                                                *)
(***************************************************************************)

\* Between the lock and the unlock of the report's mutex.
Inside(a) == pc[a] \in {"fetch", "write"}

\* Between the stamp and the end.
Stamped(a) == pc[a] \in {"append", "fetch", "write", "release", "done"}

\* An append that has made its event carries it.
EventInv == \A a \in Appends : Stamped(a) => event[a] \in Event /\ event[a].of = a

\* Each mutex is held by the append that is inside, and by no other.
MutexInv ==
    /\ \A a \in Appends : Inside(a) => mtx[pod[a]] = a
    /\ \A p \in Pods : mtx[p] # Nobody => pod[mtx[p]] = p /\ Inside(mtx[p])
    /\ \A a \in Appends : serialized /\ pc[a] \notin {"new", "done"} => outer[pod[a]] = a
    /\ \A p \in Pods : outer[p] # Nobody =>
          serialized /\ pod[outer[p]] = p /\ pc[outer[p]] \notin {"new", "done"}

\* What was fetched is the secret there is, for as long as that has the version
\* it was fetched with, and for as long as all appends are of one pod.
FetchedInv ==
    \A a \in Appends : At(a, "write") =>
        /\ fetched[a].rv <= secret.rv
        /\ fetched[a].rv = secret.rv => fetched[a] = secret
        /\ (\A b \in Appends : pod[b] = pod[a]) => fetched[a] = secret

\* The events of a pod in the report bear growing times, none in the future; an
\* append that is serialized has a later time than those of its pod.
Before(e, f) == pod[e.of] = pod[f.of] => e.reportedAt < f.reportedAt
OrderInv ==
    /\ \A a \in Appends : Stamped(a) => event[a].reportedAt <= clock
    /\ \A i \in 1 .. Len(secret.events) : secret.events[i].reportedAt <= clock
    /\ serialized =>
        /\ \A i, j \in 1 .. Len(secret.events) :
              i < j => Before(secret.events[i], secret.events[j])
        /\ \A a \in Appends, i \in 1 .. Len(secret.events) :
              pc[a] \in {"append", "fetch", "write"} => Before(secret.events[i], event[a])

IInv == TypeOK /\ EventInv /\ MutexInv /\ FetchedInv /\ OrderInv /\ NewestThatFit

-----------------------------------------------------------------------------
\* A report that has been accepted is one: some suffix of what was there with
\* the event at the end.
LEMMA NewEventsType ==
    ASSUME NEW s \in Report, NEW e \in Event, NewEvents(s, e) # <<>>
    PROVE  /\ NewEvents(s, e) \in Seq(Event)
           /\ \E k \in 1 .. Len(s.events) + 1 :
                NewEvents(s, e) = Suffix(Append(s.events, e), k)
<1>1. s.events \in Seq(Event)
  BY DEF Report
<1>2. CASE s.events = <<>>
  <2>1. Append(s.events, e) = <<e>> /\ <<e>> \in Seq(Event) /\ Len(s.events) = 0
    BY <1>2
  <2>2. Suffix(<<e>>, 1) = <<e>>
    BY <2>1, SubSeqFull DEF Suffix
  <2> QED
    BY <1>2, <2>1, <2>2 DEF NewEvents
<1>3. CASE s.events # <<>>
  <2>1. NewEvents(s, e) = AppendEvents(s.events, e)
    BY <1>3 DEF NewEvents
  <2>2. PICK k \in 1 .. Len(s.events) + 1 :
            NewEvents(s, e) = Suffix(Append(s.events, e), k)
    BY <1>1, <2>1, AppendEventsKeeps
  <2>3. /\ Append(s.events, e) \in Seq(Event) /\ Len(s.events) \in Nat
        /\ Len(Append(s.events, e)) = Len(s.events) + 1
    BY <1>1, AppendProperties, LenProperties
  <2>4. k \in 1 .. Len(Append(s.events, e)) + 1
    BY <2>3
  <2>5. NewEvents(s, e) \in Seq(Event)
    BY <2>2, <2>3, <2>4, SuffixProperties
  <2> QED
    BY <2>2, <2>5
<1> QED
  BY <1>2, <1>3

\* A write makes a report of the one there is, with the version after it.
LEMMA WriteType ==
    ASSUME TypeOK, EventInv, NEW a \in Appends, At(a, "write"), Write(a)
    PROVE  secret' \in Report /\ log' \in Seq(Event)
<1>1. event[a] \in Event /\ fetched[a] \in Report
  BY DEF EventInv, Stamped, At, TypeOK
<1>2. NewEvents(fetched[a], event[a]) \in Seq(Event)
  BY <1>1, NewEventsType DEF Write
<1>3. fetched[a].rv + 1 \in Nat
  BY <1>1 DEF Report
<1>4. secret' \in Report
  BY <1>2, <1>3 DEF Write, Report
<1>5. log' \in Seq(Event)
  BY <1>1, AppendProperties DEF Write, TypeOK
<1> QED
  BY <1>4, <1>5

\* Every step keeps the types.
LEMMA TypeInvariant ==
    ASSUME TypeOK, EventInv, [Next]_vars
    PROVE  TypeOK'
<1>1. CASE UNCHANGED vars
  BY <1>1 DEF vars, sharedVars, mode, TypeOK
<1>2. ASSUME NEW a \in Appends, Begin(a) PROVE TypeOK'
  <2>1. outer' \in [Pods -> Appends \cup {Nobody}]
    BY <1>2 DEF Begin, TypeOK
  <2> QED
    BY <1>2, <2>1 DEF Begin, Goto, mode, TypeOK, Step
<1>3. ASSUME NEW a \in Appends, NEW size \in Sizes, Stamp(a, size) PROVE TypeOK'
  <2>1. event' \in [Appends -> Event \cup {NoEvent}] /\ clock' \in Nat
    BY <1>3 DEF Stamp, TypeOK, Event
  <2> QED
    BY <1>3, <2>1 DEF Stamp, Goto, mode, TypeOK, Step
<1>4. ASSUME NEW a \in Appends, SkipAppend(a) \/ Lock(a) \/ Fetch(a) PROVE TypeOK'
  <2>1. CASE SkipAppend(a)
    BY <2>1 DEF SkipAppend, Goto, sharedVars, mode, TypeOK, Step
  <2>2. CASE Lock(a)
    BY <2>2 DEF Lock, Goto, mode, TypeOK, Step
  <2>3. CASE Fetch(a)
    BY <2>3 DEF Fetch, Goto, sharedVars, mode, TypeOK, Step
  <2> QED
    BY <1>4, <2>1, <2>2, <2>3
<1>5. ASSUME NEW a \in Appends, Return(a) PROVE TypeOK'
  <2>1. secret' \in Report /\ log' \in Seq(Event)
    BY <1>5, WriteType DEF Return, TypeOK
  <2> QED
    BY <1>5, <2>1 DEF Return, Unlock, Goto, mode, TypeOK, Step
<1>6. ASSUME NEW a \in Appends, Release(a) PROVE TypeOK'
  <2>1. NoSecret \in Report
    BY DEF NoSecret, Report
  <2>2. outer' \in [Pods -> Appends \cup {Nobody}]
    BY <1>6 DEF Release, TypeOK
  <2> QED
    BY <1>6, <2>1, <2>2 DEF Release, Goto, mode, TypeOK, Step
<1> QED
  BY <1>1, <1>2, <1>3, <1>4, <1>5, <1>6 DEF Next, Run

-----------------------------------------------------------------------------
\* What every step does to an append and to the others.
LEMMA RunMoves ==
    ASSUME TypeOK, NEW a \in Appends, Run(a)
    PROVE  /\ mode' = mode /\ pod' = pod
           /\ \A b \in Appends \ {a} :
                pc'[b] = pc[b] /\ event'[b] = event[b] /\ fetched'[b] = fetched[b]
           /\ ~At(a, "stamp") => event' = event /\ clock' = clock
           /\ \/ secret' = secret /\ log' = log
              \/ At(a, "write") /\ Write(a) /\ pc'[a] = "release"
           /\ pc'[a] = "write" => fetched'[a] = secret /\ secret' = secret
<1> USE DEF TypeOK, At, Goto, sharedVars
<1>1. CASE Begin(a) \/ SkipAppend(a) \/ Lock(a) \/ Fetch(a) \/ Release(a)
  BY <1>1 DEF Begin, SkipAppend, Lock, Fetch, Release, mode
<1>2. CASE \E size \in Sizes : Stamp(a, size)
  BY <1>2 DEF Stamp
<1>3. CASE Return(a)
  BY <1>3 DEF Return
<1> QED
  BY <1>1, <1>2, <1>3 DEF Run

\* What every step does to the mutexes: it leaves them as they are, or takes or
\* gives back that of its own pod as it goes in or out.
LEMMA RunLocks ==
    ASSUME TypeOK, NEW a \in Appends, Run(a)
    PROVE  /\ \/ mtx' = mtx /\ (Inside(a)' <=> Inside(a))
              \/ /\ mtx[pod[a]] = Nobody /\ mtx' = [mtx EXCEPT ![pod[a]] = a]
                 /\ ~Inside(a) /\ Inside(a)'
              \/ /\ mtx' = [mtx EXCEPT ![pod[a]] = Nobody]
                 /\ Inside(a) /\ ~Inside(a)'
           /\ \/ outer' = outer /\ pc[a] \notin {"new", "done"} /\ pc'[a] \notin {"new", "done"}
              \/ /\ pc[a] = "new" /\ pc'[a] = "stamp"
                 /\ IF serialized
                    THEN outer[pod[a]] = Nobody /\ outer' = [outer EXCEPT ![pod[a]] = a]
                    ELSE outer' = outer
              \/ /\ pc[a] = "release" /\ pc'[a] = "done"
                 /\ outer' = IF serialized THEN [outer EXCEPT ![pod[a]] = Nobody] ELSE outer
<1> USE DEF TypeOK, At, Goto, sharedVars, Inside
<1>1. CASE Begin(a) \/ SkipAppend(a) \/ Lock(a)
  BY <1>1 DEF Begin, SkipAppend, Lock
<1>2. CASE Fetch(a) \/ Release(a)
  BY <1>2 DEF Fetch, Release
<1>3. CASE \E size \in Sizes : Stamp(a, size)
  BY <1>3 DEF Stamp
<1>4. CASE Return(a)
  BY <1>4 DEF Return, Unlock
<1> QED
  BY <1>1, <1>2, <1>3, <1>4 DEF Run

\* Every step keeps the events with the appends that made them.
LEMMA EventInvariant ==
    ASSUME IInv, [Next]_vars
    PROVE  EventInv'
<1> USE DEF IInv, EventInv, Stamped
<1>1. CASE UNCHANGED vars
  BY <1>1 DEF vars
<1>2. ASSUME NEW a \in Appends, Begin(a) \/ SkipAppend(a) \/ Lock(a) PROVE EventInv'
  BY <1>2 DEF Begin, SkipAppend, Lock, Goto, At, TypeOK
<1>3. ASSUME NEW a \in Appends, Fetch(a) \/ Return(a) \/ Release(a) PROVE EventInv'
  BY <1>3 DEF Fetch, Return, Release, Goto, At, TypeOK
<1>4. ASSUME NEW a \in Appends, NEW size \in Sizes, Stamp(a, size) PROVE EventInv'
  BY <1>4 DEF Stamp, Goto, At, TypeOK, Event
<1> QED
  BY <1>1, <1>2, <1>3, <1>4 DEF Next, Run

\* Every step keeps the mutexes with those that are inside.
LEMMA MutexInvariant ==
    ASSUME IInv, [Next]_vars
    PROVE  MutexInv'
<1> USE AppendsAssumption DEF IInv
<1>1. CASE UNCHANGED vars
  BY <1>1 DEF vars, sharedVars, mode, MutexInv, Inside
<1>2. ASSUME NEW a \in Appends, Run(a) PROVE MutexInv'
  <2>0. /\ pod' = pod /\ serialized' = serialized
        /\ \A b \in Appends \ {a} : pc'[b] = pc[b] /\ (Inside(b)' <=> Inside(b))
    BY <1>2, RunMoves DEF mode, Inside
  <2>1. /\ mtx \in [Pods -> Appends \cup {Nobody}] /\ pod \in [Appends -> Pods]
        /\ outer \in [Pods -> Appends \cup {Nobody}]
    BY DEF TypeOK
  <2>2. /\ \A b \in Appends : Inside(b)' => mtx'[pod[b]] = b
        /\ \A p \in Pods : mtx'[p] # Nobody => pod[mtx'[p]] = p /\ Inside(mtx[p])'
    <3>0. /\ \A b \in Appends : Inside(b) => mtx[pod[b]] = b
          /\ \A p \in Pods : mtx[p] # Nobody => pod[mtx[p]] = p /\ Inside(mtx[p])
      BY DEF MutexInv
    <3>1. CASE mtx' = mtx /\ (Inside(a)' <=> Inside(a))
      BY <2>0, <2>1, <3>0, <3>1
    <3>2. CASE /\ mtx[pod[a]] = Nobody /\ mtx' = [mtx EXCEPT ![pod[a]] = a]
               /\ ~Inside(a) /\ Inside(a)'
      BY <2>0, <2>1, <3>0, <3>2
    <3>3. CASE /\ mtx' = [mtx EXCEPT ![pod[a]] = Nobody]
               /\ Inside(a) /\ ~Inside(a)'
      BY <2>0, <2>1, <3>0, <3>3
    <3> QED
      BY <1>2, <3>1, <3>2, <3>3, RunLocks
  <2>3. /\ \A b \in Appends : serialized /\ pc'[b] \notin {"new", "done"} => outer'[pod[b]] = b
        /\ \A p \in Pods : outer'[p] # Nobody =>
              serialized /\ pod[outer'[p]] = p /\ pc'[outer'[p]] \notin {"new", "done"}
    <3>0. /\ \A b \in Appends : serialized /\ pc[b] \notin {"new", "done"} => outer[pod[b]] = b
          /\ \A p \in Pods : outer[p] # Nobody =>
                serialized /\ pod[outer[p]] = p /\ pc[outer[p]] \notin {"new", "done"}
      BY DEF MutexInv
    <3>1. CASE outer' = outer /\ pc[a] \notin {"new", "done"} /\ pc'[a] \notin {"new", "done"}
      BY <2>0, <2>1, <3>0, <3>1
    <3>2. CASE /\ pc[a] = "new" /\ pc'[a] = "stamp"
               /\ IF serialized
                  THEN outer[pod[a]] = Nobody /\ outer' = [outer EXCEPT ![pod[a]] = a]
                  ELSE outer' = outer
      BY <2>0, <2>1, <3>0, <3>2
    <3>3. CASE /\ pc[a] = "release" /\ pc'[a] = "done"
               /\ outer' = IF serialized THEN [outer EXCEPT ![pod[a]] = Nobody] ELSE outer
      BY <2>0, <2>1, <3>0, <3>3
    <3> QED
      BY <1>2, <3>1, <3>2, <3>3, RunLocks
  <2> QED
    BY <2>0, <2>2, <2>3 DEF MutexInv
<1> QED
  BY <1>1, <1>2 DEF Next

\* Two appends of a pod are not inside at once.
LEMMA OneInside ==
    ASSUME MutexInv, NEW a \in Appends, NEW b \in Appends, a # b,
           pod[a] = pod[b], Inside(a)
    PROVE  ~Inside(b)
  BY DEF MutexInv

\* Every step keeps what was fetched as true as it was.
LEMMA FetchedInvariant ==
    ASSUME IInv, [Next]_vars
    PROVE  FetchedInv'
<1> USE DEF IInv, FetchedInv, At
<1>1. CASE UNCHANGED vars
  BY <1>1 DEF vars, sharedVars
<1>2. ASSUME NEW a \in Appends, Run(a) PROVE FetchedInv'
  <2>0. /\ pod' = pod
        /\ \A b \in Appends \ {a} : pc'[b] = pc[b] /\ fetched'[b] = fetched[b]
        /\ pc'[a] = "write" => fetched'[a] = secret /\ secret' = secret
    BY <1>2, RunMoves
  <2>1. secret.rv \in Nat /\ \A b \in Appends : fetched[b].rv \in Nat
    BY DEF TypeOK, Report
  <2>2. CASE secret' = secret
    BY <2>0, <2>1, <2>2
  <2>3. CASE At(a, "write") /\ Write(a) /\ pc'[a] = "release"
    <3>1. secret'.rv = secret.rv + 1
      BY <2>3 DEF Write, Accepts
    <3>2. \A b \in Appends \ {a} : pc[b] = "write" => pod[b] # pod[a]
      BY <2>3, OneInside DEF Inside
    <3> QED
      BY <2>0, <2>1, <2>3, <3>1, <3>2
  <2> QED
    BY <1>2, <2>2, <2>3, RunMoves
<1> QED
  BY <1>1, <1>2 DEF Next

\* Every step keeps the report the newest of all events.
LEMMA NewestInvariant ==
    ASSUME IInv, [Next]_vars
    PROVE  NewestThatFit'
<1> USE DEF IInv
<1>1. CASE secret' = secret /\ log' = log
  BY <1>1 DEF NewestThatFit
<1>2. ASSUME NEW a \in Appends, At(a, "write"), Write(a) PROVE NewestThatFit'
  <2>1. /\ secret \in Report /\ event[a] \in Event /\ log \in Seq(Event)
        /\ fetched[a] \in Report
    BY <1>2 DEF TypeOK, EventInv, Stamped, At
  <2>2. fetched[a] = secret
    BY <1>2 DEF Write, Accepts, FetchedInv
  <2>3. /\ NewEvents(secret, event[a]) # <<>>
        /\ SizeOf(NewEvents(secret, event[a])) <= SizeLimit
        /\ secret'.events = NewEvents(secret, event[a])
        /\ log' = Append(log, event[a])
    BY <1>2, <2>2 DEF Write, Accepts
  <2>4. PICK i \in 1 .. Len(log) + 1 :
            secret.events = Suffix(log, i) /\ (i > 1 => ~Fits(Suffix(log, i - 1)))
    BY DEF NewestThatFit
  <2>5. log # <<>> => secret.events # <<>>
    BY DEF NewestThatFit
  <2>6. \E n \in 1 .. Len(Append(log, event[a])) + 1 :
              /\ NewEvents(secret, event[a]) = Suffix(Append(log, event[a]), n)
              /\ Fits(NewEvents(secret, event[a]))
              /\ n > 1 => ~Fits(Suffix(Append(log, event[a]), n - 1))
    BY <2>1, <2>3, <2>4, <2>5, NewEventsAreNewest
  <2> QED
    BY <2>3, <2>6 DEF NewestThatFit
<1>3. (secret' = secret /\ log' = log) \/ \E a \in Appends : At(a, "write") /\ Write(a)
  BY RunMoves DEF Next, vars, sharedVars
<1> QED
  BY <1>1, <1>2, <1>3

\* An event of a new report is one of the old report or the new one, in order.
LEMMA NewEventsElements ==
    ASSUME NEW s \in Report, NEW e \in Event, NewEvents(s, e) # <<>>
    PROVE  \E d \in Nat : \A i \in 1 .. Len(NewEvents(s, e)) :
              \/ i + d \in 1 .. Len(s.events) /\ NewEvents(s, e)[i] = s.events[i + d]
              \/ i + d = Len(s.events) + 1 /\ NewEvents(s, e)[i] = e
<1> DEFINE t == Append(s.events, e)
           new == NewEvents(s, e)
<1>1. PICK k \in 1 .. Len(s.events) + 1 : new = Suffix(t, k)
  BY NewEventsType
<1>2. /\ t \in Seq(Event) /\ Len(t) = Len(s.events) + 1 /\ Len(s.events) \in Nat
      /\ \A n \in 1 .. Len(s.events) : t[n] = s.events[n]
      /\ t[Len(s.events) + 1] = e
  BY AppendProperties, LenProperties DEF Report
<1> HIDE DEF t, new
<1>3. k \in 1 .. Len(t) + 1
  BY <1>2
<1>4. /\ Len(new) = Len(t) - k + 1
      /\ \A i \in 1 .. Len(t) - k + 1 : new[i] = t[i + (k - 1)]
  <2>1. /\ Len(new) = Len(t) - k + 1
        /\ \A i \in 1 .. Len(t) - k + 1 : new[i] = t[k + i - 1]
    BY <1>1, <1>2, <1>3, SuffixProperties
  <2>2. \A i \in 1 .. Len(t) - k + 1 : k + i - 1 = i + (k - 1)
    BY <1>2, <1>3
  <2> QED
    BY <2>1, <2>2
<1>5. k - 1 \in Nat
  BY <1>2
<1>6. ASSUME NEW i \in 1 .. Len(new)
      PROVE  \/ i + (k - 1) \in 1 .. Len(s.events) /\ new[i] = s.events[i + (k - 1)]
             \/ i + (k - 1) = Len(s.events) + 1 /\ new[i] = e
  <2>1. i \in 1 .. Len(t) - k + 1 /\ i + (k - 1) \in 1 .. Len(s.events) + 1
    BY <1>2, <1>4
  <2>2. new[i] = t[i + (k - 1)]
    BY <1>4, <2>1
  <2> QED
    BY <1>2, <2>1, <2>2
<1> QED
  BY <1>5, <1>6 DEF new

\* A write keeps the order: the new event is later than those of its pod, and
\* nobody else of that pod has made one that is not there yet.
LEMMA WriteKeepsOrder ==
    ASSUME IInv, NEW a \in Appends, At(a, "write"), Write(a), pc'[a] = "release",
           \A b \in Appends \ {a} : pc'[b] = pc[b],
           event' = event, clock' = clock, pod' = pod, serialized' = serialized
    PROVE  OrderInv'
<1> DEFINE old == secret.events
           new == NewEvents(secret, event[a])
           e == event[a]
<1>0. /\ secret \in Report /\ e \in Event /\ e.of = a /\ fetched[a] = secret
      /\ pc \in [Appends -> Step]
  BY DEF IInv, TypeOK, EventInv, Stamped, At, Write, Accepts, FetchedInv
<1>1. new # <<>> /\ secret'.events = new /\ new \in Seq(Event) /\ old \in Seq(Event)
  BY <1>0, NewEventsType DEF Write, Report
<1>2. PICK d \in Nat : \A i \in 1 .. Len(new) :
            \/ i + d \in 1 .. Len(old) /\ new[i] = old[i + d]
            \/ i + d = Len(old) + 1 /\ new[i] = e
  BY <1>0, <1>1, NewEventsElements
<1> HIDE DEF new
<1>3. Len(new) \in Nat /\ Len(old) \in Nat
  BY <1>1, LenProperties
<1>4. /\ e.reportedAt <= clock
      /\ \A i \in 1 .. Len(old) : old[i].reportedAt <= clock
  BY DEF IInv, OrderInv, Stamped, At
<1>5. \A i \in 1 .. Len(new) : new[i].reportedAt <= clock
  BY <1>2, <1>4
<1>6. ASSUME serialized
      PROVE  /\ \A i, j \in 1 .. Len(new) : i < j => Before(new[i], new[j])
             /\ \A b \in Appends, i \in 1 .. Len(new) :
                  pc'[b] \in {"append", "fetch", "write"} => Before(new[i], event[b])
  <2>1. /\ \A i, j \in 1 .. Len(old) : i < j => Before(old[i], old[j])
        /\ \A b \in Appends, i \in 1 .. Len(old) :
              pc[b] \in {"append", "fetch", "write"} => Before(old[i], event[b])
    BY <1>6 DEF IInv, OrderInv
  <2>2. ASSUME NEW i \in 1 .. Len(new), NEW j \in 1 .. Len(new), i < j
        PROVE  Before(new[i], new[j])
    <3>1. i + d \in 1 .. Len(old) /\ new[i] = old[i + d]
      BY <1>2, <1>3, <2>2
    <3>2. CASE j + d \in 1 .. Len(old) /\ new[j] = old[j + d]
      <4>1. i + d < j + d
        BY <2>2
      <4> QED
        BY <2>1, <3>1, <3>2, <4>1
    <3>3. CASE new[j] = e
      BY <2>1, <3>1, <3>3 DEF At
    <3> QED
      BY <1>2, <3>2, <3>3
  <2>3. ASSUME NEW b \in Appends, NEW i \in 1 .. Len(new),
               pc'[b] \in {"append", "fetch", "write"}
        PROVE  Before(new[i], event[b])
    <3>1. b # a /\ pc[b] \in {"append", "fetch", "write"}
      BY <2>3
    <3>2. CASE i + d \in 1 .. Len(old) /\ new[i] = old[i + d]
      BY <2>1, <3>1, <3>2
    <3>3. CASE new[i] = e
      <4>1. event[b].of = b
        BY <3>1 DEF IInv, EventInv, Stamped
      <4>2. outer[pod[a]] = a /\ outer[pod[b]] = b
        BY <1>6, <3>1 DEF IInv, MutexInv, At
      <4> QED
        BY <1>0, <3>1, <3>3, <4>1, <4>2 DEF Before
    <3> QED
      BY <1>2, <3>2, <3>3
  <2> QED
    BY <2>2, <2>3
<1>7. \A b \in Appends : Stamped(b)' => Stamped(b)
  BY DEF Stamped, At
<1>8. \A b \in Appends : Stamped(b)' => event'[b].reportedAt <= clock'
  BY <1>7 DEF IInv, OrderInv
<1> QED
  BY <1>1, <1>5, <1>6, <1>8 DEF OrderInv, Before

\* Every step keeps the events in their order.
LEMMA OrderInvariant ==
    ASSUME IInv, [Next]_vars
    PROVE  OrderInv'
<1>0. /\ secret.events \in Seq(Event) /\ Len(secret.events) \in Nat /\ clock \in Nat
      /\ pc \in [Appends -> Step] /\ event \in [Appends -> Event \cup {NoEvent}]
  BY LenProperties DEF IInv, TypeOK, Report
<1>1. CASE UNCHANGED vars
  BY <1>1 DEF vars, sharedVars, mode, IInv, OrderInv, Before, Stamped
<1>2. ASSUME NEW a \in Appends, NEW size \in Sizes, Stamp(a, size) PROVE OrderInv'
  <2>1. /\ pc' = [pc EXCEPT ![a] = "append"] /\ clock' = clock + 1
        /\ event'[a].reportedAt = clock + 1
        /\ \A b \in Appends \ {a} : event'[b] = event[b] /\ pc'[b] = pc[b]
        /\ secret' = secret /\ pod' = pod /\ serialized' = serialized
    BY <1>0, <1>2 DEF Stamp, Goto, mode
  <2>2. \A i \in 1 .. Len(secret.events) :
            secret.events[i].reportedAt \in Nat /\ secret.events[i].reportedAt <= clock
    <3>1. \A i \in 1 .. Len(secret.events) : secret.events[i] \in Event
      BY <1>0, ElementOfSeq
    <3> QED
      BY <3>1 DEF Event, IInv, OrderInv
  <2>3. \A b \in Appends \ {a} : Stamped(b) => event[b].reportedAt \in Nat
                                              /\ event[b].reportedAt <= clock
    BY DEF IInv, EventInv, OrderInv, Event
  <2>4. \A b \in Appends : Stamped(b)' => event'[b].reportedAt <= clock'
    BY <1>0, <2>1, <2>3 DEF Stamped
  <2>5. \A i \in 1 .. Len(secret.events) : secret.events[i].reportedAt <= clock'
    BY <1>0, <2>1, <2>2
  <2>6. \A i \in 1 .. Len(secret.events) : Before(secret.events[i], event[a])'
    BY <1>0, <2>1, <2>2 DEF Before
  <2> QED
    BY <2>1, <2>4, <2>5, <2>6 DEF IInv, OrderInv, Before
<1>3. ASSUME NEW a \in Appends, Run(a), ~At(a, "stamp") PROVE OrderInv'
  <2>1. /\ event' = event /\ clock' = clock /\ pod' = pod /\ serialized' = serialized
        /\ \A b \in Appends \ {a} : pc'[b] = pc[b]
    BY <1>3, RunMoves DEF IInv, mode
  <2>2. CASE secret' = secret
    <3>1. \A b \in Appends : (Stamped(b)' => Stamped(b))
                            /\ (pc'[b] \in {"append", "fetch", "write"} =>
                                  pc[b] \in {"append", "fetch", "write"})
      BY <1>0, <1>3, <2>1 DEF Run, Begin, Stamp, SkipAppend, Lock, Fetch, Return, Release,
                              Goto, At, Stamped
    <3> QED
      BY <2>1, <2>2, <3>1 DEF IInv, OrderInv, Before
  <2>3. CASE At(a, "write") /\ Write(a) /\ pc'[a] = "release"
    BY <2>1, <2>3, WriteKeepsOrder
  <2> QED
    BY <1>3, <2>2, <2>3, RunMoves DEF IInv
<1>4. ASSUME NEW a \in Appends, Run(a), At(a, "stamp") PROVE OrderInv'
  <2>1. \E size \in Sizes : Stamp(a, size)
    BY <1>4 DEF Run, Begin, SkipAppend, Lock, Fetch, Return, Release, At
  <2> QED
    BY <1>2, <2>1
<1> QED
  BY <1>1, <1>3, <1>4 DEF Next

\* Init establishes the invariant.
LEMMA InitInvariant == Init => IInv
<1> SUFFICES ASSUME Init PROVE IInv
  OBVIOUS
<1>1. secret \in Report /\ NoSecret \in Report /\ secret.events = <<>>
  <2> DEFINE s == [NoSecret EXCEPT !.rv = 1]
  <2>1. NoSecret \in Report /\ NoSecret.events = <<>>
    BY EmptySeq DEF NoSecret, Report
  <2>2. s \in Report /\ s.events = <<>>
    BY <2>1 DEF Report
  <2>3. [s EXCEPT !.exists = TRUE] \in Report /\ [s EXCEPT !.exists = TRUE].events = <<>>
    <3> HIDE DEF s
    <3> QED
      BY <2>2 DEF Report
  <2> QED
    BY <2>1, <2>3 DEF Init
<1>2. TypeOK
  BY <1>1 DEF Init, TypeOK, Step
<1>3. EventInv /\ MutexInv /\ FetchedInv
  BY DEF Init, EventInv, MutexInv, FetchedInv, Inside, Stamped, At
<1>4. OrderInv
  BY <1>1 DEF Init, OrderInv, Stamped
<1>5. NewestThatFit
  <2>1. log = <<>> /\ Suffix(log, 1) = <<>>
    BY SubSeqEmpty DEF Init, Suffix
  <2>2. SizeOf(<<>>) = 0
    BY FS_EmptySet DEF SizeOf
  <2>3. Fits(<<>>)
    BY <2>2, LimitsAssumption DEF Fits
  <2>4. 1 \in 1 .. Len(log) + 1
    BY <2>1
  <2> QED
    BY <1>1, <2>1, <2>3, <2>4 DEF NewestThatFit
<1> QED
  BY <1>2, <1>3, <1>4, <1>5 DEF IInv

\* It holds all along.
LEMMA Invariance == Spec => []IInv
<1>1. IInv /\ [Next]_vars => IInv'
  <2> SUFFICES ASSUME IInv, [Next]_vars PROVE IInv'
    OBVIOUS
  <2>1. TypeOK'
    BY TypeInvariant DEF IInv
  <2> QED
    BY <2>1, EventInvariant, MutexInvariant, FetchedInvariant, OrderInvariant,
       NewestInvariant DEF IInv
<1> QED
  BY <1>1, InitInvariant, PTL DEF Spec

-----------------------------------------------------------------------------
(***************************************************************************)
(* Theorems                                                                *)
(***************************************************************************)

\* Type correctness.
THEOREM TypeCorrect == Spec => []TypeOK
  BY Invariance, PTL DEF IInv

\* The report holds the newest of all events ever written to it, as many as fit
\* (report.go:107-129, instance_report.go:52-71).
THEOREM KeepsNewest == Spec => []NewestThatFit
  BY Invariance, PTL DEF IInv

\* Instance events of one pod are in the order of their times (instance.go:38).
THEOREM InOrder == Spec => []EventsInOrder
<1>1. IInv => EventsInOrder
  BY DEF IInv, OrderInv, Before, EventsInOrder
<1> QED
  BY <1>1, Invariance, PTL

\* The appends of one pod do not make each other's writes fail
\* (report.go:52-53).
THEOREM NoContention == Spec => []NoContentionInPod
<1>1. IInv => NoContentionInPod
  BY DEF IInv, FetchedInv, NoContentionInPod
<1> QED
  BY <1>1, Invariance, PTL

\* A mutex that is held is held by an append of its pod that is inside
\* (report.go:52-135, instance.go:39-43).
THEOREM MutexesFreed == Spec => []MutexesAreFreed
<1>1. IInv => MutexesAreFreed
  BY DEF IInv, MutexInv, Inside, MutexesAreFreed
<1> QED
  BY <1>1, Invariance, PTL
=============================================================================
