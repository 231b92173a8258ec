-------------------------- MODULE RunStream_proofs --------------------------
(***************************************************************************)
(* Proofs about module RunStream, for any bounds: the inspector fails only *)
(* runs whose process is gone, it fails those that were lost when its pass *)
(* began, at the end of their log; and whatever is cut and opened again,   *)
(* the browser shows a prefix of the events and is not forgotten before it *)
(* has a terminal one.                                                     *)
(***************************************************************************)
EXTENDS RunStream, SequenceTheorems, FiniteSetTheorems, TLAPS

USE BoundsAssumption

(***************************************************************************)
(* The recorder and the inspector that fails lost runs.                    *)
(***************************************************************************)

\* The log is kept in the order in which it is read.
Sorted == \A i, j \in DOMAIN log : i < j => log[i].seq <= log[j].seq

\* While its process lives, a run has events of its own only.
OwnEvents ==
  owner = "alive" =>
    LastSeq(log) <= seq /\ Numbered /\ \A i \in DOMAIN log : log[i].kind # "lost"

\* A number that is too small by now was passed by the run itself; of a run
\* that was lost when the pass read its row, nothing is recorded any more.
PassKnows ==
  /\ abandon = "read" => next \in Seqs
  /\ abandon = "read" /\ next <= LastSeq(log) => log[Len(log)].kind # "lost"
  /\ lost => owner # "alive" /\ (abandon \in {"listed", "read"} => owner = "gone")
  /\ lost /\ abandon = "read" => LastSeq(log) < next

\* When a pass is done, the run it found lost is settled.
PassSettles == abandon = "done" /\ lost => row = "settled"

LogInv == TypeOK /\ Sorted /\ OwnEvents /\ PassKnows /\ PassSettles

LEMMA InitLog == Init => LogInv
<1> SUFFICES ASSUME Init PROVE LogInv
  OBVIOUS
<1>1. Len(log) = 1 /\ log[1] = [seq |-> 1, kind |-> "step"] /\ log \in Seq(Event) /\ log # <<>>
  BY DEF Init, Event, Seqs, Kinds
<1>2. wire \in Seq(Event \cup {Eof, ReadError}) /\ shown \in Seq(Seqs)
  BY DEF Init
<1>3. TypeOK
  <2>1. lost \in BOOLEAN /\ next \in Nat /\ embedded \in BOOLEAN
    BY DEF Init
  <2>2. seq \in 0..MaxSeq /\ faults \in 0..MaxFaults
    BY BoundsAssumption DEF Init
  <2>3. /\ owner \in {"alive", "gone", "reused"} /\ closure \in {"running", "cancelled", "ended"}
        /\ row \in {"live", "settled"} /\ server \in {"up", "down"}
        /\ abandon \in {"todo", "listed", "read", "done"}
        /\ stream \in {"closed", "polling", "checking"} /\ cursor \in {0} \cup Seqs
        /\ conn \in {"away", "connecting", "open", "closed", "failed"} /\ after \in {0} \cup Seqs
    BY DEF Init
  <2> QED
    BY <1>1, <1>2, <2>1, <2>2, <2>3 DEF TypeOK
<1> QED
  BY <1>1, <1>3 DEF Init, LogInv, Sorted, OwnEvents, PassKnows, PassSettles, Numbered, LastSeq

\* The stored events are records; the last has the greatest number.
LEMMA LogOrdered ==
  ASSUME TypeOK, Sorted
  PROVE  /\ log \in Seq(Event) /\ Len(log) \in Nat /\ Len(log) > 0 /\ DOMAIN log = 1..Len(log)
         /\ LastSeq(log) \in Seqs
         /\ \A i \in 1..Len(log) : /\ log[i] \in Event /\ log[i].seq \in Seqs
                                   /\ log[i].kind \in Kinds /\ log[i].seq <= LastSeq(log)
<1>1. log \in Seq(Event) /\ log # <<>>
  BY DEF TypeOK
<1>2. Len(log) \in Nat /\ Len(log) > 0 /\ DOMAIN log = 1..Len(log)
  BY <1>1
<1>3. \A i \in 1..Len(log) : log[i] \in Event
  BY <1>1, <1>2, ElementOfSeq
<1>4. \A i \in 1..Len(log) : log[i].seq \in Seqs /\ log[i].kind \in Kinds
  BY <1>3 DEF Event
<1>5. \A i \in 1..Len(log) : log[i].seq \in Int
  BY <1>4 DEF Seqs
<1>6. ASSUME NEW i \in 1..Len(log) PROVE log[i].seq <= log[Len(log)].seq
  <2>1. CASE i = Len(log)
    <3>1. log[i].seq \in Int
      BY <1>5
    <3> QED
      BY <2>1, <3>1
  <2>2. CASE i # Len(log)
    <3>1. Len(log) \in Nat /\ Len(log) > 0
      BY <1>2
    <3>2. i < Len(log) /\ Len(log) \in 1..Len(log)
      BY <2>2, <3>1
    <3> QED
      BY <1>2, <3>2, Zenon DEF Sorted
  <2> QED
    BY <2>1, <2>2
<1> QED
  BY <1>1, <1>2, <1>3, <1>4, <1>6 DEF LastSeq

\* k events of the log are numbered up to c.
Covers(c, k) == k \in 0..Len(log) /\ \A i \in DOMAIN log : i <= k <=> log[i].seq <= c

\* The events numbered up to c are the first ones.
LEMMA CoversCovered ==
  ASSUME TypeOK, Sorted, NEW c \in Nat
  PROVE  Covers(c, Covered(c))
<1> DEFINE D == {i \in DOMAIN log : log[i].seq <= c}
<1>1. /\ Len(log) \in Nat /\ DOMAIN log = 1..Len(log)
      /\ \A i \in 1..Len(log) : log[i].seq \in Int
  BY LogOrdered DEF Seqs
<1>2. IsFiniteSet(1..Len(log)) /\ Cardinality(1..Len(log)) = Len(log)
  BY <1>1, FS_Interval
<1>3. D \subseteq 1..Len(log)
  BY <1>1
<1>4. IsFiniteSet(D) /\ Cardinality(D) \in Nat /\ Cardinality(D) <= Len(log)
  BY <1>2, <1>3, FS_Subset, FS_CardinalityType
<1>5. ASSUME NEW i \in 1..Len(log), log[i].seq <= c PROVE i <= Cardinality(D)
  <2>1. ASSUME NEW h \in 1..i PROVE h \in D
    <3>1. h \in 1..Len(log) /\ (h < i \/ h = i)
      BY <1>1
    <3>2. log[h].seq <= log[i].seq
      BY <1>1, <3>1 DEF Sorted
    <3>3. log[h].seq <= c
      BY <1>1, <1>5, <3>1, <3>2
    <3> QED
      BY <1>1, <3>1, <3>3
  <2>2. 1..i \in SUBSET D
    BY <2>1
  <2>3. Cardinality(1..i) = i
    BY <1>1, FS_Interval
  <2> QED
    BY <1>4, <2>2, <2>3, FS_Subset
<1>6. ASSUME NEW i \in 1..Len(log), ~(log[i].seq <= c) PROVE ~(i <= Cardinality(D))
  <2>1. ASSUME NEW h \in D PROVE h \in 1..(i - 1)
    <3>1. h \in 1..Len(log) /\ log[h].seq <= c
      BY <1>1
    <3>2. CASE i <= h
      <4>1. log[i].seq <= log[h].seq
        BY <1>1, <3>1, <3>2 DEF Sorted
      <4> QED
        BY <1>1, <1>6, <3>1, <4>1
    <3> QED
      BY <1>1, <3>1, <3>2
  <2>2. D \in SUBSET (1..(i - 1))
    BY <2>1
  <2>3. IsFiniteSet(1..(i - 1)) /\ Cardinality(1..(i - 1)) = i - 1
    <3>1. i \in Nat /\ i >= 1
      BY <1>1
    <3> QED
      BY <3>1, FS_Interval
  <2>4. Cardinality(D) <= i - 1
    BY <2>2, <2>3, FS_Subset
  <2> QED
    BY <1>1, <1>4, <2>4
<1>7. Covered(c) = Cardinality(D)
  BY DEF Covered
<1> HIDE DEF D
<1> QED
  BY <1>1, <1>4, <1>5, <1>6, <1>7 DEF Covers

\* No other number of events is covered.
LEMMA CoversOnce ==
  ASSUME TypeOK, Sorted, NEW c \in Nat, NEW m, Covers(c, m)
  PROVE  Covered(c) = m
<1>1. PICK k : k = Covered(c)
  OBVIOUS
<1>2. /\ Len(log) \in Nat /\ k \in 0..Len(log) /\ m \in 0..Len(log)
      /\ \A i \in 1..Len(log) : (i <= k <=> log[i].seq <= c) /\ (i <= m <=> log[i].seq <= c)
  BY <1>1, CoversCovered, LogOrdered DEF Covers
<1>3. CASE k < m
  <2>1. m \in 1..Len(log) /\ ~(m <= k) /\ m <= m
    BY <1>2, <1>3
  <2> QED
    BY <1>2, <2>1
<1>4. CASE m < k
  <2>1. k \in 1..Len(log) /\ ~(k <= m) /\ k <= k
    BY <1>2, <1>4
  <2> QED
    BY <1>2, <2>1
<1> QED
  BY <1>1, <1>2, <1>3, <1>4

\* The event goes behind those that are not numbered above it.
LEMMA InsertedIs ==
  ASSUME TypeOK, Sorted, NEW e \in Event, NEW k, Covers(e.seq, k)
  PROVE  /\ Inserted(e) \in Seq(Event) /\ Len(Inserted(e)) = Len(log) + 1
         /\ \A i \in 1..k : Inserted(e)[i] = log[i]
         /\ Inserted(e)[k + 1] = e
         /\ \A i \in (k + 2)..(Len(log) + 1) : Inserted(e)[i] = log[i - 1]
<1>1. e.seq \in Nat
  BY DEF Event, Seqs
<1>2. Covered(e.seq) = k
  BY <1>1, CoversOnce
<1>3. log \in Seq(Event) /\ Len(log) \in Nat /\ k \in Nat /\ k <= Len(log)
  BY LogOrdered DEF Covers
<1>a. PICK a : a = SubSeq(log, 1, k)
  OBVIOUS
<1>b. PICK b : b = SubSeq(log, k + 1, Len(log))
  OBVIOUS
<1>4. a \in Seq(Event) /\ Len(a) = k /\ \A i \in 1..k : a[i] = log[i]
  BY <1>3, <1>a
<1>5. /\ b \in Seq(Event) /\ Len(b) = Len(log) - k
      /\ \A i \in 1..(Len(log) - k) : b[i] = log[k + i]
  BY <1>3, <1>b
<1>6. Inserted(e) = a \o <<e>> \o b
  BY <1>2, <1>a, <1>b DEF Inserted
<1>c. PICK ae : ae = a \o <<e>>
  OBVIOUS
<1>7. /\ ae \in Seq(Event) /\ Len(ae) = k + 1
      /\ \A i \in 1..k : ae[i] = log[i]
      /\ ae[k + 1] = e
  BY <1>3, <1>4, <1>c
<1>8. /\ Inserted(e) \in Seq(Event) /\ Len(Inserted(e)) = Len(log) + 1
      /\ \A i \in 1..(Len(log) + 1) :
           Inserted(e)[i] = IF i <= k + 1 THEN ae[i] ELSE b[i - (k + 1)]
  BY <1>3, <1>5, <1>6, <1>7, <1>c, ConcatProperties
<1>9. ASSUME NEW i \in (k + 2)..(Len(log) + 1) PROVE Inserted(e)[i] = log[i - 1]
  <2>1. /\ i \in 1..(Len(log) + 1) /\ ~(i <= k + 1)
        /\ i - (k + 1) \in 1..(Len(log) - k) /\ k + (i - (k + 1)) = i - 1
    BY <1>3
  <2> QED
    BY <1>5, <1>8, <2>1
<1>10. /\ \A i \in 1..k : i \in 1..(Len(log) + 1) /\ i <= k + 1
       /\ k + 1 \in 1..(Len(log) + 1) /\ k + 1 <= k + 1
  BY <1>3
<1> QED
  BY <1>7, <1>8, <1>9, <1>10

\* An event with a number above all others goes to the end of the log.
LEMMA LogGrows ==
  ASSUME TypeOK, Sorted, NEW n \in Seqs, NEW kind \in Kinds, n > LastSeq(log),
         log' = Append(log, [seq |-> n, kind |-> kind])
  PROVE  /\ log' \in Seq(Event) /\ log' # <<>> /\ Sorted' /\ LastSeq(log') = n
         /\ Len(log') = Len(log) + 1 /\ DOMAIN log' = 1..(Len(log) + 1)
         /\ \A i \in 1..Len(log) : log'[i] = log[i]
         /\ log'[Len(log) + 1] = [seq |-> n, kind |-> kind]
<1>1. /\ log \in Seq(Event) /\ Len(log) \in Nat /\ Len(log) > 0
      /\ DOMAIN log = 1..Len(log)
      /\ [seq |-> n, kind |-> kind] \in Event
  BY LogOrdered DEF Event
<1>2. /\ log' \in Seq(Event) /\ Len(log') = Len(log) + 1 /\ DOMAIN log' = 1..(Len(log) + 1)
      /\ \A i \in 1..Len(log) : log'[i] = log[i]
      /\ log'[Len(log) + 1] = [seq |-> n, kind |-> kind]
  BY <1>1
<1>3. \A i \in 1..Len(log) : log[i].seq \in Nat /\ log[i].seq <= LastSeq(log)
  BY LogOrdered DEF Seqs
<1>4. LastSeq(log) \in Nat /\ n \in Nat
  BY LogOrdered DEF Seqs
<1>5. Sorted'
  <2> SUFFICES ASSUME NEW i \in 1..(Len(log) + 1), NEW j \in 1..(Len(log) + 1), i < j
               PROVE  log'[i].seq <= log'[j].seq
    BY <1>2 DEF Sorted
  <2>1. i \in 1..Len(log)
    BY <1>1
  <2>2. CASE j \in 1..Len(log)
    BY <1>1, <1>2, <2>1, <2>2 DEF Sorted
  <2>3. CASE j = Len(log) + 1
    BY <1>2, <1>3, <1>4, <2>1, <2>3
  <2> QED
    BY <1>1, <2>2, <2>3
<1>6. LastSeq(log') = n /\ log' # <<>>
  BY <1>1, <1>2 DEF LastSeq
<1> QED
  BY <1>2, <1>5, <1>6

\* The numbers of the grown log follow the order of recording if they did
\* before and the run does not go on after it was failed.
LEMMA NumberedGrows ==
  ASSUME TypeOK, Sorted, NEW n \in Seqs, NEW kind \in Kinds, n > LastSeq(log),
         log' = Append(log, [seq |-> n, kind |-> kind])
  PROVE  /\ Numbered' => Numbered
         /\ Numbered /\ (kind = "lost" \/ \A i \in DOMAIN log : log[i].kind # "lost") => Numbered'
<1>1. /\ Len(log) \in Nat /\ DOMAIN log = 1..Len(log) /\ DOMAIN log' = 1..(Len(log) + 1)
      /\ \A i \in 1..Len(log) : log'[i] = log[i]
      /\ log'[Len(log) + 1] = [seq |-> n, kind |-> kind]
  BY LogGrows, LogOrdered
<1>2. \A i \in 1..Len(log) : log[i].seq \in Nat /\ log[i].seq <= LastSeq(log)
  BY LogOrdered DEF Seqs
<1>3. LastSeq(log) \in Nat /\ n \in Nat
  BY LogOrdered DEF Seqs
<1>4. Numbered' => Numbered
  BY <1>1 DEF Numbered
<1>5. ASSUME Numbered, kind = "lost" \/ \A i \in DOMAIN log : log[i].kind # "lost"
      PROVE  Numbered'
  <2> SUFFICES ASSUME NEW i \in 1..(Len(log) + 1), NEW j \in 1..(Len(log) + 1), i < j
               PROVE  log'[i].seq < log'[j].seq /\ (log'[i].kind = "lost" => log'[j].kind = "lost")
    BY <1>1 DEF Numbered
  <2>1. i \in 1..Len(log)
    BY <1>1
  <2>2. CASE j \in 1..Len(log)
    BY <1>1, <1>5, <2>1, <2>2 DEF Numbered
  <2>3. CASE j = Len(log) + 1
    BY <1>1, <1>2, <1>3, <1>5, <2>1, <2>3
  <2> QED
    BY <1>1, <2>2, <2>3
<1> QED
  BY <1>4, <1>5

\* A late event keeps the log in order; with a number above all others it goes
\* to the end.
LEMMA LogInserted ==
  ASSUME TypeOK, Sorted, NEW n \in Seqs,
         log' = Inserted([seq |-> n, kind |-> "lost"])
  PROVE  /\ log' \in Seq(Event) /\ log' # <<>> /\ Sorted'
         /\ LastSeq(log) < n => log' = Append(log, [seq |-> n, kind |-> "lost"])
<1>a. PICK e : e = [seq |-> n, kind |-> "lost"]
  OBVIOUS
<1>1. e \in Event /\ e.seq = n /\ n \in Nat
  BY <1>a DEF Event, Kinds, Seqs
<1>2. PICK k : Covers(n, k)
  BY <1>1, CoversCovered
<1>3. /\ Len(log) \in Nat /\ DOMAIN log = 1..Len(log) /\ k \in Nat /\ k <= Len(log)
      /\ \A i \in 1..Len(log) : log[i].seq \in Nat /\ (i <= k <=> log[i].seq <= n)
  BY <1>2, LogOrdered DEF Covers, Seqs
<1>4. /\ log' \in Seq(Event) /\ Len(log') = Len(log) + 1
      /\ \A i \in 1..k : log'[i] = log[i]
      /\ log'[k + 1] = e
      /\ \A i \in (k + 2)..(Len(log) + 1) : log'[i] = log[i - 1]
  <2>1. Covers(e.seq, k) /\ log' = Inserted(e)
    BY <1>1, <1>2, <1>a
  <2>2. /\ Inserted(e) \in Seq(Event) /\ Len(Inserted(e)) = Len(log) + 1
        /\ \A i \in 1..k : Inserted(e)[i] = log[i]
        /\ Inserted(e)[k + 1] = e
        /\ \A i \in (k + 2)..(Len(log) + 1) : Inserted(e)[i] = log[i - 1]
    BY <1>1, <2>1, InsertedIs
  <2> QED
    BY <2>1, <2>2
<1>b. Len(log) \in Nat /\ k \in Nat /\ k <= Len(log)
  BY <1>3
<1>5. DOMAIN log' = 1..(Len(log) + 1) /\ log' # <<>>
  BY <1>3, <1>4
<1>6. Sorted'
  <2> SUFFICES ASSUME NEW i \in 1..(Len(log) + 1), NEW j \in 1..(Len(log) + 1), i < j
               PROVE  log'[i].seq <= log'[j].seq
    BY <1>5 DEF Sorted
  <2>1. CASE j <= k
    <3>1. i \in 1..k /\ j \in 1..k /\ i \in DOMAIN log /\ j \in DOMAIN log
      BY <1>3, <2>1
    <3> QED
      BY <1>4, <3>1 DEF Sorted
  <2>2. CASE j = k + 1
    <3>1. i \in 1..k /\ i \in 1..Len(log)
      BY <1>3, <2>2
    <3> QED
      BY <1>1, <1>3, <1>4, <2>2, <3>1
  <2>3. CASE k + 1 < j
    <3>0. /\ j \in (k + 2)..(Len(log) + 1) /\ j - 1 \in 1..Len(log) /\ ~(j - 1 <= k)
      BY <1>b, <2>3
    <3>1. /\ j \in (k + 2)..(Len(log) + 1) /\ j - 1 \in 1..Len(log) /\ ~(j - 1 <= k)
          /\ log'[j] = log[j - 1]
      BY <1>4, <3>0
    <3>2. CASE i \in 1..k
      <4>1. i \in 1..Len(log) /\ i < j - 1
        BY <1>3, <2>3, <3>2
      <4> QED
        BY <1>3, <1>4, <3>1, <3>2, <4>1 DEF Sorted
    <3>3. CASE i = k + 1
      <4>1. n <= log[j - 1].seq
        BY <1>1, <1>3, <3>1
      <4> QED
        BY <1>1, <1>4, <3>1, <3>3, <4>1
    <3>4. CASE i \in (k + 2)..(Len(log) + 1)
      <4>1. i - 1 \in 1..Len(log) /\ i - 1 < j - 1
        BY <1>3, <3>4
      <4> QED
        BY <1>3, <1>4, <3>1, <3>4, <4>1 DEF Sorted
    <3> QED
      BY <1>3, <3>2, <3>3, <3>4
  <2> QED
    BY <1>3, <2>1, <2>2, <2>3
<1>7. ASSUME LastSeq(log) < n PROVE log' = Append(log, e)
  <2>1. k = Len(log)
    <3>1. CASE k < Len(log)
      <4>1. Len(log) \in 1..Len(log) /\ ~(Len(log) <= k)
        BY <1>b, <3>1
      <4>2. log[Len(log)].seq < n
        BY <1>7 DEF LastSeq
      <4>3. log[Len(log)].seq \in Nat /\ ~(log[Len(log)].seq <= n)
        BY <1>3, <4>1
      <4> QED
        BY <1>1, <4>2, <4>3
    <3> QED
      BY <1>b, <3>1
  <2>2. /\ Append(log, e) \in Seq(Event) /\ Len(Append(log, e)) = Len(log) + 1
        /\ \A i \in 1..Len(log) : Append(log, e)[i] = log[i]
        /\ Append(log, e)[Len(log) + 1] = e
    BY <1>1, LogOrdered
  <2>3. ASSUME NEW i \in 1..Len(log') PROVE log'[i] = Append(log, e)[i]
    <3>1. i \in 1..k \/ i = k + 1
      BY <1>3, <1>4, <2>1
    <3> QED
      BY <1>4, <2>1, <2>2, <3>1
  <2> QED
    BY <1>4, <2>2, <2>3, SeqEqual
<1> QED
  BY <1>4, <1>5, <1>6, <1>7, <1>a

\* A number of the run's own events, or below one, leaves its mark: the lost
\* event is not the last, or has the number of the one before it.
LEMMA StaleNumberShows ==
  ASSUME TypeOK, Sorted, PassKnows, abandon = "read",
         log' = Inserted([seq |-> next, kind |-> "lost"]), Numbered'
  PROVE  LastSeq(log) < next
<1> SUFFICES ASSUME ~(LastSeq(log) < next) PROVE FALSE
  OBVIOUS
<1>a. PICK e : e = [seq |-> next, kind |-> "lost"]
  OBVIOUS
<1>1. next \in Seqs /\ next \in Nat /\ LastSeq(log) \in Nat
  BY LogOrdered DEF PassKnows, Seqs
<1>2. e \in Event /\ e.seq = next /\ e.kind = "lost"
  BY <1>1, <1>a DEF Event, Kinds
<1>3. PICK k : Covers(next, k)
  BY <1>1, CoversCovered
<1>4. /\ Len(log) \in Nat /\ Len(log) > 0 /\ DOMAIN log = 1..Len(log)
      /\ k \in Nat /\ k <= Len(log)
  BY <1>3, LogOrdered DEF Covers
<1>b. Len(log) \in Nat /\ k \in Nat /\ k <= Len(log)
  BY <1>4
<1>5. /\ Len(log') = Len(log) + 1 /\ log' \in Seq(Event)
      /\ \A i \in 1..k : log'[i] = log[i]
      /\ log'[k + 1] = e
      /\ \A i \in (k + 2)..(Len(log) + 1) : log'[i] = log[i - 1]
  <2>1. Covers(e.seq, k) /\ log' = Inserted(e)
    BY <1>2, <1>3, <1>a
  <2>2. /\ Inserted(e) \in Seq(Event) /\ Len(Inserted(e)) = Len(log) + 1
        /\ \A i \in 1..k : Inserted(e)[i] = log[i]
        /\ Inserted(e)[k + 1] = e
        /\ \A i \in (k + 2)..(Len(log) + 1) : Inserted(e)[i] = log[i - 1]
    BY <1>2, <2>1, InsertedIs
  <2> QED
    BY <2>1, <2>2
<1>6. DOMAIN log' = 1..(Len(log) + 1)
  BY <1>4, <1>5
<1>7. log[Len(log)].kind # "lost" /\ next <= log[Len(log)].seq
  BY <1>1 DEF PassKnows, LastSeq
<1>8. CASE k = Len(log)
  <2>1. k \in DOMAIN log' /\ k + 1 \in DOMAIN log' /\ k < k + 1 /\ k \in 1..k
    BY <1>4, <1>6, <1>8
  <2>2. log'[k].seq < log'[k + 1].seq
    BY <2>1 DEF Numbered
  <2>3. log'[k] = log[Len(log)] /\ log'[k + 1].seq = next
    BY <1>2, <1>5, <1>8, <2>1
  <2>4. log[Len(log)].seq \in Nat
    BY <1>4, LogOrdered DEF Seqs
  <2> QED
    BY <1>1, <1>7, <2>2, <2>3, <2>4
<1>9. CASE k < Len(log)
  <2>1. /\ k + 1 \in DOMAIN log' /\ Len(log) + 1 \in DOMAIN log' /\ k + 1 < Len(log) + 1
        /\ Len(log) + 1 \in (k + 2)..(Len(log) + 1) /\ (Len(log) + 1) - 1 = Len(log)
    BY <1>4, <1>6, <1>9
  <2>2. log'[k + 1].kind = "lost" => log'[Len(log) + 1].kind = "lost"
    BY <2>1 DEF Numbered
  <2>3. log'[Len(log) + 1] = log[Len(log)]
    BY <1>5, <2>1
  <2> QED
    BY <1>2, <1>5, <1>7, <2>2, <2>3
<1> QED
  BY <1>b, <1>8, <1>9

LEMMA StepLog == LogInv /\ [Next]_vars => LogInv'
<1> SUFFICES ASSUME LogInv, [Next]_vars PROVE LogInv'
  OBVIOUS
<1> USE DEF LogInv, run, store, boot, poll, browser
<1>0. /\ log \in Seq(Event) /\ Len(log) \in Nat /\ LastSeq(log) \in Seqs /\ LastSeq(log) \in Nat
      /\ wire \in Seq(Event \cup {Eof, ReadError})
  BY LogOrdered DEF TypeOK, Seqs
<1>1. ASSUME UNCHANGED <<run, store, boot>>, TypeOK' PROVE LogInv'
  BY <1>1 DEF Sorted, OwnEvents, PassKnows, PassSettles, Numbered, LastSeq
<1>2. ASSUME NEW k \in {"step", "end"}, Emit(k) PROVE LogInv'
  <2>1. /\ owner = "alive" /\ UNCHANGED <<embedded, owner, boot, poll, wire, browser>>
        /\ seq < MaxSeq /\ seq' = seq + 1 /\ closure' \in AfterEvent(k)
    BY <1>2 DEF Emit
  <2>2. /\ seq + 1 \in Seqs /\ seq + 1 > LastSeq(log) /\ k \in Kinds /\ k # "lost"
        /\ \A i \in DOMAIN log : log[i].kind # "lost"
    BY <1>0, <2>1 DEF OwnEvents, TypeOK, Seqs, Kinds
  <2>3. /\ log' = log \/ log' = Append(log, [seq |-> seq + 1, kind |-> k])
        /\ row' \in {row, "settled"} /\ faults' \in 0..MaxFaults
    BY <1>2 DEF Emit, Recorded, Fault, TypeOK
  <2>4. CASE log' = log
    <3>1. TypeOK'
      BY <2>1, <2>3, <2>4 DEF TypeOK, AfterEvent
    <3>2. OwnEvents'
      BY <1>0, <2>1, <2>4 DEF OwnEvents, Numbered, LastSeq, TypeOK
    <3>3. Sorted' /\ PassKnows' /\ PassSettles'
      BY <2>1, <2>3, <2>4 DEF Sorted, PassKnows, PassSettles, LastSeq
    <3> QED
      BY <3>1, <3>2, <3>3
  <2>5. CASE log' = Append(log, [seq |-> seq + 1, kind |-> k])
    <3>1. /\ log' \in Seq(Event) /\ log' # <<>> /\ Sorted' /\ LastSeq(log') = seq + 1
          /\ Len(log') = Len(log) + 1 /\ DOMAIN log' = 1..(Len(log) + 1)
          /\ \A i \in 1..Len(log) : log'[i] = log[i]
          /\ log'[Len(log) + 1] = [seq |-> seq + 1, kind |-> k]
      BY <2>2, <2>5, LogGrows
    <3>2. TypeOK'
      BY <2>1, <2>3, <3>1 DEF TypeOK, AfterEvent
    <3>3. OwnEvents'
      <4>1. Numbered'
        BY <2>1, <2>2, <2>5, NumberedGrows DEF OwnEvents
      <4>2. ASSUME NEW i \in DOMAIN log' PROVE log'[i].kind # "lost"
        <5>1. i \in 1..Len(log) \/ i = Len(log) + 1
          BY <1>0, <3>1
        <5>2. DOMAIN log = 1..Len(log)
          BY <1>0
        <5> QED
          BY <2>2, <3>1, <5>1, <5>2
      <4>3. LastSeq(log') <= seq'
        BY <1>0, <2>1, <3>1 DEF TypeOK
      <4> QED
        BY <4>1, <4>2, <4>3 DEF OwnEvents
    <3>4. PassKnows'
      <4>1. ~(lost /\ abandon \in {"listed", "read"})
        BY <2>1 DEF PassKnows
      <4>2. log'[Len(log')].kind # "lost"
        BY <2>2, <3>1
      <4> QED
        BY <2>1, <4>1, <4>2 DEF PassKnows
    <3>5. PassSettles'
      BY <2>1, <2>3 DEF PassSettles
    <3> QED
      BY <3>1, <3>2, <3>3, <3>4, <3>5
  <2> QED
    BY <2>3, <2>4, <2>5
<1>3. ASSUME abandon = "read", owner = "gone", log' = Inserted([seq |-> next, kind |-> "lost"])
      PROVE  log' \in Seq(Event) /\ log' # <<>> /\ Sorted'
  BY <1>3, LogInserted DEF PassKnows
<1>4. CASE FailLostRun
  <2>1. log' \in Seq(Event) /\ log' # <<>> /\ Sorted'
    BY <1>3, <1>4 DEF FailLostRun, OwnerIsGone
  <2>2. TypeOK'
    BY <1>4, <2>1 DEF FailLostRun, TypeOK
  <2>3. OwnEvents' /\ PassKnows' /\ PassSettles'
    BY <1>4 DEF FailLostRun, OwnerIsGone, OwnEvents, PassKnows, PassSettles
  <2> QED
    BY <2>1, <2>2, <2>3
<1>5. CASE PassFails
  <2>1. /\ abandon' = "todo" /\ UNCHANGED <<run, row, next, lost, poll, wire, after, shown>>
        /\ conn' \in {conn, "failed"} /\ faults' \in 0..MaxFaults
    BY <1>5 DEF PassFails, AfterFailedPass, Fault, TypeOK
  <2>2. CASE log' = log
    <3>1. TypeOK'
      BY <2>1, <2>2 DEF TypeOK
    <3>2. Sorted' /\ OwnEvents' /\ PassKnows' /\ PassSettles'
      BY <2>1, <2>2 DEF Sorted, OwnEvents, PassKnows, PassSettles, Numbered, LastSeq
    <3> QED
      BY <3>1, <3>2
  <2>3. CASE abandon = "read" /\ OwnerIsGone /\ log' = Inserted([seq |-> next, kind |-> "lost"])
    <3>1. log' \in Seq(Event) /\ log' # <<>> /\ Sorted'
      BY <1>3, <2>3 DEF OwnerIsGone
    <3>2. TypeOK'
      BY <2>1, <3>1 DEF TypeOK
    <3>3. OwnEvents' /\ PassKnows' /\ PassSettles'
      BY <2>1, <2>3 DEF OwnerIsGone, OwnEvents, PassKnows, PassSettles
    <3> QED
      BY <3>1, <3>2, <3>3
  <2> QED
    BY <1>5, <2>2, <2>3 DEF PassFails
<1>6. CASE OwnerDies \/ ServerDies \/ PidChanges
  <2>1. wire' \in Seq(Event \cup {Eof, ReadError})
    <3>1. wire' = wire \/ wire' = <<>>
      BY <1>6 DEF OwnerDies, ServerDies, PidChanges, Cut
    <3> QED
      BY <1>0, <3>1, EmptySeq
  <2>2. /\ UNCHANGED <<embedded, closure, seq, store, abandon, next, cursor, after, shown>>
        /\ owner' \in {owner, "gone", "reused"}
        /\ server' \in {server, "down"} /\ stream' \in {stream, "closed"}
        /\ conn' \in {conn, "connecting"} /\ faults' \in 0..MaxFaults
    <3>1. CASE OwnerDies
      BY <3>1 DEF OwnerDies, Cut, Fault, TypeOK
    <3>2. CASE ServerDies
      BY <3>2 DEF ServerDies, Cut, Fault, TypeOK
    <3>3. CASE PidChanges
      BY <3>3 DEF PidChanges, TypeOK
    <3> QED
      BY <1>6, <3>1, <3>2, <3>3
  <2>a. lost' \in BOOLEAN
    <3>1. lost' = lost \/ lost' = (lost /\ abandon = "done")
      BY <1>6 DEF OwnerDies, ServerDies, PidChanges
    <3> QED
      BY <3>1 DEF TypeOK
  <2>3. TypeOK'
    BY <2>1, <2>2, <2>a DEF TypeOK
  <2>4. Sorted'
    BY <2>2 DEF Sorted
  <2>5. owner' = "alive" => owner = "alive"
    BY <1>6 DEF OwnerDies, ServerDies, PidChanges
  <2>6. OwnEvents'
    BY <2>2, <2>5 DEF OwnEvents, Numbered, LastSeq
  <2>7. lost' => lost /\ (abandon # "done" => owner' = owner \/ owner' = "gone")
    BY <1>6 DEF OwnerDies, ServerDies, PidChanges
  <2>8. PassKnows' /\ PassSettles'
    BY <2>2, <2>7 DEF PassKnows, PassSettles, LastSeq
  <2> QED
    BY <2>3, <2>4, <2>6, <2>8
<1>7. CASE Boot \/ ListRuns
  <2>1. /\ UNCHANGED <<run, store, next, stream, cursor, wire, browser, faults>>
        /\ server' \in {server, "up"} /\ abandon' \in {"todo", "listed", "done"} /\ lost' \in BOOLEAN
    BY <1>7 DEF Boot, ListRuns, TypeOK
  <2>2. TypeOK'
    BY <2>1 DEF TypeOK
  <2>3. Sorted' /\ OwnEvents'
    BY <2>1 DEF Sorted, OwnEvents, Numbered, LastSeq
  <2>4. /\ abandon' = "listed" => (lost' => owner = "gone")
        /\ abandon' = "done" => row = "settled"
    BY <1>7 DEF Boot, ListRuns, TypeOK
  <2>a. lost' => owner # "alive"
    <3>1. lost' => lost \/ owner = "gone"
      BY <1>7 DEF Boot, ListRuns
    <3> QED
      BY <3>1 DEF PassKnows
  <2>5. PassKnows' /\ PassSettles'
    BY <2>1, <2>4, <2>a DEF PassKnows, PassSettles
  <2> QED
    BY <2>2, <2>3, <2>5
<1>8. CASE ListEvents
  <2>1. /\ UNCHANGED <<run, store, lost, poll, wire, browser, faults>>
        /\ abandon = "listed" /\ abandon' = "read" /\ next' = LastSeq(log) + 1
    BY <1>8 DEF ListEvents, NextSeq
  <2>2. next' \in Seqs /\ LastSeq(log) < next' /\ next' \in Nat
    BY <1>0, <2>1 DEF Seqs
  <2>3. TypeOK'
    BY <2>1, <2>2 DEF TypeOK
  <2>4. Sorted' /\ OwnEvents' /\ PassSettles'
    BY <2>1 DEF Sorted, OwnEvents, Numbered, LastSeq, PassSettles
  <2>5. LastSeq(log)' = LastSeq(log) /\ ~(next' <= LastSeq(log))
    BY <1>0, <2>1 DEF LastSeq
  <2>6. PassKnows'
    BY <2>1, <2>2, <2>5 DEF PassKnows
  <2> QED
    BY <2>3, <2>4, <2>6
<1>9. CASE LeaveRun
  <2>1. TypeOK' /\ Sorted' /\ OwnEvents'
    BY <1>9 DEF LeaveRun, TypeOK, Sorted, OwnEvents, Numbered, LastSeq
  <2>2. PassKnows' /\ PassSettles'
    BY <1>9 DEF LeaveRun, OwnerIsGone, PassKnows, PassSettles
  <2> QED
    BY <2>1, <2>2
<1>10. CASE Poll
  <2>1. EventsAfter(cursor) \in Seq(Event)
    <3>1. cursor \in Nat
      BY DEF TypeOK, Seqs
    <3>2. Covered(cursor) \in 0..Len(log)
      BY <3>1, CoversCovered DEF Covers
    <3> QED
      BY <1>0, <3>2 DEF EventsAfter
  <2>2. EventsAfter(cursor) # <<>> => LastSeq(EventsAfter(cursor)) \in Seqs
    <3>1. PICK new : new = EventsAfter(cursor)
      OBVIOUS
    <3>2. ASSUME new # <<>> PROVE LastSeq(new) \in Seqs
      <4>1. Len(new) \in 1..Len(new)
        BY <2>1, <3>1, <3>2, EmptySeq
      <4>2. new[Len(new)] \in Event
        BY <2>1, <3>1, <4>1, ElementOfSeq
      <4> QED
        BY <4>2 DEF LastSeq, Event
    <3> QED
      BY <3>1, <3>2
  <2>3. wire' \in Seq(Event \cup {Eof, ReadError})
    <3>1. wire \o EventsAfter(cursor) \in Seq(Event \cup {Eof, ReadError})
      BY <2>1, ConcatProperties, SeqMonotonic DEF TypeOK
    <3>2. <<Eof>> \in Seq(Event \cup {Eof, ReadError}) /\ <<>> \in Seq(Event \cup {Eof, ReadError})
      OBVIOUS
    <3>3. \/ wire' = wire \o EventsAfter(cursor) \o <<Eof>>
          \/ wire' = wire \o EventsAfter(cursor) \o <<>>
      BY <1>10 DEF Poll
    <3> QED
      BY <3>1, <3>2, <3>3, ConcatProperties
  <2>4. TypeOK'
    BY <1>10, <2>2, <2>3 DEF Poll, TypeOK
  <2> QED
    BY <1>1, <1>10, <2>4 DEF Poll
<1>11. CASE CheckStatus \/ PollFails
  <2>1. wire' \in Seq(Event \cup {Eof, ReadError})
    <3>1. wire' \in {wire, Append(wire, Eof), wire \o <<ReadError, Eof>>}
      BY <1>11 DEF CheckStatus, PollFails
    <3>2. wire \in Seq(Event \cup {Eof, ReadError})
      BY DEF TypeOK
    <3>3. <<ReadError, Eof>> \in Seq(Event \cup {Eof, ReadError})
      OBVIOUS
    <3>4. Append(wire, Eof) \in Seq(Event \cup {Eof, ReadError})
      BY <3>2, AppendProperties
    <3>5. wire \o <<ReadError, Eof>> \in Seq(Event \cup {Eof, ReadError})
      BY <3>2, <3>3, ConcatProperties
    <3> QED
      BY <3>1, <3>2, <3>4, <3>5
  <2>2. /\ UNCHANGED <<run, store, boot, server, cursor, browser>>
        /\ stream' \in {"closed", "polling", "checking"} /\ faults' \in 0..MaxFaults
    BY <1>11, BoundsAssumption DEF CheckStatus, PollFails, Fault, TypeOK
  <2>3. TypeOK'
    BY <2>1, <2>2 DEF TypeOK
  <2> QED
    BY <1>1, <1>11, <2>3 DEF CheckStatus, PollFails
<1>12. CASE Load
  <2>1. shown' \in Seq(Seqs)
    BY <1>12, LogOrdered DEF Load
  <2>2. TypeOK'
    BY <1>0, <1>12, <2>1 DEF Load, TypeOK
  <2> QED
    BY <1>1, <1>12, <2>2 DEF Load
<1>13. CASE Connect \/ ConnectionLost
  <2>1. wire' \in Seq(Event \cup {Eof, ReadError})
    BY <1>13, EmptySeq DEF Connect, ConnectionLost, Cut
  <2>2. TypeOK'
    BY <1>13, <2>1 DEF Connect, ConnectionLost, Cut, Fault, TypeOK
  <2> QED
    BY <1>1, <1>13, <2>2 DEF Connect, ConnectionLost
<1>14. CASE Receive
  <2>1. Head(wire) \in Event \cup {Eof, ReadError} /\ Tail(wire) \in Seq(Event \cup {Eof, ReadError})
    BY <1>14, HeadTailProperties DEF Receive, TypeOK
  <2>2. wire' \in Seq(Event \cup {Eof, ReadError})
    BY <1>14, <2>1, EmptySeq DEF Receive
  <2>3. shown' \in Seq(Seqs)
    BY <1>14, <2>1, AppendProperties DEF Receive, Shows, TypeOK, Event
  <2>4. conn' \in {"open", "closed", "failed", "connecting"}
    BY <1>14 DEF Receive, AfterEof
  <2>5. TypeOK'
    BY <1>14, <2>2, <2>3, <2>4 DEF Receive, TypeOK
  <2> QED
    BY <1>1, <1>14, <2>5 DEF Receive
<1>15. CASE UNCHANGED vars
  BY <1>1, <1>15 DEF vars, TypeOK
<1> QED
  BY <1>2, <1>4, <1>5, <1>6, <1>7, <1>8, <1>9, <1>10, <1>11, <1>12, <1>13, <1>14, <1>15 DEF Next

(***************************************************************************)
(* The response and the browser.                                           *)
(***************************************************************************)

\* The URL of the page's EventSource asks for nothing the page could miss.
PageAsks ==
  conn # "away" => after <= LastSeq(log) /\ \E k \in 0..Len(shown) : Covers(after, k)

\* A response is polled for an open connection, up to some stored event.
Polling ==
  stream # "closed" =>
    conn = "open" /\ cursor <= LastSeq(log) /\ \E m \in 0..Len(log) : Covers(cursor, m)

\* What the browser shows are the first events.
ShowsPrefix ==
  Len(shown) <= Len(log) /\ \A i \in DOMAIN shown : shown[i] = log[i].seq

\* A page that goes on has a terminal event only if it was loaded with it.
LoadedEnds ==
  conn \in {"connecting", "open"} =>
    \A i \in DOMAIN shown : Ends(log[i]) => log[i].seq <= after

\* What the browser has still to read are the events after the j-th up to the
\* m-th, then the marks of the end; it has shown the first j, and asked for
\* none of them.
OnWire(j, m) ==
  /\ j \in 0..Len(log) /\ m \in 0..Len(log) /\ j <= m /\ j <= Len(shown)
  /\ m - j <= Len(wire)
  /\ \A i \in 1..(m - j) : wire[i] = log[j + i]
  /\ \A i \in (m - j + 1)..Len(wire) : wire[i] \in {Eof, ReadError}
  /\ stream # "closed" => Len(wire) = m - j /\ Covers(cursor, m)
  /\ \A i \in DOMAIN log : log[i].seq <= after => i <= j

PageInv ==
  /\ PageAsks /\ Polling /\ ShowsPrefix /\ LoadedEnds
  /\ conn = "open" => \E j, m \in 0..Len(log) : OnWire(j, m)

StreamInv == Numbered => PageInv

LEMMA InitStream == Init => StreamInv
<1> SUFFICES ASSUME Init PROVE StreamInv
  OBVIOUS
<1>1. Len(shown) = 0 /\ DOMAIN shown = {} /\ Len(log) = 1
  BY DEF Init
<1> QED
  BY <1>1 DEF Init, StreamInv, PageInv, PageAsks, Polling, ShowsPrefix, LoadedEnds

\* The events after a number that covers the first m of them.
LEMMA EventsAfterCovered ==
  ASSUME LogInv, NEW c \in Nat, NEW m, Covers(c, m)
  PROVE  /\ EventsAfter(c) \in Seq(Event)
         /\ Len(EventsAfter(c)) = Len(log) - m
         /\ \A i \in 1..(Len(log) - m) : EventsAfter(c)[i] = log[m + i]
         /\ EventsAfter(c) = <<>> <=> m = Len(log)
         /\ EventsAfter(c) # <<>> => LastSeq(EventsAfter(c)) = LastSeq(log)
<1>1. Len(log) \in Nat /\ Len(log) > 0 /\ log \in Seq(Event) /\ m \in 0..Len(log)
  BY LogOrdered DEF LogInv, Covers
<1>2. Covered(c) = m
  BY CoversOnce DEF LogInv
<1>3. m + 1 \in 1..(Len(log) + 1) /\ Len(log) \in m..Len(log)
  BY <1>1
<1>4. /\ EventsAfter(c) \in Seq(Event) /\ Len(EventsAfter(c)) = Len(log) - m
      /\ \A i \in 1..(Len(log) - m) : EventsAfter(c)[i] = log[m + i]
  BY <1>1, <1>2, <1>3 DEF EventsAfter
<1>5. EventsAfter(c) = <<>> <=> m = Len(log)
  <2>1. PICK s : s = EventsAfter(c)
    OBVIOUS
  <2>2. s \in Seq(Event) /\ Len(s) = Len(log) - m
    BY <1>4, <2>1
  <2>3. s = <<>> <=> Len(s) = 0
    BY <2>2, EmptySeq
  <2>4. Len(log) - m = 0 <=> m = Len(log)
    BY <1>1
  <2> QED
    BY <2>1, <2>2, <2>3, <2>4
<1>6. ASSUME m # Len(log) PROVE LastSeq(EventsAfter(c)) = LastSeq(log)
  <2>1. Len(log) - m \in 1..(Len(log) - m) /\ m + (Len(log) - m) = Len(log)
    BY <1>1, <1>6
  <2> QED
    BY <1>4, <2>1 DEF LastSeq
<1> QED
  BY <1>4, <1>5, <1>6

\* What a number covered it still covers when an event is recorded.
LEMMA CoversLater ==
  ASSUME LogInv, NEW n \in Seqs, NEW kind, n > LastSeq(log),
         log' = Append(log, [seq |-> n, kind |-> kind]),
         NEW c \in {0} \cup Seqs, NEW k, c <= LastSeq(log), Covers(c, k)
  PROVE  k \in 0..Len(log') /\ \A i \in DOMAIN log' : i <= k <=> log'[i].seq <= c
<1>1. /\ log \in Seq(Event) /\ Len(log) \in Nat /\ LastSeq(log) \in Int /\ n \in Int /\ c \in Int
  BY LogOrdered DEF LogInv, TypeOK, Seqs
<1>2. /\ Len(log') = Len(log) + 1 /\ DOMAIN log' = 1..(Len(log) + 1)
      /\ \A i \in 1..Len(log) : log'[i] = log[i]
      /\ log'[Len(log) + 1] = [seq |-> n, kind |-> kind]
  BY <1>1
<1>3. k \in 0..Len(log) /\ \A i \in 1..Len(log) : i <= k <=> log[i].seq <= c
  BY <1>1 DEF Covers
<1>4. ~(Len(log) + 1 <= k) /\ ~(log'[Len(log) + 1].seq <= c)
  BY <1>1, <1>2, <1>3
<1>5. ASSUME NEW i \in 1..(Len(log) + 1) PROVE i <= k <=> log'[i].seq <= c
  <2>1. CASE i \in 1..Len(log)
    BY <1>2, <1>3, <2>1
  <2>2. CASE i = Len(log) + 1
    BY <1>4, <2>2
  <2> QED
    BY <1>1, <2>1, <2>2
<1>6. k \in 0..Len(log')
  BY <1>1, <1>2, <1>3
<1> QED
  BY <1>2, <1>5, <1>6

\* A recorded event changes nothing for the browser, whose request may fail.
LEMMA StreamOfGrowingLog ==
  ASSUME LogInv, PageInv, NEW n \in Seqs, NEW kind, n > LastSeq(log),
         log' = Append(log, [seq |-> n, kind |-> kind]), LastSeq(log') = n,
         UNCHANGED <<stream, cursor, wire, after, shown>>,
         conn' = conn \/ (conn = "connecting" /\ conn' = "failed")
  PROVE  PageInv'
<1>1. /\ log \in Seq(Event) /\ Len(log) \in Nat /\ Len(log') = Len(log) + 1
      /\ \A i \in 1..Len(log) : log'[i] = log[i]
      /\ shown \in Seq(Seqs) /\ Len(shown) \in Nat
  BY DEF LogInv, TypeOK
<1>2. /\ LastSeq(log) \in Int /\ n \in Int
      /\ after \in {0} \cup Seqs /\ after \in Int /\ cursor \in {0} \cup Seqs /\ cursor \in Int
  BY LogOrdered DEF LogInv, TypeOK, Seqs
<1>3. PageAsks'
  <2> SUFFICES ASSUME conn' # "away"
      PROVE after <= n /\ \E k \in 0..Len(shown) : Covers(after, k)'
    BY DEF PageAsks
  <2>a. conn # "away"
    OBVIOUS
  <2>1. PICK k \in 0..Len(shown) : Covers(after, k)
    BY <2>a DEF PageInv, PageAsks
  <2>2. after <= LastSeq(log)
    BY <2>a DEF PageInv, PageAsks
  <2>3. Covers(after, k)'
    BY <1>2, <2>1, <2>2, CoversLater DEF Covers
  <2> QED
    BY <1>2, <2>2, <2>3
<1>4. Polling'
  <2> SUFFICES ASSUME stream # "closed"
      PROVE conn = "open" /\ cursor <= n /\ \E m \in 0..Len(log') : Covers(cursor, m)'
    BY DEF Polling
  <2>1. PICK m \in 0..Len(log) : Covers(cursor, m)
    BY DEF PageInv, Polling
  <2>2. cursor <= LastSeq(log) /\ conn = "open"
    BY DEF PageInv, Polling
  <2>3. Covers(cursor, m)'
    BY <1>2, <2>1, <2>2, CoversLater DEF Covers
  <2> QED
    BY <1>1, <1>2, <2>2, <2>3
<1>5. ShowsPrefix'
  BY <1>1 DEF PageInv, ShowsPrefix
<1>a. LoadedEnds'
  <2> SUFFICES ASSUME conn' \in {"connecting", "open"}, NEW i \in DOMAIN shown, Ends(log'[i])
               PROVE  log'[i].seq <= after
    BY DEF LoadedEnds
  <2>1. i \in 1..Len(log) /\ conn \in {"connecting", "open"}
    BY <1>1 DEF PageInv, ShowsPrefix
  <2> QED
    BY <1>1, <2>1 DEF PageInv, LoadedEnds
<1>6. ASSUME conn' = "open" PROVE \E j, m \in 0..Len(log') : OnWire(j, m)'
  <2>1. PICK j, m \in 0..Len(log) : OnWire(j, m)
    BY <1>6 DEF PageInv
  <2>2. stream # "closed" => Covers(cursor, m)'
    BY <1>2, <2>1, CoversLater DEF Covers, PageInv, Polling, OnWire
  <2>3. \A i \in 1..(m - j) : wire[i] = log'[j + i]
    BY <1>1, <2>1 DEF OnWire
  <2>b. ASSUME NEW i \in DOMAIN log', log'[i].seq <= after PROVE i <= j
    <3>1. after <= LastSeq(log)
      BY <1>6 DEF PageInv, PageAsks
    <3>2. i # Len(log) + 1
      BY <1>2, <2>b, <3>1
    <3>3. i \in DOMAIN log /\ log'[i] = log[i]
      BY <1>1, <3>2
    <3> QED
      BY <2>1, <2>b, <3>3 DEF OnWire
  <2>4. OnWire(j, m)'
    BY <1>1, <2>1, <2>2, <2>3, <2>b DEF OnWire
  <2> QED
    BY <1>1, <2>4
<1> QED
  BY <1>3, <1>4, <1>5, <1>6, <1>a DEF PageInv

\* A response that ends takes the connection and what was on it away.
LEMMA StreamOfCut ==
  ASSUME PageInv, UNCHANGED <<log, after, shown>>, conn' # "open", stream' = "closed",
         conn' # "away" => conn # "away", conn' = "connecting" => conn \in {"connecting", "open"}
  PROVE  PageInv'
  BY DEF PageInv, PageAsks, Polling, ShowsPrefix, LoadedEnds, Covers, LastSeq

\* One element after a sequence.
LEMMA OneMore ==
  ASSUME NEW S, NEW e \in S, NEW w \in Seq(S)
  PROVE  /\ Len(w \o <<e>>) = Len(w) + 1 /\ (w \o <<e>>)[Len(w) + 1] = e
         /\ \A i \in 1..Len(w) : (w \o <<e>>)[i] = w[i]
<1>1. Append(w, e) = w \o <<e>>
  BY AppendIsConcat
<1>2. /\ Len(Append(w, e)) = Len(w) + 1 /\ Append(w, e)[Len(w) + 1] = e
      /\ \A i \in 1..Len(w) : Append(w, e)[i] = w[i]
  BY AppendProperties
<1> QED
  BY <1>1, <1>2

\* A poll puts the rest of the log on the wire.
LEMMA StreamOfPoll ==
  ASSUME LogInv, PageInv, Poll
  PROVE  PageInv'
<1> USE DEF store, browser, run
<1>1. conn = "open" /\ stream = "polling" /\ UNCHANGED <<log, conn, after, shown>>
  BY DEF Poll, PageInv, Polling
<1>2. PICK j, m \in 0..Len(log) : OnWire(j, m)
  BY <1>1 DEF PageInv
<1>3. /\ Covers(cursor, m) /\ Len(wire) = m - j /\ j <= m /\ j <= Len(shown)
      /\ \A i \in 1..(m - j) : wire[i] = log[j + i]
      /\ \A i \in DOMAIN log : log[i].seq <= after => i <= j
  BY <1>1, <1>2 DEF OnWire
<1>a. PICK new : new = EventsAfter(cursor)
  OBVIOUS
<1>4. /\ new \in Seq(Event) /\ Len(new) = Len(log) - m
      /\ \A i \in 1..(Len(log) - m) : new[i] = log[m + i]
      /\ new = <<>> <=> m = Len(log)
      /\ new # <<>> => LastSeq(new) = LastSeq(log)
  <2>1. Covers(cursor, m) /\ cursor \in Nat
    BY <1>3 DEF LogInv, TypeOK, Seqs
  <2>2. new \in Seq(Event)
    BY <2>1, <1>a, EventsAfterCovered
  <2>3. Len(new) = Len(log) - m
    BY <2>1, <1>a, EventsAfterCovered
  <2>4. \A i \in 1..(Len(log) - m) : new[i] = log[m + i]
    BY <2>1, <1>a, EventsAfterCovered
  <2>5. new = <<>> <=> m = Len(log)
    BY <2>1, <1>a, EventsAfterCovered
  <2>6. new # <<>> => LastSeq(new) = LastSeq(log)
    BY <2>1, <1>a, EventsAfterCovered
  <2> QED
    BY <2>2, <2>3, <2>4, <2>5, <2>6
<1>5. Covers(LastSeq(log), Len(log)) /\ Len(log) \in Nat
  <2>1. \A i \in DOMAIN log : i <= Len(log) /\ log[i].seq <= LastSeq(log)
    BY LogOrdered DEF LogInv
  <2> QED
    BY <2>1, LogOrdered DEF LogInv, Covers
<1>6. /\ cursor' = (IF new = <<>> THEN cursor ELSE LastSeq(log))
      /\ Covers(cursor, m) => new # <<>> \/ Covers(cursor, Len(log))
      /\ cursor <= LastSeq(log) /\ LastSeq(log) <= LastSeq(log)
  BY <1>1, <1>3, <1>4, <1>a, LogOrdered DEF Poll, PageInv, Polling, LogInv, Seqs
<1>7. Covers(cursor', Len(log)) /\ cursor' <= LastSeq(log)
  BY <1>3, <1>4, <1>5, <1>6
<1>8. Covers(cursor, Len(log))' /\ Polling'
  BY <1>1, <1>5, <1>7 DEF Covers, Polling, LastSeq
<1>9. PageAsks' /\ ShowsPrefix' /\ LoadedEnds'
  BY <1>1 DEF PageInv, PageAsks, ShowsPrefix, LoadedEnds, Covers, LastSeq
<1>10. /\ wire \in Seq(Event \cup {Eof, ReadError})
       /\ Len(wire \o new) = Len(log) - j
       /\ \A i \in 1..(Len(log) - j) : (wire \o new)[i] = log[j + i]
  <2>1. wire \in Seq(Event \cup {Eof, ReadError}) /\ j \in Nat /\ m \in Nat
    BY <1>2 DEF LogInv, TypeOK
  <2>2. /\ Len(wire \o new) = Len(log) - j
        /\ \A i \in 1..(m - j) : (wire \o new)[i] = wire[i]
        /\ \A i \in (m - j + 1)..(Len(log) - j) : (wire \o new)[i] = new[i - (m - j)]
    <3>1. Len(wire) = m - j /\ Len(new) = Len(log) - m /\ Len(log) \in Nat
      BY <1>3, <1>4, <1>5
    <3>2. new \in Seq(Event \cup {Eof, ReadError})
      BY <1>4, SeqMonotonic
    <3>3. /\ Len(wire \o new) = Len(wire) + Len(new)
          /\ \A i \in 1..(Len(wire) + Len(new)) :
               (wire \o new)[i] = IF i <= Len(wire) THEN wire[i] ELSE new[i - Len(wire)]
      BY <2>1, <3>2, ConcatProperties
    <3>4. Len(wire \o new) = Len(log) - j
      BY <2>1, <3>1, <3>3
    <3>5. ASSUME NEW i \in 1..(m - j) PROVE (wire \o new)[i] = wire[i]
      <4>1. i \in 1..(Len(wire) + Len(new)) /\ i <= Len(wire)
        BY <2>1, <3>1, <1>3
      <4> QED
        BY <4>1, <3>3, Zenon
    <3>6. ASSUME NEW i \in (m - j + 1)..(Len(log) - j)
          PROVE (wire \o new)[i] = new[i - (m - j)]
      <4>1. i \in 1..(Len(wire) + Len(new)) /\ ~(i <= Len(wire))
        BY <2>1, <3>1, <1>3
      <4> QED
        BY <4>1, <3>1, <3>3, Zenon
    <3> QED
      BY <3>4, <3>5, <3>6
  <2>3. ASSUME NEW i \in 1..(Len(log) - j) PROVE (wire \o new)[i] = log[j + i]
    <3>1. CASE i \in 1..(m - j)
      BY <3>1, <2>2, <1>3
    <3>2. CASE i \in (m - j + 1)..(Len(log) - j)
      <4>1. i - (m - j) \in 1..(Len(log) - m) /\ m + (i - (m - j)) = j + i
        BY <3>2, <2>1, <1>5
      <4>2. new[i - (m - j)] = log[m + (i - (m - j))]
        BY <4>1, <1>4, Zenon
      <4>3. (wire \o new)[i] = new[i - (m - j)]
        BY <3>2, <2>2, Zenon
      <4> QED
        BY <4>1, <4>2, <4>3, Zenon
    <3>3. Len(log) \in Nat /\ i \in 1..(Len(log) - j)
      BY <1>5
    <3>4. i \in 1..(m - j) \/ i \in (m - j + 1)..(Len(log) - j)
      BY <3>3, <2>1
    <3> QED
      BY <3>1, <3>2, <3>4
  <2> QED
    BY <2>1, <2>2, <2>3
<1>11. OnWire(j, Len(log))'
  <2>1. j <= Len(log) /\ Len(shown) \in Nat /\ j \in Nat
    BY <1>2, <1>5 DEF LogInv, TypeOK
  <2>a. (\A i \in DOMAIN log : log[i].seq <= after => i <= j)'
    BY <1>1, <1>3
  <2>2. CASE ~Terminal(new)
    <3>1. wire' = wire \o new
      BY <2>2, <1>a, <1>4, <1>10 DEF Poll
    <3> QED
      BY <3>1, <2>1, <2>a, <1>1, <1>3, <1>5, <1>8, <1>10 DEF OnWire
  <2>3. CASE Terminal(new)
    <3>1. wire' = (wire \o new) \o <<Eof>> /\ stream' = "closed"
      BY <2>3, <1>a DEF Poll
    <3>2. /\ Len(wire') = Len(log) - j + 1
          /\ \A i \in 1..(Len(log) - j) : wire'[i] = log[j + i]
          /\ wire'[Len(log) - j + 1] = Eof
      <4>1. wire \o new \in Seq(Event \cup {Eof, ReadError}) /\ <<Eof>> \in Seq({Eof})
        BY <1>4, <1>10, ConcatProperties, SeqMonotonic
      <4>a. PICK w : w = wire \o new
        OBVIOUS
      <4>2. /\ w \in Seq(Event \cup {Eof, ReadError}) /\ Len(w) = Len(log) - j
            /\ \A i \in 1..(Len(log) - j) : w[i] = log[j + i]
            /\ wire' = w \o <<Eof>>
        BY <3>1, <4>1, <4>a, <1>10
      <4>3. /\ Len(wire') = Len(w) + 1 /\ wire'[Len(w) + 1] = Eof
            /\ \A i \in 1..Len(w) : wire'[i] = w[i]
        BY <4>2, OneMore
      <4> QED
        BY <4>2, <4>3, <2>1, <1>5
    <3>3. \A i \in (Len(log) - j + 1)..Len(wire') : wire'[i] \in {Eof, ReadError}
      BY <3>2, <2>1, <1>5
    <3>4. UNCHANGED <<log, shown>> /\ Len(log) - j <= Len(wire')
      BY <3>2, <2>1, <1>1, <1>5
    <3>5. Len(log)' = Len(log) /\ Len(log) \in 0..Len(log) /\ j \in 0..Len(log)
      BY <3>4, <2>1, <1>5
    <3> QED
      BY <3>1, <3>2, <3>3, <3>4, <3>5, <2>1, <2>a, <1>3 DEF OnWire
  <2> QED
    BY <2>2, <2>3
<1> QED
  BY <1>1, <1>2, <1>5, <1>8, <1>9, <1>11 DEF PageInv

\* The browser drops what it has shown and appends the rest.
LEMMA StreamOfReceive ==
  ASSUME LogInv, LogInv', PageInv, Numbered, Receive
  PROVE  PageInv'
<1> USE DEF run, store
<1> DEFINE e == Head(wire)
<1>1. /\ conn = "open" /\ wire # <<>> /\ UNCHANGED <<log, cursor, after>>
      /\ shown' = IF e \in {Eof, ReadError} THEN shown ELSE Shows(e)
      /\ wire' = IF conn' = "open" THEN Tail(wire) ELSE <<>>
      /\ stream' = IF conn' = "open" THEN stream ELSE "closed"
      /\ conn' # "away"
  BY DEF Receive, AfterEof
<1>2. /\ wire \in Seq(Event \cup {Eof, ReadError}) /\ shown \in Seq(Seqs)
      /\ Len(shown) \in Nat /\ Len(log) \in Nat /\ DOMAIN shown = 1..Len(shown)
      /\ Len(wire) \in Nat /\ Len(wire) > 0 /\ e = wire[1]
  BY <1>1 DEF LogInv, TypeOK
<1>3. PICK j, m \in 0..Len(log) : OnWire(j, m)
  BY <1>1 DEF PageInv
<1>4. /\ j \in Nat /\ m \in Nat /\ j <= m /\ m <= Len(log) /\ j <= Len(shown) /\ m - j <= Len(wire)
      /\ \A i \in 1..(m - j) : wire[i] = log[j + i]
      /\ \A i \in (m - j + 1)..Len(wire) : wire[i] \in {Eof, ReadError}
      /\ stream # "closed" => Len(wire) = m - j /\ Covers(cursor, m)
      /\ \A i \in DOMAIN log : log[i].seq <= after => i <= j
  BY <1>3 DEF OnWire
<1>5. \A i \in 1..Len(log) : log[i].seq \in Seqs /\ log[i] \notin {Eof, ReadError}
  BY LogOrdered DEF LogInv, Kinds, Eof, ReadError
<1>6. Len(shown) <= Len(log) /\ \A i \in 1..Len(shown) : shown[i] = log[i].seq
  BY <1>2 DEF PageInv, ShowsPrefix
<1>7. CASE j = m
  <2>1. e \in {Eof, ReadError}
    BY <1>2, <1>4, <1>7
  <2>2. conn' # "open" /\ stream' = "closed" /\ shown' = shown
    BY <2>1, <1>1 DEF Receive, AfterEof, Eof, ReadError
  <2> QED
    BY <2>2, <1>1, StreamOfCut
<1>8. CASE j < m
  <2>1. j + 1 \in 1..Len(log) /\ e = log[j + 1] /\ e \notin {Eof, ReadError} /\ e.seq \in Seqs
    <3>1. 1 \in 1..(m - j) /\ j + 1 \in 1..Len(log)
      BY <1>2, <1>4, <1>8
    <3> QED
      BY <3>1, <1>2, <1>4, <1>5
  <2>2. shown' = Shows(e)
    BY <2>1, <1>1
  <2>3. /\ Len(shown') \in Nat /\ Len(shown') >= Len(shown) /\ Len(shown') >= j + 1
        /\ ShowsPrefix'
    <3>1. CASE j < Len(shown)
      <4>1. j + 1 \in DOMAIN shown /\ shown[j + 1] = e.seq
        BY <3>1, <2>1, <1>2, <1>4, <1>6
      <4>2. shown' = shown
        BY <4>1, <2>2 DEF Shows
      <4> QED
        BY <4>2, <3>1, <1>1, <1>2, <1>4 DEF PageInv, ShowsPrefix
    <3>2. CASE j = Len(shown)
      <4>1. ASSUME NEW i \in DOMAIN shown PROVE shown[i] # e.seq
        <5>1. i \in 1..Len(log) /\ i < j + 1 /\ DOMAIN log = 1..Len(log)
          BY <3>2, <1>2, <1>6, LogOrdered DEF LogInv
        <5>2. log[i].seq < log[j + 1].seq
          BY <5>1, <2>1 DEF Numbered
        <5>3. log[i].seq \in Int /\ log[j + 1].seq \in Int
          BY <5>1, <2>1, <1>5 DEF Seqs
        <5> QED
          BY <5>2, <5>3, <2>1, <1>2, <1>6
      <4>2. shown' = Append(shown, e.seq)
        BY <4>1, <2>2 DEF Shows
      <4>3. /\ Len(shown') = Len(shown) + 1 /\ shown'[Len(shown) + 1] = e.seq
            /\ \A i \in 1..Len(shown) : shown'[i] = shown[i]
            /\ DOMAIN shown' = 1..(Len(shown) + 1)
        BY <4>2, <2>1, <1>2
      <4>4. ASSUME NEW i \in DOMAIN shown' PROVE shown'[i] = log[i].seq
        <5>1. CASE i \in 1..Len(shown)
          BY <5>1, <4>3, <1>6
        <5>2. CASE i = Len(shown) + 1
          BY <5>2, <4>3, <3>2, <2>1
        <5> QED
          BY <5>1, <5>2, <4>3, <1>2
      <4>5. Len(shown') <= Len(log)
        BY <4>3, <3>2, <2>1, <1>2
      <4> QED
        BY <4>3, <4>4, <4>5, <3>2, <1>1, <1>2 DEF ShowsPrefix
    <3>3. j < Len(shown) \/ j = Len(shown)
      <4>1. j \in Int /\ Len(shown) \in Int /\ j <= Len(shown)
        BY <1>2, <1>4
      <4>2. \A a, b \in Int : a <= b => a < b \/ a = b
        OBVIOUS
      <4> QED
        BY ONLY <4>1, <4>2, Zenon
    <3> QED
      BY <3>1, <3>2, <3>3
  <2>4. PageAsks'
    <3>1. after <= LastSeq(log) /\ \E k \in 0..Len(shown) : Covers(after, k)
      BY <1>1 DEF PageInv, PageAsks
    <3>2. PICK k \in 0..Len(shown) : Covers(after, k)
      BY <3>1
    <3>3. Covers(after, k)' /\ k \in 0..Len(shown') /\ (after <= LastSeq(log))'
      BY <3>1, <3>2, <2>3, <1>1, <1>2 DEF Covers, LastSeq
    <3> QED
      BY <3>3 DEF PageAsks
  <2>a. LoadedEnds'
    <3> SUFFICES ASSUME conn' \in {"connecting", "open"}, NEW i \in DOMAIN shown', Ends(log[i])
                 PROVE  log[i].seq <= after
      BY <1>1 DEF LoadedEnds
    <3>1. ~Ends(e)
      <4>1. Ends(e) => ~(e.kind = "error") /\ ~(e.kind = "eof")
        BY DEF Ends
      <4>2. Ends(e) => conn' = "closed"
        BY <4>1 DEF Receive
      <4> QED
        BY <4>2
    <3>2. CASE shown' = shown
      BY <1>1, <3>2 DEF PageInv, LoadedEnds
    <3>3. CASE j = Len(shown) /\ shown' = Append(shown, e.seq)
      <4>1. i \in 1..Len(shown) \/ i = j + 1
        BY <1>2, <2>1, <3>3
      <4>2. i # j + 1
        BY <2>1, <3>1
      <4> QED
        BY <1>1, <1>2, <4>1, <4>2 DEF PageInv, LoadedEnds
    <3>4. CASE j < Len(shown)
      <4>1. j + 1 \in DOMAIN shown /\ shown[j + 1] = e.seq
        BY <1>2, <1>4, <1>6, <2>1, <3>4
      <4>2. shown' = shown
        BY <2>2, <4>1 DEF Shows
      <4> QED
        BY <3>2, <4>2
    <3>5. shown' = shown \/ shown' = Append(shown, e.seq)
      BY <2>2 DEF Shows
    <3>6. j < Len(shown) \/ j = Len(shown)
      <4>1. j \in Nat /\ Len(shown) \in Nat /\ j <= Len(shown)
        BY <1>2, <1>4
      <4> HIDE DEF e
      <4> QED
        BY ONLY <4>1
    <3> QED
      BY <3>2, <3>3, <3>4, <3>5, <3>6
  <2>5. CASE conn' # "open"
    BY <2>5, <2>3, <2>4, <2>a, <1>1 DEF PageInv, Polling
  <2>6. CASE conn' = "open"
    <3>1. wire' = Tail(wire) /\ stream' = stream
      BY <2>6, <1>1
    <3>2. Len(wire') = Len(wire) - 1 /\ \A i \in 1..(Len(wire) - 1) : wire'[i] = wire[i + 1]
      BY <3>1, <1>1, <1>2, HeadTailProperties
    <3>3. \A i \in 1..(m - (j + 1)) : wire'[i] = log'[(j + 1) + i]
      <4> TAKE i \in 1..(m - (j + 1))
      <4>0. /\ j \in Nat /\ m \in Nat /\ Len(wire) \in Nat
            /\ j <= m /\ m - j <= Len(wire)
        BY <1>2, <1>4
      <4>1. i + 1 \in 1..(m - j) /\ i \in 1..(Len(wire) - 1) /\ j + (i + 1) = (j + 1) + i
        BY <4>0
      <4> QED
        BY <4>1, <3>2, <1>1, <1>4
    <3>4. \A i \in (m - (j + 1) + 1)..Len(wire') : wire'[i] \in {Eof, ReadError}
      <4> TAKE i \in (m - (j + 1) + 1)..Len(wire')
      <4>1. i + 1 \in (m - j + 1)..Len(wire) /\ i \in 1..(Len(wire) - 1)
        BY <1>2, <1>4, <1>8, <3>2
      <4> QED
        BY <4>1, <3>2, <1>4
    <3>5. stream' # "closed" => Len(wire') = m - (j + 1) /\ Covers(cursor, m)'
      BY <3>1, <3>2, <1>1, <1>2, <1>4 DEF Covers
    <3>6. /\ j + 1 \in 0..Len(log') /\ m \in 0..Len(log') /\ j + 1 <= m /\ j + 1 <= Len(shown')
          /\ m - (j + 1) <= Len(wire')
      BY <3>2, <2>3, <1>1, <1>2, <1>4, <1>8
    <3>7. OnWire(j + 1, m)'
      <4>1. \A i \in DOMAIN log : log[i].seq <= after => i <= j + 1
        BY <1>4, LogOrdered DEF LogInv
      <4> QED
        BY <1>1, <3>3, <3>4, <3>5, <3>6, <4>1 DEF OnWire
    <3>8. Polling'
      BY <3>1, <2>6, <1>1 DEF PageInv, Polling, Covers, LastSeq
    <3> QED
      BY <3>6, <3>7, <3>8, <2>3, <2>4, <2>a DEF PageInv
  <2> QED
    BY <2>5, <2>6
<1> QED
  BY <1>4, <1>7, <1>8

\* An event that the pass records is at the end if the numbers are in order.
LEMMA StreamOfLostEvent ==
  ASSUME LogInv, StreamInv, abandon = "read", Numbered',
         log' = Inserted([seq |-> next, kind |-> "lost"]),
         UNCHANGED <<stream, cursor, wire, after, shown>>,
         conn' = conn \/ (conn = "connecting" /\ conn' = "failed")
  PROVE  PageInv'
<1>1. LastSeq(log) < next /\ next \in Seqs
  BY StaleNumberShows DEF LogInv, PassKnows
<1>2. log' = Append(log, [seq |-> next, kind |-> "lost"])
  BY <1>1, LogInserted DEF LogInv
<1>3. next > LastSeq(log) /\ "lost" \in Kinds
  BY <1>1, LogOrdered DEF LogInv, Seqs, Kinds
<1>4. Numbered
  BY <1>1, <1>2, <1>3, NumberedGrows DEF LogInv
<1>5. LastSeq(log') = next
  BY <1>1, <1>2, <1>3, LogGrows DEF LogInv
<1> QED
  BY <1>1, <1>2, <1>3, <1>4, <1>5, StreamOfGrowingLog DEF StreamInv

LEMMA StepStream == LogInv /\ LogInv' /\ StreamInv /\ [Next]_vars => StreamInv'
<1> SUFFICES ASSUME LogInv, LogInv', StreamInv, [Next]_vars, Numbered' PROVE PageInv'
  BY DEF StreamInv
<1> USE DEF run, store, boot, poll, browser
<1>a. ASSUME UNCHANGED log PROVE PageInv
  BY <1>a DEF StreamInv, Numbered
<1>1. ASSUME UNCHANGED <<log, stream, cursor, wire, after, shown>>,
             conn' = conn \/ (conn = "connecting" /\ conn' = "failed")
      PROVE  PageInv'
  <2>1. PageAsks' /\ Polling' /\ ShowsPrefix' /\ LoadedEnds'
    BY <1>a, <1>1 DEF PageInv, PageAsks, Polling, ShowsPrefix, LoadedEnds, Covers, LastSeq
  <2>2. ASSUME conn' = "open" PROVE \E j, m \in 0..Len(log') : OnWire(j, m)'
    BY <1>a, <1>1, <2>2 DEF PageInv, OnWire, Covers
  <2> QED
    BY <2>1, <2>2 DEF PageInv
<1>2. ASSUME NEW k \in {"step", "end"}, Emit(k) PROVE PageInv'
  <2>1. CASE UNCHANGED log
    BY <1>1, <1>2, <2>1 DEF Emit
  <2>2. CASE log' = Append(log, [seq |-> seq + 1, kind |-> k])
    <3>1. seq + 1 \in Seqs /\ seq + 1 > LastSeq(log) /\ k \in Kinds
      BY <1>2, LogOrdered DEF Emit, LogInv, OwnEvents, TypeOK, Seqs, Kinds
    <3>2. LastSeq(log') = seq + 1
      BY <2>2, <3>1, LogGrows DEF LogInv
    <3>3. PageInv
      BY <2>2, <3>1, NumberedGrows DEF LogInv, StreamInv
    <3> QED
      BY <1>2, <2>2, <3>1, <3>2, <3>3, StreamOfGrowingLog DEF Emit
  <2> QED
    BY <1>2, <2>1, <2>2 DEF Emit, Recorded
<1>3. CASE FailLostRun
  BY <1>3, StreamOfLostEvent DEF FailLostRun
<1>4. CASE PassFails
  <2>1. /\ UNCHANGED <<stream, cursor, wire, after, shown>>
        /\ conn' = conn \/ (conn = "connecting" /\ conn' = "failed")
    BY <1>4 DEF PassFails
  <2>2. CASE UNCHANGED log
    BY <1>1, <2>1, <2>2
  <2>3. CASE abandon = "read" /\ log' = Inserted([seq |-> next, kind |-> "lost"])
    BY <2>1, <2>3, StreamOfLostEvent
  <2> QED
    BY <1>4, <2>2, <2>3 DEF PassFails
<1>5. CASE OwnerDies
  <2>1. CASE embedded
    BY <1>a, <1>5, <2>1, StreamOfCut DEF OwnerDies, Cut
  <2>2. CASE ~embedded
    BY <1>1, <1>5, <2>2 DEF OwnerDies
  <2> QED
    BY <2>1, <2>2
<1>6. CASE ServerDies \/ ConnectionLost
  BY <1>a, <1>6, StreamOfCut DEF ServerDies, ConnectionLost, Cut
<1>7. CASE PidChanges \/ Boot \/ ListRuns \/ ListEvents \/ LeaveRun
  BY <1>1, <1>7 DEF PidChanges, Boot, ListRuns, ListEvents, LeaveRun
<1>8. CASE Poll
  <2>1. UNCHANGED log
    BY <1>8 DEF Poll
  <2> QED
    BY <1>a, <1>8, <2>1, StreamOfPoll
<1>9. CASE CheckStatus \/ PollFails
  <2>0. PageInv
    BY <1>a, <1>9 DEF CheckStatus, PollFails
  <2>1. /\ conn = "open" /\ stream # "closed" /\ UNCHANGED <<log, cursor, conn, after, shown>>
        /\ \/ stream' = "polling" /\ wire' = wire
           \/ stream' = "closed" /\ wire' \in {Append(wire, Eof), wire \o <<ReadError, Eof>>}
    BY <1>9, <2>0 DEF CheckStatus, PollFails, PageInv, Polling
  <2>2. PageAsks' /\ Polling' /\ ShowsPrefix' /\ LoadedEnds'
    BY <2>0, <2>1 DEF PageInv, PageAsks, Polling, ShowsPrefix, LoadedEnds, Covers, LastSeq
  <2>3. PICK j, m \in 0..Len(log) : OnWire(j, m)
    BY <2>0, <2>1 DEF PageInv
  <2>4. /\ Len(wire') \in Nat /\ Len(wire') >= Len(wire)
        /\ \A i \in 1..Len(wire) : wire'[i] = wire[i]
        /\ \A i \in (Len(wire) + 1)..Len(wire') : wire'[i] \in {Eof, ReadError}
    <3>1. wire \in Seq(Event \cup {Eof, ReadError})
      BY DEF LogInv, TypeOK
    <3>2. CASE wire' = wire
      BY <3>1, <3>2
    <3>3. CASE wire' = Append(wire, Eof)
      BY <3>1, <3>3
    <3>4. CASE wire' = wire \o <<ReadError, Eof>>
      BY <3>1, <3>4
    <3> QED
      BY <2>1, <3>2, <3>3, <3>4
  <2>5. OnWire(j, m)'
    <3>1. /\ j <= m /\ j <= Len(shown) /\ Len(wire) = m - j /\ Covers(cursor, m)
          /\ \A i \in 1..(m - j) : wire[i] = log[j + i]
          /\ \A i \in DOMAIN log : log[i].seq <= after => i <= j
      BY <2>1, <2>3 DEF OnWire
    <3>2. stream' # "closed" => Len(wire') = m - j
      BY <2>1, <3>1
    <3>3. Covers(cursor, m)'
      BY <2>1, <3>1 DEF Covers
    <3> QED
      BY <2>1, <2>3, <2>4, <3>1, <3>2, <3>3 DEF OnWire
  <2> QED
    BY <2>1, <2>2, <2>5 DEF PageInv
<1>10. CASE Load
  <2>0. PageInv
    BY <1>a, <1>10 DEF Load
  <2>1. /\ conn' = "connecting" /\ after' = LastSeq(log) /\ UNCHANGED <<log, stream, cursor, wire>>
        /\ shown' = [i \in 1..Len(log) |-> log[i].seq]
        /\ stream = "closed"
    BY <1>10, <2>0, LogOrdered DEF Load, PageInv, Polling, LogInv
  <2>2. Len(shown') = Len(log) /\ DOMAIN shown' = 1..Len(log)
    BY <2>1, LogOrdered DEF LogInv
  <2>3. ShowsPrefix' /\ LoadedEnds'
    BY <2>1, <2>2, LogOrdered DEF ShowsPrefix, LoadedEnds, LogInv
  <2>4. PageAsks'
    <3>1. Covers(LastSeq(log), Len(log)) /\ Len(log) \in 0..Len(log) /\ LastSeq(log) <= LastSeq(log)
      <4>1. \A i \in DOMAIN log : i <= Len(log) /\ log[i].seq <= LastSeq(log)
        BY LogOrdered DEF LogInv
      <4> QED
        BY <4>1, LogOrdered DEF LogInv, Covers, Seqs
    <3> QED
      BY <2>1, <2>2, <3>1 DEF PageAsks, Covers, LastSeq
  <2> QED
    BY <2>1, <2>3, <2>4 DEF PageInv, Polling
<1>11. CASE Connect
  <2>0. PageInv
    BY <1>a, <1>11 DEF Connect
  <2>1. /\ conn = "connecting" /\ conn' = "open" /\ stream' = "polling" /\ cursor' = after
        /\ wire' = <<>> /\ UNCHANGED <<log, after, shown>>
    BY <1>11 DEF Connect
  <2>2. PICK k \in 0..Len(shown) : Covers(after, k)
    BY <2>0, <2>1 DEF PageInv, PageAsks
  <2>3. after <= LastSeq(log) /\ k \in 0..Len(log) /\ Len(wire') = 0 /\ Len(shown) \in Nat
    BY <2>0, <2>1, <2>2 DEF PageInv, PageAsks, Covers, LogInv, TypeOK
  <2>4. Covers(cursor, k)' /\ (cursor <= LastSeq(log))'
    BY <2>1, <2>2, <2>3 DEF Covers, LastSeq
  <2>a. (\A i \in DOMAIN log : log[i].seq <= after => i <= k)'
    BY <2>1, <2>2 DEF Covers
  <2>5. OnWire(k, k)'
    BY <2>1, <2>3, <2>4, <2>a, LogOrdered DEF OnWire, LogInv
  <2>6. PageAsks' /\ ShowsPrefix' /\ LoadedEnds'
    BY <2>0, <2>1 DEF PageInv, PageAsks, ShowsPrefix, LoadedEnds, Covers, LastSeq
  <2>7. Polling'
    BY <2>1, <2>3, <2>4 DEF Polling
  <2> QED
    BY <2>1, <2>3, <2>5, <2>6, <2>7 DEF PageInv
<1>12. CASE Receive
  <2>1. UNCHANGED log
    BY <1>12 DEF Receive
  <2>2. Numbered
    BY <2>1 DEF Numbered
  <2> QED
    BY <1>a, <1>12, <2>1, <2>2, StreamOfReceive
<1>13. CASE UNCHANGED vars
  BY <1>1, <1>13 DEF vars
<1> QED
  BY <1>2, <1>3, <1>4, <1>5, <1>6, <1>7, <1>8, <1>9, <1>10, <1>11, <1>12, <1>13 DEF Next

LEMMA Invariant == Spec => [](LogInv /\ StreamInv)
<1>1. Init => LogInv /\ StreamInv
  BY InitLog, InitStream
<1>2. LogInv /\ StreamInv /\ [Next]_vars => (LogInv /\ StreamInv)'
  BY StepLog, StepStream
<1> QED
  BY <1>1, <1>2, PTL DEF Spec

\* Every variable always has its type.
THEOREM StreamTyped == Spec => []TypeOK
<1>1. LogInv => TypeOK
  BY DEF LogInv
<1> QED
  BY <1>1, Invariant, PTL

\* Of a run that was lost when the pass read its row, the pass alone records,
\* behind everything that the run recorded.
THEOREM LostEventsAreLast == Spec => LostEventIsLast
<1> DEFINE AtTheEnd == /\ \A i \in DOMAIN log : log[i].seq < next
                       /\ log' = Append(log, [seq |-> next, kind |-> "lost"])
<1>1. ASSUME LogInv, Next, lost, log' # log PROVE AtTheEnd
  <2> USE DEF store, poll, browser
  <2>1. ~\E k \in {"step", "end"} : Emit(k)
    BY <1>1 DEF Emit, LogInv, PassKnows
  <2>2. FailLostRun \/ PassFails
    BY <1>1, <2>1 DEF Next, OwnerDies, PidChanges, ServerDies, Boot, ListRuns, ListEvents,
                     LeaveRun, Poll, CheckStatus, PollFails, Load, Connect, Receive, ConnectionLost
  <2>3. abandon = "read" /\ log' = Inserted([seq |-> next, kind |-> "lost"])
    BY <1>1, <2>2 DEF FailLostRun, PassFails
  <2>4. LastSeq(log) < next /\ next \in Seqs
    BY <1>1, <2>3 DEF LogInv, PassKnows
  <2>5. log' = Append(log, [seq |-> next, kind |-> "lost"])
    BY <1>1, <2>3, <2>4, LogInserted DEF LogInv
  <2>6. ASSUME NEW i \in DOMAIN log PROVE log[i].seq < next
    <3>1. log[i].seq \in Nat /\ LastSeq(log) \in Nat /\ next \in Nat /\ log[i].seq <= LastSeq(log)
      BY <1>1, <2>4, LogOrdered DEF LogInv, Seqs
    <3> QED
      BY <2>4, <3>1
  <2> QED
    BY <2>5, <2>6
<1>2. LogInv /\ [Next]_vars => [lost /\ log' # log => AtTheEnd]_vars
  BY <1>1 DEF vars, store
<1> QED
  BY <1>2, Invariant, PTL DEF Spec, LostEventIsLast

\* Whatever is cut, retried or replayed, the browser shows a prefix of the log,
\* as long as the numbers of the log follow the order of recording.
THEOREM PageIsPrefix == Spec => []ShownIsPrefixOfLog
<1>1. StreamInv => ShownIsPrefixOfLog
  BY DEF StreamInv, PageInv, ShowsPrefix, ShownIsPrefixOfLog
<1> QED
  BY <1>1, Invariant, PTL

\* Only a run whose process is gone has an event of the pass.
THEOREM LostRunsOnly == Spec => []OnlyLostRunsAreFailed
<1>1. LogInv => OnlyLostRunsAreFailed
  BY DEF LogInv, OwnEvents, OnlyLostRunsAreFailed
<1> QED
  BY <1>1, Invariant, PTL

\* No pass ends, whatever its reads and writes do, and leaves the row of a run
\* live that was lost when it read the row.
THEOREM LostRunsAreSettled == Spec => [](abandon = "done" /\ lost => row = "settled")
<1>1. LogInv => (abandon = "done" /\ lost => row = "settled")
  BY DEF LogInv, PassSettles
<1> QED
  BY <1>1, Invariant, PTL

(***************************************************************************)
(* An open page is never left with a response that says nothing more.      *)
(***************************************************************************)
\* The mark of its end is the last thing on a response that nobody polls.
ResponseEnds ==
  conn = "open" /\ stream = "closed" => wire # <<>> /\ wire[Len(wire)] = Eof

\* The last element stays the last one.
LEMMA LastOfTail ==
  ASSUME NEW S, NEW s \in Seq(S), s # <<>>, Len(s) # 1
  PROVE  Tail(s) # <<>> /\ Tail(s)[Len(Tail(s))] = s[Len(s)]
<1>1. Len(s) \in Nat \ {0}
  BY EmptySeq
<1>2. /\ Len(Tail(s)) = Len(s) - 1
      /\ \A i \in 1..Len(Tail(s)) : Tail(s)[i] = s[i + 1]
  BY HeadTailProperties
<1>3. Len(Tail(s)) \in 1..Len(Tail(s)) /\ Len(Tail(s)) + 1 = Len(s)
  BY <1>1, <1>2
<1>4. Len(<<>>) = 0
  OBVIOUS
<1>5. Tail(s) # <<>>
  <2>1. Len(Tail(s)) # 0
    BY <1>1, <1>2
  <2> QED
    BY <1>4, <2>1, Zenon
<1> QED
  BY <1>2, <1>3, <1>5

LEMMA StepResponse == LogInv /\ ResponseEnds /\ [Next]_vars => ResponseEnds'
<1> SUFFICES ASSUME LogInv, ResponseEnds, [Next]_vars PROVE ResponseEnds'
  OBVIOUS
<1> USE DEF run, store, boot, poll, browser
<1>0. wire \in Seq(Event \cup {Eof, ReadError})
  BY DEF LogInv, TypeOK
<1>1. ASSUME UNCHANGED <<stream, wire, conn>> PROVE ResponseEnds'
  BY <1>1 DEF ResponseEnds
<1>2. CASE \/ \E k \in {"step", "end"} : Emit(k)
           \/ PidChanges \/ Boot \/ ListRuns \/ ListEvents \/ LeaveRun \/ FailLostRun
           \/ UNCHANGED vars
  BY <1>1, <1>2 DEF Emit, PidChanges, Boot, ListRuns, ListEvents, LeaveRun, FailLostRun, vars
<1>9. CASE PassFails
  <2>1. UNCHANGED <<stream, wire>> /\ (conn' = "open" => conn = "open")
    BY <1>9 DEF PassFails
  <2> QED
    BY <2>1 DEF ResponseEnds
<1>3. CASE OwnerDies \/ ServerDies \/ ConnectionLost
  <2>1. UNCHANGED <<stream, wire, conn>> \/ conn' # "open"
    BY <1>3 DEF OwnerDies, ServerDies, ConnectionLost, Cut
  <2> QED
    BY <1>1, <2>1 DEF ResponseEnds
<1>4. CASE Poll
  <2> DEFINE new == EventsAfter(cursor)
  <2>1. new \in Seq(Event)
    <3>1. cursor \in Nat
      BY DEF LogInv, TypeOK, Seqs
    <3>2. Covered(cursor) \in 0..Len(log)
      BY <3>1, CoversCovered DEF LogInv, Covers
    <3> QED
      BY <3>2, LogOrdered DEF LogInv, EventsAfter
  <2>2. CASE Terminal(new)
    <3>1. wire \o new \in Seq(Event \cup {Eof, ReadError})
      BY <1>0, <2>1
    <3>2. wire' = (wire \o new) \o <<Eof>>
      BY <1>0, <1>4, <2>1, <2>2 DEF Poll
    <3> HIDE DEF new
    <3>3. wire' # <<>> /\ wire'[Len(wire')] = Eof
      BY <3>1, <3>2
    <3> QED
      BY <3>3 DEF ResponseEnds
  <2>3. CASE ~Terminal(new)
    BY <1>4, <2>3 DEF Poll, ResponseEnds
  <2> QED
    BY <2>2, <2>3
<1>5. CASE CheckStatus
  <2>1. stream' # "closed" \/ wire' = Append(wire, Eof)
    BY <1>5 DEF CheckStatus
  <2>2. wire' = Append(wire, Eof) => wire' # <<>> /\ wire'[Len(wire')] = Eof
    BY <1>0
  <2> QED
    BY <2>1, <2>2 DEF ResponseEnds
<1>6. CASE PollFails
  <2>1. wire' = wire \o <<ReadError, Eof>>
    BY <1>6 DEF PollFails
  <2>2. wire' # <<>> /\ wire'[Len(wire')] = Eof
    BY <1>0, <2>1
  <2> QED
    BY <2>2 DEF ResponseEnds
<1>7. CASE Load \/ Connect
  BY <1>7 DEF Load, Connect, ResponseEnds
<1>8. CASE Receive
  <2>1. CASE conn' # "open"
    BY <2>1 DEF ResponseEnds
  <2>2. CASE conn' = "open"
    <3>1. /\ conn = "open" /\ wire # <<>> /\ Head(wire) # Eof
          /\ wire' = Tail(wire) /\ stream' = stream
      BY <1>8, <2>2 DEF Receive, Eof, AfterEof
    <3>2. stream = "closed" => wire[Len(wire)] = Eof
      BY <3>1 DEF ResponseEnds
    <3>3. wire[Len(wire)] = Eof => Len(wire) # 1
      BY <1>0, <3>1
    <3>4. Len(wire) # 1 => Tail(wire) # <<>> /\ Tail(wire)[Len(Tail(wire))] = wire[Len(wire)]
      BY <1>0, <3>1, LastOfTail
    <3> QED
      BY <3>1, <3>2, <3>3, <3>4 DEF ResponseEnds
  <2> QED
    BY <2>1, <2>2
<1> QED
  BY <1>2, <1>3, <1>4, <1>5, <1>6, <1>7, <1>8, <1>9 DEF Next

\* What the page has not shown, up to the first terminal event that it has not
\* shown, is still on its way: it is on the wire, or the poll that serves the
\* page has yet to read it, or the page is about to ask for it again, because
\* its connection was lost or the response says that it has ended; or the page
\* is about to be told that its stream failed.
NothingEnds == \A i \in DOMAIN wire : ~Ends(wire[i]) /\ wire[i] # ReadError
EventsAreOnTheirWay ==
  Numbered /\ conn \in {"connecting", "open"} =>
    \A n \in DOMAIN log :
      n > Len(shown) /\ (\A i \in (Len(shown) + 1)..(n - 1) : ~Ends(log[i])) =>
        \/ conn = "connecting" /\ after < log[n].seq
        \/ \E i \in DOMAIN wire : wire[i] = log[n] /\ \A h \in 1..(i - 1) : ~Ends(wire[h])
        \/ \E i \in DOMAIN wire : wire[i] = ReadError
        \/ stream # "closed" /\ cursor < log[n].seq /\ NothingEnds
        \/ wire # <<>> /\ wire[Len(wire)] = Eof /\ after < log[n].seq /\ NothingEnds

LEMMA OnTheirWay == LogInv /\ StreamInv /\ ResponseEnds => EventsAreOnTheirWay
<1> SUFFICES ASSUME LogInv, StreamInv, ResponseEnds, Numbered, conn \in {"connecting", "open"},
                    NEW n \in DOMAIN log, n > Len(shown),
                    \A i \in (Len(shown) + 1)..(n - 1) : ~Ends(log[i]),
                    ~\E i \in DOMAIN wire : wire[i] = ReadError
             PROVE  \/ conn = "connecting" /\ after < log[n].seq
                    \/ \E i \in DOMAIN wire : wire[i] = log[n] /\ \A h \in 1..(i - 1) : ~Ends(wire[h])
                    \/ stream # "closed" /\ cursor < log[n].seq /\ NothingEnds
                    \/ wire # <<>> /\ wire[Len(wire)] = Eof /\ after < log[n].seq /\ NothingEnds
  BY DEF EventsAreOnTheirWay
<1>0. PageInv
  BY DEF StreamInv
<1>1. /\ Len(log) \in Nat /\ n \in 1..Len(log)
      /\ log[n].seq \in Nat /\ cursor \in Nat /\ after \in Nat
  BY LogOrdered DEF LogInv, TypeOK, Seqs
<1>2. Len(shown) \in Nat /\ Len(wire) \in Nat /\ DOMAIN wire = 1..Len(wire)
  BY DEF LogInv, TypeOK
<1>3. after < log[n].seq
  <2>1. PICK k \in 0..Len(shown) : Covers(after, k)
    BY <1>0 DEF PageInv, PageAsks
  <2> QED
    BY <1>1, <1>2, <2>1 DEF Covers
<1>4. CASE conn = "open"
  <2>1. PICK j, m \in 0..Len(log) : OnWire(j, m)
    BY <1>0, <1>4 DEF PageInv
  <2>2. /\ j \in Nat /\ m \in Nat /\ m <= Len(log) /\ j <= m /\ j <= Len(shown) /\ m - j <= Len(wire)
        /\ \A i \in 1..(m - j) : wire[i] = log[j + i]
        /\ \A i \in (m - j + 1)..Len(wire) : wire[i] \in {Eof, ReadError}
        /\ stream # "closed" => Covers(cursor, m)
        /\ \A i \in DOMAIN log : log[i].seq <= after => i <= j
    BY <2>1 DEF OnWire
  <2>3. ASSUME NEW h \in 1..(m - j), j + h < n PROVE ~Ends(wire[h])
    <3>1. wire[h] = log[j + h] /\ j + h \in DOMAIN log /\ j < j + h
      BY <1>1, <1>2, <2>2
    <3>2. CASE j + h <= Len(shown)
      <4>1. j + h \in DOMAIN shown
        <5>1. j + h \in 1..Len(shown)
          BY <1>2, <2>2, <3>2
        <5>2. DOMAIN shown = 1..Len(shown)
          BY DEF LogInv, TypeOK
        <5> QED
          BY <5>1, <5>2
      <4>2. Ends(log[j + h]) => log[j + h].seq <= after
        BY <1>0, <4>1 DEF PageInv, LoadedEnds
      <4>3. log[j + h].seq <= after => j + h <= j
        BY <2>2, <3>1
      <4>4. ~(j + h <= j)
        BY <2>2
      <4> QED
        BY <3>1, <4>2, <4>3, <4>4
    <3>3. CASE ~(j + h <= Len(shown))
      <4>1. j + h \in (Len(shown) + 1)..(n - 1)
        BY <1>1, <1>2, <2>2, <2>3, <3>3
      <4> QED
        BY <3>1, <4>1
    <3> QED
      BY <3>2, <3>3
  <2>4. CASE n <= m
    <3>0. Len(shown) \in Nat /\ Len(wire) \in Nat /\ n \in Nat /\ j \in Nat /\ m \in Nat
          /\ n > Len(shown) /\ n <= m /\ j <= Len(shown) /\ m - j <= Len(wire)
      BY <1>1, <1>2, <2>2, <2>4
    <3>1. n - j \in 1..(m - j) /\ n - j \in 1..Len(wire) /\ j + (n - j) = n
      BY ONLY <3>0
    <3>2. wire[n - j] = log[n]
      BY <2>2, <3>1
    <3>3. ASSUME NEW h \in 1..((n - j) - 1) PROVE ~Ends(wire[h])
      <4>1. h \in 1..(m - j) /\ j + h < n
        BY ONLY <3>0, h \in 1..((n - j) - 1)
      <4> QED
        BY <2>3, <4>1
    <3> QED
      BY <1>2, <3>1, <3>2, <3>3
  <2>5. CASE m < n
    <3>1. ASSUME NEW i \in DOMAIN wire PROVE ~Ends(wire[i])
      <4>1. CASE i \in 1..(m - j)
        <5>1. j + i < n
          BY <1>1, <2>2, <2>5, <4>1
        <5> QED
          BY <2>3, <4>1, <5>1
      <4>2. CASE i \in (m - j + 1)..Len(wire)
        BY <2>2, <4>2 DEF Ends, Eof, ReadError
      <4>3. i \in 1..(m - j) \/ i \in (m - j + 1)..Len(wire)
        BY <1>2, <2>2
      <4> QED
        BY <4>1, <4>2, <4>3
    <3>2. NothingEnds
      BY <3>1 DEF NothingEnds
    <3>3. CASE stream # "closed"
      <4>1. ~(log[n].seq <= cursor)
        BY <1>1, <2>2, <2>5, <3>3 DEF Covers
      <4> QED
        BY <1>1, <3>2, <3>3, <4>1
    <3>4. CASE stream = "closed"
      BY <1>3, <1>4, <3>2, <3>4 DEF ResponseEnds
    <3> QED
      BY <3>3, <3>4
  <2> QED
    BY <1>1, <2>2, <2>4, <2>5
<1> QED
  BY <1>3, <1>4

\* While a page is connected or connecting, what it has not shown is on its
\* way, however often its response was cut or ended too early.
THEOREM PageIsNotForgotten == Spec => []EventsAreOnTheirWay
<1>1. Init => ResponseEnds
  BY DEF Init, ResponseEnds
<1> QED
  BY <1>1, Invariant, StepResponse, OnTheirWay, PTL DEF Spec
=============================================================================
