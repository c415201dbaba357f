------------------------ MODULE RangeDownloadProofs ------------------------
(***************************************************************************)
(* Proofs about RangeDownload, for every number of threads and every       *)
(* length of the file.                                                     *)
(***************************************************************************)
EXTENDS RangeDownload, Induction, TLAPS, FiniteSetTheorems, SequenceTheorems

(* Index has as many elements as there are threads. *)
LEMMA IndexFinite == IsFiniteSet(Index) /\ Cardinality(Index) = THREAD_NUM
  BY DownloadAssumption, FS_Interval DEF Index

(* Fewer threads than slices cannot have claimed them all. *)
LEMMA SliceLeft ==
    ASSUME NEW f \in [Index -> Index], NEW T, T \subseteq Index, T # Index
    PROVE  \E i \in Index : \A t \in T : f[t] # i
<1> SUFFICES ASSUME \A i \in Index : \E t \in T : f[t] = i PROVE FALSE
  OBVIOUS
<1> DEFINE g == [t \in T |-> f[t]]
<1>1. g \in Surjection(T, Index)
  BY DEF Surjection
<1>2. IsFiniteSet(T) /\ Cardinality(T) <= Cardinality(Index) /\ Cardinality(Index) # Cardinality(T)
  BY IndexFinite, FS_Subset
<1>3. Cardinality(Index) <= Cardinality(T)
  BY <1>1, <1>2, FS_Surjection
<1>4. Cardinality(T) \in Nat /\ Cardinality(Index) \in Nat
  BY <1>2, IndexFinite, FS_CardinalityType
<1> QED
  BY <1>2, <1>3, <1>4

-----------------------------------------------------------------------------
(* Every number below n * r is in one of the n intervals of length r. *)
LEMMA InSomeInterval ==
    ASSUME NEW r \in Nat \ {0}, NEW n \in Nat, NEW p \in Nat, p < n * r
    PROVE  \E i \in 0 .. n - 1 : i * r <= p /\ p < i * r + r
<1> DEFINE i == p \div r
<1>1. i \in Nat /\ i * r <= p /\ p < i * r + r
  OBVIOUS
<1> HIDE DEF i
<1>2. i < n
  <2> SUFFICES ASSUME n <= i PROVE FALSE
    BY <1>1
  <2>1. CASE n = i
    BY <1>1, <2>1
  <2>2. CASE n < i
    BY <1>1, <2>2, MultiplesApart
  <2> QED
    BY <1>1, <2>1, <2>2
<1> QED
  BY <1>1, <1>2

(* The bounds slice_file stores for a file of at least THREAD_NUM - 1      *)
(* bytes (demo_easy_1.c:133-140): nothing wraps in size_t.                 *)
LEMMA SliceBounds ==
    ASSUME NEW len \in Lengths, len >= THREAD_NUM - 1, NEW i \in Index,
           NEW r, r = len \div (THREAD_NUM - 1)
    PROVE  /\ r \in Nat \ {0} /\ i * r \in Nat /\ i * r <= len /\ r < len
           /\ Slice(len, i).begin_iter = i * r
           /\ Slice(len, i).end_iter = IF i * r + r <= len THEN i * r + r - 1 ELSE len - 1
<1>1. /\ THREAD_NUM \in Nat /\ THREAD_NUM - 1 \in Nat \ {0} /\ len \in Nat /\ len > 0
      /\ Width \in Nat /\ 2 * len + 4 < Width
      /\ i \in Nat /\ i <= THREAD_NUM - 1 /\ THREAD_NUM > 2
  BY DownloadAssumption DEF Index
<1> DEFINE n == THREAD_NUM - 1
<1>2. r \in Nat \ {0} /\ n * r <= len /\ r < len
  <2> SUFFICES ASSUME NEW k \in Nat \ {0, 1}, len >= k, r = len \div k
               PROVE  r \in Nat \ {0} /\ k * r <= len /\ r < len
    BY <1>1
  <2>1. r \in Nat /\ k * r <= len /\ len < k * r + k
    BY <1>1
  <2>2. r \in Nat \ {0}
    BY <1>1, <2>1
  <2>3. k * r >= 2 * r
    BY <2>2
  <2> QED
    BY <1>1, <2>1, <2>2, <2>3
<1>3. i * r \in Nat /\ i * r <= len
  <2>1. CASE i = n
    BY <1>1, <1>2, <2>1
  <2>2. CASE i < n
    <3>1. n \in Nat
      BY <1>1
    <3> HIDE DEF n
    <3> QED
      BY <1>1, <1>2, <2>2, <3>1, MultiplesApart
  <2> QED
    BY <1>1, <2>1, <2>2
<1>4. SliceLength(len) = r
  BY <1>1 DEF SliceLength
<1>5. \A m \in 0 .. Width - 1 : m % Width = m
  BY <1>1
<1> DEFINE size == i * r
           end == IF size + r <= len THEN size + r - 1 ELSE len - 1
<1>6. size \in 0 .. Width - 1 /\ end \in 0 .. Width - 1
  <2> HIDE DEF size
  <2>1. size \in Nat /\ size <= len
    BY <1>3 DEF size
  <2> QED
    BY <1>1, <1>2, <2>1
<1>7. size % Width = size /\ end % Width = end
  BY <1>5, <1>6
<1>8. Slice(len, i).begin_iter = size % Width /\ Slice(len, i).end_iter = end % Width
  BY <1>4 DEF Slice, ToSize
<1> QED
  BY <1>2, <1>3, <1>7, <1>8

(* What main has asked for and cut. *)
LengthKnown ==
    /\ length \in Lengths
    /\ mpc # "slice" => file_length \in {length, -1}

(* SlicesPartition is arithmetic: it follows from the length alone.        *)
LEMMA CutPartition == LengthKnown => SlicesPartition
<1> SUFFICES ASSUME LengthKnown, Sliced PROVE SlicesPartition
  BY DEF SlicesPartition
<1> DEFINE n == THREAD_NUM
           r == length \div (n - 1)
<1>1. /\ n \in Nat /\ n > 2 /\ length \in Lengths /\ length \in Nat
      /\ file_length = length /\ length >= n - 1
      /\ Index = 0 .. n - 1
  BY DownloadAssumption DEF LengthKnown, Sliced, Index
<1>2. ASSUME NEW i \in Index
      PROVE  /\ r \in Nat \ {0} /\ i \in Nat /\ i < n /\ i * r \in Nat
             /\ \A p : p \in Planned(i) <=> p \in 0 .. length - 1 /\ i * r <= p /\ p < i * r + r
  <2>1. /\ r \in Nat \ {0} /\ i * r \in Nat
        /\ Slice(length, i).begin_iter = i * r
        /\ Slice(length, i).end_iter = IF i * r + r <= length THEN i * r + r - 1 ELSE length - 1
    BY <1>1, SliceBounds
  <2> DEFINE size == i * r
  <2> HIDE DEF size, r
  <2>2. Planned(i) = size .. (IF size + r <= length THEN size + r - 1 ELSE length - 1)
    BY <1>1, <2>1 DEF Planned, size
  <2>3. size \in Nat /\ r \in Nat
    BY <2>1 DEF size
  <2>4. Planned(i) = {p \in 0 .. length - 1 : size <= p /\ p < size + r}
    BY <1>1, <2>2, <2>3
  <2> QED
    BY <1>1, <2>1, <2>4 DEF size
<1> HIDE DEF r, n
<1>3. 0 \in Index /\ r \in Nat \ {0}
  BY <1>1, <1>2
<1>4. ASSUME NEW i \in Index, NEW p \in Planned(i) PROVE p \in 0 .. length - 1 /\ p < n * r
  <2> DEFINE size == i * r
             end == n * r
  <2>1. size \in Nat /\ end \in Nat /\ size + r <= end
    BY <1>1, <1>2, <1>3, MultiplesApart
  <2>2. p \in 0 .. length - 1 /\ p < size + r
    BY <1>2
  <2> HIDE DEF size, end
  <2>3. p < end
    BY <1>1, <1>3, <2>1, <2>2
  <2> QED
    BY <2>2, <2>3 DEF end
<1>5. ASSUME NEW p \in 0 .. length - 1, p < n * r PROVE \E i \in Index : p \in Planned(i)
  <2>0. p \in Nat
    BY <1>1
  <2>1. PICK i \in 0 .. n - 1 : i * r <= p /\ p < i * r + r
    BY <1>1, <1>3, <1>5, <2>0, InSomeInterval, Zenon
  <2> QED
    BY <1>1, <1>2, <2>1
<1>6. UNION {Planned(i) : i \in Index} = {p \in 0 .. length - 1 : p < n * r}
  BY <1>4, <1>5
<1>7. ASSUME NEW i \in Index, NEW j \in Index, i < j PROVE Planned(i) \cap Planned(j) = {}
  <2> SUFFICES ASSUME NEW p, p \in Planned(i), p \in Planned(j) PROVE FALSE
    OBVIOUS
  <2> DEFINE size == i * r
             next == j * r
  <2>1. size \in Nat /\ next \in Nat /\ size + r <= next
    BY <1>2, <1>3, <1>7, MultiplesApart
  <2>2. p \in 0 .. length - 1 /\ p < size + r /\ next <= p
    BY <1>2
  <2> HIDE DEF size, next
  <2> QED
    BY <1>1, <1>3, <2>1, <2>2
<1>8. \A i, j \in Index : i # j => Planned(i) \cap Planned(j) = {}
  <2> SUFFICES ASSUME NEW i \in Index, NEW j \in Index, i # j PROVE Planned(i) \cap Planned(j) = {}
    OBVIOUS
  <2>1. i < j \/ j < i
    BY <1>2
  <2> QED
    BY <1>7, <2>1
<1> QED
  BY <1>6, <1>8 DEF SlicesPartition, r, n

-----------------------------------------------------------------------------
(* The first unused slice is unused, if one is. *)
LEMMA FirstUnusedIsUnused == Unused # {} => FirstUnused \in Unused
<1> SUFFICES ASSUME Unused # {} PROVE FirstUnused \in Unused
  OBVIOUS
<1>1. Unused \subseteq Nat
  BY DownloadAssumption DEF Unused, Index
<1>2. \E i \in Unused : \A j \in Unused : i <= j
  BY <1>1, LeastElement
<1> QED
  BY <1>2 DEF FirstUnused

(* Threads are created in order, after the slices were cut. *)
Started ==
    /\ mpc = "slice" => created = 0
    /\ \A t \in Index : t >= created => tpc[t] = "none"

(* g_mutex_index is held by the thread that has searched the table. *)
Locked == \A t \in Index : tpc[t] = "claimed" <=> g_mutex_index = t

(* The slices in use are those of the threads that have left the critical  *)
(* section.                                                                *)
Holds(t) == Claimed(t) /\ tpc[t] # "claimed"

InUse ==
    /\ \A i \in Index : g_interval[i].use = 1 <=> \E t \in Index : Holds(t) /\ index[t] = i
    /\ \A t \in Index : tpc[t] = "claimed" => g_interval[index[t]].use = 0

IInv == TypeOK /\ LengthKnown /\ Started /\ Locked /\ InUse /\ OneThreadPerSlice

(* The first state: there is no thread yet (demo_easy_1.c:17-29). *)
LEMMA InitIInv == Init => IInv
<1> SUFFICES ASSUME Init PROVE IInv
  OBVIOUS
<1>1. TypeOK
  BY DownloadAssumption DEF Init, TypeOK, ThreadPC, Index
<1>2. LengthKnown /\ Started /\ Locked /\ InUse /\ OneThreadPerSlice
  BY DownloadAssumption DEF Init, LengthKnown, Started, Locked, InUse, Holds, OneThreadPerSlice, Claimed, Index
<1> QED
  BY <1>1, <1>2 DEF IInv

-----------------------------------------------------------------------------
(* Types.                                                                  *)
Bytes == Nat \cup {Page}

LEMMA SliceType ==
    ASSUME length \in Lengths, NEW len \in Lengths \cup {-1, 0}, NEW i \in Index
    PROVE  Slice(len, i) \in [begin_iter : 0 .. Width - 1, end_iter : 0 .. Width - 1, use : {0, 1}]
<1>1. /\ Width \in Nat \ {0} /\ len \in Int /\ i \in Nat
      /\ THREAD_NUM - 1 \in Nat \ {0}
  BY DownloadAssumption DEF Index
<1>2. \A n \in Int : ToSize(n) \in 0 .. Width - 1
  BY <1>1 DEF ToSize
<1>3. SliceLength(len) \in Nat
  <2>1. CASE len < 0
    BY <2>1 DEF SliceLength
  <2>2. CASE ~(len < 0)
    <3> SUFFICES ASSUME NEW k \in Nat \ {0} PROVE len \div k \in Nat
      BY <1>1, <2>2 DEF SliceLength
    <3> QED
      BY <1>1, <2>2
  <2> QED
    BY <2>1, <2>2
<1>4. i * SliceLength(len) \in Int
  BY <1>1, <1>3
<1> QED
  BY <1>1, <1>2, <1>3, <1>4 DEF Slice

LEMMA SourceType ==
    ASSUME NEW b \in Nat, NEW e \in Int
    PROVE  Source(b, e) \in Seq(Bytes)
<1>1. CASE e - b + 1 \in Nat
  BY <1>1 DEF Source, Bytes
<1>2. CASE e - b + 1 \notin Nat
  <2>1. 1 .. e - b + 1 = 1 .. 0
    BY <1>2
  <2>2. Source(b, e) = [k \in 1 .. 0 |-> b + k - 1]
    BY <2>1 DEF Source
  <2> QED
    BY <2>2
<1> QED
  BY <1>1, <1>2

LEMMA AnswersType ==
    ASSUME length \in Lengths, NEW b \in Int, NEW e \in Int
    PROVE  Answers(b, e) \subseteq Seq(Bytes)
<1>1. length \in Nat /\ length - 1 \in Int
  BY DownloadAssumption
<1>2. Source(0, length - 1) \in Seq(Bytes)
  BY <1>1, SourceType
<1>3. 0 <= b => Source(b, IF e < length THEN e ELSE length - 1) \in Seq(Bytes)
  <2> SUFFICES ASSUME b \in Nat, NEW d \in Int PROVE Source(b, d) \in Seq(Bytes)
    BY <1>1
  <2> QED
    BY SourceType
<1> QED
  BY <1>2, <1>3 DEF Answers

(* Conversions between size_t and long. *)
LEMMA SizeTypes ==
    ASSUME length \in Lengths
    PROVE  /\ \A n \in Int : ToSize(n) \in 0 .. Width - 1
           /\ \A n \in 0 .. Width - 1 : ToLong(n) \in Int
<1>1. Width \in Nat \ {0}
  BY DownloadAssumption
<1> QED
  BY <1>1 DEF ToSize, ToLong

Sizes == 0 .. Width - 1
Interval == [begin_iter : Sizes, end_iter : Sizes, use : {0, 1}]

LEMMA AdvanceType ==
    ASSUME length \in Lengths, NEW s \in Interval, NEW len \in Nat
    PROVE  [s EXCEPT !.begin_iter = ToSize(@ + len)] \in Interval
<1>1. s.begin_iter \in Int
  BY DownloadAssumption DEF Interval, Sizes
<1>2. ToSize(s.begin_iter + len) \in Sizes
  BY <1>1, SizeTypes DEF Sizes
<1> QED
  BY <1>2 DEF Interval

LEMMA WrittenType ==
    ASSUME DOMAIN g_pFile \subseteq Nat, position \in Nat, NEW c, NEW n \in Nat
    PROVE  DOMAIN Written(c, n) \subseteq Nat /\ position + n \in Nat
<1>1. DOMAIN Written(c, n) = DOMAIN g_pFile \cup (position .. position + n - 1)
  BY DEF Written
<1> QED
  BY <1>1

LEMMA TypeStep ==
    ASSUME TypeOK, LengthKnown, [Next]_vars
    PROVE  TypeOK'
<1> USE DEF TypeOK, ThreadPC
<1>0. /\ THREAD_NUM \in Nat /\ Index \subseteq Nat /\ Width \in Nat \ {0}
      /\ -1 \notin Index
  BY DownloadAssumption DEF Index
<1>1. CASE slice_file
  <2>1. file_length' \in Lengths \cup {-1, 0}
    BY <1>1 DEF slice_file, get_download_file_length
  <2>2. \A i \in Index : Slice(file_length', i) \in [begin_iter : 0 .. Width - 1, end_iter : 0 .. Width - 1, use : {0, 1}]
    BY <2>1, SliceType
  <2>3. g_interval' \in [Index -> [begin_iter : 0 .. Width - 1, end_iter : 0 .. Width - 1, use : {0, 1}]]
    BY <1>1, <2>2 DEF slice_file
  <2> QED
    BY <1>1, <2>1, <2>3 DEF slice_file, transfer, local
<1>2. CASE CreateThread
  <2>1. tpc' \in [Index -> ThreadPC] /\ created' \in 0 .. THREAD_NUM
    <3>1. CASE tpc' = [tpc EXCEPT ![created] = "claim"] /\ created' = created + 1
      <4>1. tpc' \in [Index -> ThreadPC]
        BY <3>1
      <4>2. created + 1 \in 0 .. THREAD_NUM
        BY <1>0, <1>2 DEF CreateThread
      <4> QED
        BY <3>1, <4>1, <4>2
    <3>2. CASE UNCHANGED <<tpc, created>>
      BY <3>2
    <3> QED
      BY <1>2, <3>1, <3>2 DEF CreateThread
  <2>2. mpc' \in {"create", "join"}
    BY <1>2 DEF CreateThread
  <2> QED
    BY <1>2, <2>1, <2>2 DEF CreateThread, claim, transfer, local
<1>3. CASE Join
  BY <1>3 DEF Join, claim, transfer, local
<1>4. ASSUME NEW t \in Index, Search(t) PROVE TypeOK'
  <2>1. FirstUnused \in Index
    <3>1. CASE Unused = {}
      BY <1>0, <3>1, DownloadAssumption DEF FirstUnused, Index
    <3>2. CASE Unused # {}
      BY <3>2, FirstUnusedIsUnused DEF Unused
    <3> QED
      BY <3>1, <3>2
  <2> QED
    BY <1>4, <2>1 DEF Search, transfer, local
<1>5. ASSUME NEW t \in Index, Claim(t) PROVE TypeOK'
  <2>1. g_interval' \in [Index -> [begin_iter : 0 .. Width - 1, end_iter : 0 .. Width - 1, use : {0, 1}]]
    BY <1>5 DEF Claim
  <2> QED
    BY <1>5, <2>1 DEF Claim, transfer, local
<1>6. ASSUME NEW t \in Index, Request(t) PROVE TypeOK'
  <2>1. body' \in [Index -> Seq(Bytes)]
    <3> DEFINE s == g_interval[index[t]]
    <3>1. ToLong(s.begin_iter) \in Int /\ ToLong(s.end_iter) \in Int
      BY SizeTypes
    <3>2. Answers(ToLong(s.begin_iter), ToLong(s.end_iter)) \subseteq Seq(Bytes)
      BY <3>1, AnswersType
    <3>3. <<Page>> \in Seq(Bytes)
      BY DEF Bytes
    <3>4. \E a \in Seq(Bytes) : body' = [body EXCEPT ![t] = a]
      BY <1>6, <3>2, <3>3 DEF Request
    <3> QED
      BY <3>4 DEF Bytes
  <2> QED
    BY <1>6, <2>1 DEF Request, claim, local, Bytes
<1>7. ASSUME NEW t \in Index, Complete(t) PROVE TypeOK'
  BY <1>7 DEF Complete, claim, transfer, local
<1>8. ASSUME NEW t \in Index, Break(t) PROVE TypeOK'
  <2>1. body' \in [Index -> Seq(Nat \cup {Page})]
    BY <1>8, EmptySeq DEF Break
  <2>2. tpc' \in [Index -> ThreadPC]
    BY <1>8 DEF Break
  <2> QED
    BY <1>8, <2>1, <2>2 DEF Break, claim, local
<1>9. ASSUME NEW t \in Index, Deliver(t) PROVE TypeOK'
  <2>1. PICK n \in Chunks :
          /\ chunk' = [chunk EXCEPT ![t] = SubSeq(body[t], 1, IF n < Len(body[t]) THEN n ELSE Len(body[t]))]
          /\ body' = [body EXCEPT ![t] = SubSeq(body[t], n + 1, Len(body[t]))]
    BY <1>9 DEF Deliver
  <2>2. n \in Nat /\ body[t] \in Seq(Bytes) /\ Len(body[t]) \in Nat
    BY DownloadAssumption DEF Bytes
  <2>3. SubSeq(body[t], n + 1, Len(body[t])) \in Seq(Bytes)
    <3>1. \A k \in n + 1 .. Len(body[t]) : body[t][k] \in Bytes
      BY <2>2, ElementOfSeq
    <3> QED
      BY <2>2, <3>1, SubSeqProperties
  <2>4. SubSeq(body[t], 1, IF n < Len(body[t]) THEN n ELSE Len(body[t])) \in Seq(Bytes)
    <3> DEFINE m == IF n < Len(body[t]) THEN n ELSE Len(body[t])
    <3>1. m \in Int /\ \A k \in 1 .. m : body[t][k] \in Bytes
      BY <2>2, ElementOfSeq
    <3> HIDE DEF m
    <3>2. SubSeq(body[t], 1, m) \in Seq(Bytes)
      BY <2>2, <3>1, SubSeqProperties
    <3> QED
      BY <3>2 DEF m
  <2>5. chunk' \in [Index -> Seq(Bytes)] /\ body' \in [Index -> Seq(Bytes)]
    BY <2>1, <2>3, <2>4 DEF Bytes
  <2> QED
    BY <1>9, <2>5 DEF Deliver, claim, local, Bytes
<1>10. ASSUME NEW t \in Index, Seek(t) PROVE TypeOK'
  <2>1. position' \in Nat
    <3>1. g_interval[index[t]].begin_iter \in 0 .. Width - 1
      OBVIOUS
    <3> QED
      BY <1>0, <1>10, <3>1 DEF Seek
  <2>2. tpc' \in [Index -> ThreadPC]
    BY <1>10 DEF Seek
  <2> QED
    BY <1>10, <2>1, <2>2 DEF Seek, claim, transfer
<1>11. ASSUME NEW t \in Index, Write(t) PROVE TypeOK'
  <2>1. PICK n \in 0 .. Len(chunk[t]) : g_pFile' = Written(chunk[t], n) /\ position' = position + n
    BY <1>11 DEF Write
  <2>2. Len(chunk[t]) \in Nat
    BY LenProperties
  <2>3. position' \in Nat /\ DOMAIN g_pFile' \subseteq Nat
    BY <2>1, <2>2, WrittenType
  <2>4. g_interval' \in [Index -> Interval]
    <3> DEFINE s == g_interval[index[t]]
    <3>1. index[t] \in Index /\ s \in Interval /\ g_interval \in [Index -> Interval]
      BY DEF Interval, Sizes
    <3>2. CASE Fits(t)
      <4>1. g_interval' = [g_interval EXCEPT ![index[t]] = [s EXCEPT !.begin_iter = ToSize(@ + Len(chunk[t]))]]
        BY <1>11, <3>2 DEF Write
      <4>2. [s EXCEPT !.begin_iter = ToSize(@ + Len(chunk[t]))] \in Interval
        BY <2>2, <3>1, AdvanceType
      <4> QED
        BY <3>1, <4>1, <4>2
    <3>3. CASE ~Fits(t)
      BY <1>11, <3>1, <3>3 DEF Write
    <3> QED
      BY <3>2, <3>3
  <2>5. chunk' \in [Index -> Seq(Nat \cup {Page})] /\ body' \in [Index -> Seq(Nat \cup {Page})]
    <3>1. <<>> \in Seq(Nat \cup {Page})
      BY EmptySeq
    <3>2. chunk' \in [Index -> Seq(Nat \cup {Page})]
      BY <1>11, <3>1 DEF Write
    <3>3. body \in [Index -> Seq(Nat \cup {Page})] /\ [body EXCEPT ![t] = <<>>] \in [Index -> Seq(Nat \cup {Page})]
      BY <3>1
    <3>5. body' = body \/ body' = [body EXCEPT ![t] = <<>>]
      BY <1>11 DEF Write
    <3> QED
      BY <3>2, <3>3, <3>5
  <2>6. tpc' \in [Index -> ThreadPC]
    <3>1. tpc' = [tpc EXCEPT ![t] = "body"] \/ tpc' = [tpc EXCEPT ![t] = "failed"]
      BY <1>11 DEF Write
    <3> QED
      BY <3>1
  <2> QED
    BY <1>11, <2>3, <2>4, <2>5, <2>6 DEF Write, Interval, Sizes
<1>12. CASE UNCHANGED vars
  BY <1>12 DEF vars
<1> QED
  BY <1>1, <1>2, <1>3, <1>4, <1>5, <1>6, <1>7, <1>8, <1>9, <1>10, <1>11, <1>12
  DEF Next, MainStep, ThreadStep

-----------------------------------------------------------------------------
(* A step that neither claims nor releases a slice keeps the claims apart. *)
LEMMA SameClaims ==
    ASSUME Locked, InUse, OneThreadPerSlice, index \in [Index -> Index],
           \A u \in Index : Claimed(u)' <=> Claimed(u),
           \A u \in Index : tpc'[u] = "claimed" <=> tpc[u] = "claimed",
           \A i \in Index : g_interval'[i].use = g_interval[i].use,
           index' = index, g_mutex_index' = g_mutex_index
    PROVE  Locked' /\ InUse' /\ OneThreadPerSlice'
<1>1. Locked'
  BY DEF Locked
<1>2. \A u \in Index : Holds(u)' <=> Holds(u)
  BY DEF Holds
<1>3. \A i \in Index : g_interval'[i].use = 1 <=> \E t \in Index : Holds(t)' /\ index'[t] = i
  BY <1>2 DEF InUse
<1>4. \A t \in Index : tpc'[t] = "claimed" => g_interval'[index'[t]].use = 0
  <2> SUFFICES ASSUME NEW t \in Index, tpc'[t] = "claimed" PROVE g_interval'[index'[t]].use = 0
    OBVIOUS
  <2>1. Claimed(t)
    BY DEF Claimed
  <2>2. g_interval[index[t]].use = 0
    BY DEF InUse
  <2> QED
    BY <2>2
<1>5. OneThreadPerSlice'
  BY DEF OneThreadPerSlice
<1> QED
  BY <1>1, <1>3, <1>4, <1>5 DEF InUse

(* Main's steps leave the threads alone, but for the one it creates.       *)
LEMMA MainKeeps ==
    ASSUME IInv, MainStep
    PROVE  LengthKnown' /\ Started' /\ Locked' /\ InUse' /\ OneThreadPerSlice'
<1>0. /\ THREAD_NUM \in Nat /\ Index \subseteq Nat /\ \A t \in Index : t < THREAD_NUM
      /\ created \in Nat /\ tpc \in [Index -> ThreadPC] /\ index \in [Index -> Index]
  <2>1. THREAD_NUM \in Nat /\ Index \subseteq Nat /\ \A t \in Index : t < THREAD_NUM
    BY DownloadAssumption DEF Index
  <2>2. created \in Nat /\ tpc \in [Index -> ThreadPC] /\ index \in [Index -> Index]
    BY <2>1 DEF IInv, TypeOK
  <2> QED
    BY <2>1, <2>2
<1>1. CASE slice_file
  <2>1. \A t \in Index : tpc[t] = "none" /\ tpc'[t] = "none"
    BY <1>0, <1>1 DEF slice_file, IInv, Started
  <2>2. \A i \in Index : g_interval'[i].use = 0
    BY <1>1 DEF slice_file, Slice
  <2>3. LengthKnown' /\ Started'
    BY <1>0, <1>1, <2>1 DEF slice_file, get_download_file_length, LengthKnown, Started, IInv
  <2>4. Locked'
    BY <1>1 DEF slice_file, Locked, IInv
  <2>5. \A t \in Index : ~Claimed(t)' /\ ~Holds(t)'
    BY <2>1 DEF Claimed, Holds
  <2>6. InUse'
    BY <2>1, <2>2, <2>5 DEF InUse
  <2>7. OneThreadPerSlice'
    BY <2>5 DEF OneThreadPerSlice
  <2> QED
    BY <2>3, <2>4, <2>6, <2>7
<1>2. CASE CreateThread
  <2>1. \A t \in Index : tpc'[t] = tpc[t] \/ (t = created /\ tpc[t] = "none" /\ tpc'[t] = "claim")
    BY <1>0, <1>2 DEF CreateThread, IInv, Started
  <2>2. UNCHANGED <<length, file_length, g_interval, index, g_mutex_index>> /\ mpc' # "slice" /\ mpc # "slice"
    BY <1>2 DEF CreateThread, claim
  <2>3. LengthKnown'
    BY <2>2 DEF LengthKnown, IInv
  <2>4. Started'
    BY <1>0, <1>2, <2>1, <2>2 DEF CreateThread, IInv, Started
  <2>5. /\ \A u \in Index : Claimed(u)' <=> Claimed(u)
        /\ \A u \in Index : tpc'[u] = "claimed" <=> tpc[u] = "claimed"
    BY <2>1 DEF Claimed
  <2>6. Locked' /\ InUse' /\ OneThreadPerSlice'
    BY <1>0, <2>2, <2>5, SameClaims DEF IInv
  <2> QED
    BY <2>3, <2>4, <2>6
<1>3. CASE Join
  <2>1. UNCHANGED <<length, file_length, g_interval, index, g_mutex_index, tpc, created>> /\ mpc' # "slice" /\ mpc # "slice"
    BY <1>3 DEF Join, claim
  <2>2. LengthKnown' /\ Started'
    BY <2>1 DEF LengthKnown, Started, IInv
  <2>3. \A u \in Index : Claimed(u)' <=> Claimed(u)
    BY <2>1 DEF Claimed
  <2>4. Locked' /\ InUse' /\ OneThreadPerSlice'
    BY <1>0, <2>1, <2>3, SameClaims DEF IInv
  <2> QED
    BY <2>2, <2>4
<1> QED
  BY <1>1, <1>2, <1>3 DEF MainStep

(* What a thread does after it has claimed a slice and before it ends.     *)
LEMMA TransferKeeps ==
    ASSUME IInv, NEW t \in Index,
           Request(t) \/ Complete(t) \/ Break(t) \/ Deliver(t) \/ Seek(t) \/ Write(t)
    PROVE  LengthKnown' /\ Started' /\ Locked' /\ InUse' /\ OneThreadPerSlice'
<1> USE DEF IInv
<1>1. /\ Holds(t) /\ tpc' = [tpc EXCEPT ![t] = tpc'[t]]
      /\ tpc'[t] \notin {"none", "claim", "claimed"}
      /\ UNCHANGED <<length, file_length, index, g_mutex_index, mpc, created>>
  <2>1. CASE Request(t)
    BY <2>1 DEF TypeOK, Request, Holds, Claimed, claim
  <2>2. CASE Complete(t)
    BY <2>2 DEF TypeOK, Complete, Holds, Claimed, claim
  <2>3. CASE Break(t)
    BY <2>3 DEF TypeOK, Break, Holds, Claimed, claim
  <2>4. CASE Deliver(t)
    BY <2>4 DEF TypeOK, Deliver, Holds, Claimed, claim
  <2>5. CASE Seek(t)
    BY <2>5 DEF TypeOK, Seek, Holds, Claimed, claim
  <2>6. CASE Write(t)
    BY <2>6 DEF TypeOK, Write, Holds, Claimed
  <2> QED
    BY <2>1, <2>2, <2>3, <2>4, <2>5, <2>6
<1>2. \A i \in Index : g_interval'[i].use = g_interval[i].use
  <2>1. CASE Write(t)
    <3>1. index[t] \in Index /\ g_interval \in [Index -> Interval]
      BY DEF TypeOK, Interval, Sizes
    <3>2. \/ UNCHANGED g_interval
          \/ g_interval' = [g_interval EXCEPT ![index[t]] =
                              [g_interval[index[t]] EXCEPT !.begin_iter = ToSize(@ + Len(chunk[t]))]]
      BY <2>1 DEF Write
    <3> QED
      BY <3>1, <3>2 DEF Interval
  <2>2. CASE ~Write(t)
    BY <2>2 DEF Request, Complete, Break, Deliver, Seek, claim
  <2> QED
    BY <2>1, <2>2
<1>3. tpc \in [Index -> ThreadPC] /\ \A u \in Index : u # t => tpc'[u] = tpc[u]
  BY <1>1 DEF TypeOK
<1>4. /\ \A u \in Index : Claimed(u)' <=> Claimed(u)
      /\ \A u \in Index : tpc'[u] = "claimed" <=> tpc[u] = "claimed"
      /\ \A u \in Index : tpc'[u] = "none" <=> tpc[u] = "none"
  BY <1>1, <1>3 DEF Claimed, Holds
<1>5. LengthKnown' /\ Started'
  BY <1>1, <1>4 DEF LengthKnown, Started
<1>6. Locked' /\ InUse' /\ OneThreadPerSlice'
  <2> HIDE DEF IInv
  <2>1. Locked /\ InUse /\ OneThreadPerSlice /\ index \in [Index -> Index]
    BY DEF IInv, TypeOK
  <2> QED
    BY <1>1, <1>2, <1>4, <2>1, SameClaims
<1> QED
  BY <1>5, <1>6

(* A thread that searches the table finds a slice no thread has: the       *)
(* threads that hold one are fewer than the slices, and no other is about  *)
(* to claim one, because the lock is free (demo_easy_1.c:150-160).         *)
LEMMA SearchKeeps ==
    ASSUME IInv, NEW t \in Index, Search(t)
    PROVE  LengthKnown' /\ Started' /\ Locked' /\ InUse' /\ OneThreadPerSlice'
<1> DEFINE T == {u \in Index : Holds(u)}
           i0 == FirstUnused
<1>1. /\ tpc \in [Index -> ThreadPC] /\ index \in [Index -> Index]
      /\ \A i \in Index : g_interval[i].use \in {0, 1}
      /\ Locked /\ InUse /\ OneThreadPerSlice /\ LengthKnown /\ Started
  BY DEF IInv, TypeOK
<1>2. Index \subseteq Nat
  BY DownloadAssumption DEF Index
<1>3. /\ tpc[t] = "claim" /\ g_mutex_index = -1 /\ g_mutex_index' = t
      /\ UNCHANGED <<length, file_length, g_interval, mpc, created>>
      /\ tpc' = [tpc EXCEPT ![t] = "claimed"] /\ index' = [index EXCEPT ![t] = i0]
  BY DEF Search
<1>4. \A u \in Index : tpc[u] # "claimed"
  BY <1>1, <1>2, <1>3 DEF Locked
<1>5. T \subseteq Index /\ T # Index
  BY <1>3 DEF Holds, Claimed
<1>6. PICK i \in Index : \A u \in T : index[u] # i
  <2> HIDE DEF T
  <2> QED
    BY <1>1, <1>5, SliceLeft
<1>7. g_interval[i].use = 0
  BY <1>1, <1>6 DEF InUse
<1>8. i0 \in Index /\ g_interval[i0].use = 0
  <2>1. i \in Unused
    BY <1>7 DEF Unused
  <2>2. i0 \in Unused
    BY <2>1, FirstUnusedIsUnused
  <2> QED
    BY <2>2 DEF Unused
<1>9. \A u \in Index : Claimed(u) => index[u] # i0
  <2> SUFFICES ASSUME NEW u \in Index, Claimed(u) PROVE index[u] # i0
    OBVIOUS
  <2>1. Holds(u)
    BY <1>4 DEF Holds
  <2>2. g_interval[index[u]].use = 1
    BY <1>1, <2>1 DEF InUse
  <2> QED
    BY <1>8, <2>2
<1> HIDE DEF i0
<1>10. /\ tpc'[t] = "claimed" /\ index'[t] = i0
       /\ \A u \in Index : u # t => tpc'[u] = tpc[u] /\ index'[u] = index[u]
  BY <1>1, <1>3
<1>11. LengthKnown' /\ Started'
  BY <1>1, <1>3, <1>10 DEF LengthKnown, Started
<1>12. Locked'
  BY <1>2, <1>3, <1>4, <1>10 DEF Locked
<1>13. ~Claimed(t) /\ Claimed(t)' /\ \A u \in Index : u # t => (Claimed(u)' <=> Claimed(u))
  BY <1>3, <1>10 DEF Claimed
<1>14. /\ ~Holds(t) /\ ~Holds(t)'
       /\ \A u \in Index : u # t => (Holds(u)' <=> Holds(u))
  BY <1>3, <1>10, <1>13 DEF Holds
<1>15. InUse'
  <2>1. \A i1 \in Index : (\E u \in Index : Holds(u)' /\ index'[u] = i1) <=> (\E u \in Index : Holds(u) /\ index[u] = i1)
    BY <1>10, <1>14
  <2>2. \A i1 \in Index : g_interval'[i1].use = 1 <=> \E u \in Index : Holds(u)' /\ index'[u] = i1
    BY <1>1, <1>3, <2>1 DEF InUse
  <2>3. \A u \in Index : tpc'[u] = "claimed" => g_interval'[index'[u]].use = 0
    BY <1>3, <1>4, <1>8, <1>10
  <2> QED
    BY <2>2, <2>3 DEF InUse
<1>16. OneThreadPerSlice'
  <2> SUFFICES ASSUME NEW u \in Index, NEW w \in Index, u # w, Claimed(u)', Claimed(w)'
               PROVE index'[u] # index'[w]
    BY DEF OneThreadPerSlice
  <2>1. CASE u = t
    BY <1>9, <1>10, <1>13, <2>1
  <2>2. CASE w = t
    BY <1>9, <1>10, <1>13, <2>2
  <2>3. CASE u # t /\ w # t
    BY <1>1, <1>10, <1>13, <2>3 DEF OneThreadPerSlice
  <2> QED
    BY <2>1, <2>2, <2>3
<1> QED
  BY <1>11, <1>12, <1>15, <1>16

(* The thread that holds the lock marks its slice and lets the lock go.    *)
LEMMA ClaimKeeps ==
    ASSUME IInv, NEW t \in Index, Claim(t)
    PROVE  LengthKnown' /\ Started' /\ Locked' /\ InUse' /\ OneThreadPerSlice'
<1>1. /\ tpc \in [Index -> ThreadPC] /\ index \in [Index -> Index]
      /\ g_interval \in [Index -> Interval]
      /\ Locked /\ InUse /\ OneThreadPerSlice /\ LengthKnown /\ Started
  BY DEF IInv, TypeOK, Interval, Sizes
<1>2. Index \subseteq Nat
  BY DownloadAssumption DEF Index
<1>3. /\ tpc[t] = "claimed" /\ g_mutex_index' = -1
      /\ g_interval' = [g_interval EXCEPT ![index[t]].use = 1]
      /\ UNCHANGED <<length, file_length, index, mpc, created>>
      /\ tpc' = [tpc EXCEPT ![t] = "request"]
  BY DEF Claim
<1>4. g_mutex_index = t /\ \A u \in Index : u # t => tpc[u] # "claimed"
  BY <1>1, <1>2, <1>3 DEF Locked
<1>5. tpc'[t] = "request" /\ \A u \in Index : u # t => tpc'[u] = tpc[u]
  BY <1>1, <1>3
<1>6. /\ g_interval'[index[t]].use = 1
      /\ \A i \in Index : i # index[t] => g_interval'[i].use = g_interval[i].use
  BY <1>1, <1>3 DEF Interval
<1>7. LengthKnown' /\ Started'
  BY <1>1, <1>3, <1>5 DEF LengthKnown, Started
<1>8. Locked'
  BY <1>2, <1>3, <1>4, <1>5 DEF Locked
<1>9. \A u \in Index : Claimed(u)' <=> Claimed(u)
  BY <1>3, <1>5 DEF Claimed
<1>10. Holds(t)' /\ \A u \in Index : u # t => (Holds(u)' <=> Holds(u))
  BY <1>5, <1>9 DEF Holds, Claimed
<1>11. ~Holds(t)
  BY <1>3 DEF Holds
<1>12. InUse'
  <2>1. \A i \in Index : i # index[t] =>
          ((\E u \in Index : Holds(u)' /\ index'[u] = i) <=> (\E u \in Index : Holds(u) /\ index[u] = i))
    BY <1>3, <1>10, <1>11
  <2>2. \A i \in Index : g_interval'[i].use = 1 <=> \E u \in Index : Holds(u)' /\ index'[u] = i
    BY <1>1, <1>3, <1>6, <1>10, <2>1 DEF InUse
  <2>3. \A u \in Index : tpc'[u] # "claimed"
    BY <1>4, <1>5
  <2> QED
    BY <2>2, <2>3 DEF InUse
<1>13. OneThreadPerSlice'
  BY <1>1, <1>3, <1>9 DEF OneThreadPerSlice
<1> QED
  BY <1>7, <1>8, <1>12, <1>13

(* The invariant is inductive. *)
LEMMA IInvStep == IInv /\ [Next]_vars => IInv'
<1> SUFFICES ASSUME IInv, [Next]_vars PROVE IInv'
  OBVIOUS
<1>1. TypeOK'
  BY TypeStep DEF IInv
<1>2. LengthKnown' /\ Started' /\ Locked' /\ InUse' /\ OneThreadPerSlice'
  <2>1. CASE MainStep
    BY <2>1, MainKeeps
  <2>2. ASSUME NEW t \in Index, ThreadStep(t)
        PROVE  LengthKnown' /\ Started' /\ Locked' /\ InUse' /\ OneThreadPerSlice'
    BY <2>2, SearchKeeps, ClaimKeeps, TransferKeeps DEF ThreadStep
  <2>3. CASE UNCHANGED vars
    <3>1. UNCHANGED <<length, file_length, g_interval, index, g_mutex_index, tpc, created, mpc>>
      BY <2>3 DEF vars
    <3>2. LengthKnown' /\ Started'
      BY <3>1 DEF LengthKnown, Started, IInv
    <3>3. \A u \in Index : Claimed(u)' <=> Claimed(u)
      BY <3>1 DEF Claimed
    <3>4. Locked' /\ InUse' /\ OneThreadPerSlice'
      BY <3>1, <3>3, SameClaims DEF IInv, TypeOK
    <3> QED
      BY <3>2, <3>4
  <2> QED
    BY <2>1, <2>2, <2>3 DEF Next
<1> QED
  BY <1>1, <1>2 DEF IInv

-----------------------------------------------------------------------------
(* The bounds of a slice: in the file, with room for less than all of it.  *)
LEMMA CutBounds ==
    ASSUME LengthKnown, Sliced, NEW i \in Index
    PROVE  /\ file_length = length /\ length \in Nat /\ Width \in Nat /\ 2 * length + 4 < Width
           /\ Slice(file_length, i).begin_iter \in Nat /\ Slice(file_length, i).end_iter \in Nat
           /\ Slice(file_length, i).begin_iter <= Slice(file_length, i).end_iter + 1
           /\ Slice(file_length, i).end_iter < length
           /\ Slice(file_length, i).end_iter + 1 < Slice(file_length, i).begin_iter + length
<1> DEFINE r == length \div (THREAD_NUM - 1)
           size == i * r
<1>1. /\ file_length = length /\ length \in Lengths /\ length \in Nat /\ length >= THREAD_NUM - 1
      /\ Width \in Nat /\ 2 * length + 4 < Width /\ THREAD_NUM \in Nat /\ THREAD_NUM > 2
  BY DownloadAssumption DEF LengthKnown, Sliced
<1>2. /\ r \in Nat \ {0} /\ size \in Nat /\ size <= length /\ r < length
      /\ Slice(length, i).begin_iter = size
      /\ Slice(length, i).end_iter = IF size + r <= length THEN size + r - 1 ELSE length - 1
  BY <1>1, SliceBounds
<1> HIDE DEF r, size
<1> QED
  BY <1>1, <1>2

(* A file of fewer bytes than slices, and one whose length is not known.   *)
LEMMA NoCutBounds ==
    ASSUME NEW len \in Lengths \cup {-1}, len < THREAD_NUM - 1, NEW i \in Index, length \in Lengths
    PROVE  /\ Slice(len, i).begin_iter = 0
           /\ Slice(len, i).end_iter = IF len = -1 THEN Width - 2 ELSE Width - 1
           /\ Width \in Nat /\ length \in Nat /\ 2 * length + 4 < Width
<1>1. /\ Width \in Nat /\ length \in Nat /\ 2 * length + 4 < Width
      /\ len \in Int /\ len >= -1 /\ i \in Nat /\ THREAD_NUM - 1 \in Nat \ {0}
  BY DownloadAssumption DEF Index
<1>2. SliceLength(len) = 0
  <2>1. CASE len < 0
    BY <2>1 DEF SliceLength
  <2>2. CASE ~(len < 0)
    <3> SUFFICES ASSUME NEW k \in Nat \ {0}, len < k PROVE len \div k = 0
      BY <1>1, <2>2 DEF SliceLength
    <3> QED
      BY <1>1, <2>2
  <2> QED
    BY <2>1, <2>2
<1>3. i * 0 = 0
  BY <1>1
<1>4. 0 % Width = 0 /\ (-1) % Width = Width - 1 /\ (-2) % Width = Width - 2
  BY <1>1
<1>5. Slice(len, i).begin_iter = 0 % Width /\ Slice(len, i).end_iter = (IF 0 <= len THEN -1 ELSE len - 1) % Width
  BY <1>1, <1>2, <1>3 DEF Slice, ToSize
<1> QED
  BY <1>1, <1>4, <1>5

LEMMA EmptyFile == /\ DOMAIN <<>> = {} /\ <<>> = [p \in DOMAIN <<>> |-> p]
                   /\ \A D : D = {} => [p \in D |-> p] = <<>>
OBVIOUS

-----------------------------------------------------------------------------
(* What the threads put into the file.                                     *)
Cur(t) == g_interval[index[t]].begin_iter

(* What is still to come for thread t is what belongs into the file from   *)
(* where its slice goes on up to the byte last.                            *)
Ahead(t, last) ==
    /\ Cur(t) + Len(chunk[t]) + Len(body[t]) = last + 1
    /\ \A k \in 1 .. Len(chunk[t]) : chunk[t][k] = Cur(t) + k - 1
    /\ \A k \in 1 .. Len(body[t]) : body[t][k] = Cur(t) + Len(chunk[t]) + k - 1

(* The bytes from lo to hi are in the file, each at its place.             *)
Right(lo, hi) == \A p \in lo .. hi : p \in DOMAIN g_pFile /\ g_pFile[p] = p

Transferring(t) == tpc[t] \in {"body", "seek", "write"}

(* A slice keeps its end, and its beginning until a body comes; it goes on *)
(* inside of its bounds, and one without room stays where it is.           *)
SliceInv(i) ==
    LET s == Slice(file_length, i) IN
    mpc # "slice" =>
        /\ g_interval[i].end_iter = s.end_iter
        /\ g_interval[i].use = 0 => g_interval[i].begin_iter = s.begin_iter
        /\ Sliced => s.begin_iter <= g_interval[i].begin_iter /\ g_interval[i].begin_iter <= s.end_iter + 1
        /\ 0 <= file_length /\ file_length < THREAD_NUM - 1 => g_interval[i].begin_iter = 0

(* A thread that was not answered with an error page has its slice right   *)
(* so far and the rest is ahead, or it was sent more than it has room for, *)
(* and will fail.                                                          *)
CutInv(t) ==
    LET s == Slice(file_length, index[t]) IN
    /\ Transferring(t) =>
          \/ Ahead(t, s.end_iter) /\ Right(s.begin_iter, Cur(t) - 1)
          \/ Cur(t) + Len(chunk[t]) + Len(body[t]) > s.end_iter + 1
    /\ tpc[t] = "ok" => Right(s.begin_iter, s.end_iter)

(* Without the length every thread writes the whole file from its start.   *)
WholeInv(t) ==
    /\ Transferring(t) => Ahead(t, length - 1) /\ 0 .. Cur(t) - 1 \subseteq DOMAIN g_pFile
    /\ tpc[t] = "ok" => 0 .. length - 1 \subseteq DOMAIN g_pFile

(* The thread that writes has the lock, and the file is positioned where   *)
(* its slice goes on; a thread has a chunk only in write_callback.         *)
ThreadInv(t) ==
    /\ tpc[t] = "write" => g_mutex = t /\ position = Cur(t)
    /\ tpc[t] \notin {"seek", "write"} => chunk[t] = <<>>
    /\ tpc[t] \in {"claimed", "request"} => Cur(t) = Slice(file_length, index[t]).begin_iter
    /\ Sliced /\ t \notin paged => CutInv(t)
    /\ file_length = -1 /\ paged = {} => WholeInv(t)

(* Slices without room are never written, and of the whole file each byte  *)
(* is at its place.                                                        *)
ContentInv ==
    /\ mpc = "slice" \/ (0 <= file_length /\ file_length < THREAD_NUM - 1) => g_pFile = <<>>
    /\ file_length = -1 /\ paged = {} =>
          DOMAIN g_pFile \subseteq 0 .. length - 1 /\ g_pFile = [p \in DOMAIN g_pFile |-> p]

FileInv ==
    /\ \A i \in Index : SliceInv(i)
    /\ \A t \in Index : ThreadInv(t)
    /\ ContentInv

(* A file or a slice that only another thread works on stays as it is.     *)
LEMMA OtherThread ==
    ASSUME IInv, FileInv, mpc # "slice", mpc' # "slice", UNCHANGED <<length, file_length>>,
           paged \subseteq paged', NEW u \in Index,
           tpc'[u] = tpc[u], chunk'[u] = chunk[u], body'[u] = body[u], index'[u] = index[u],
           g_interval'[index[u]].begin_iter = g_interval[index[u]].begin_iter,
           tpc[u] = "write" => g_mutex' = g_mutex /\ position' = position,
           DOMAIN g_pFile \subseteq DOMAIN g_pFile',
           Sliced => \A p \in Planned(index[u]) \cap DOMAIN g_pFile : g_pFile'[p] = g_pFile[p]
    PROVE  ThreadInv(u)'
<1>1. /\ ThreadInv(u) /\ index[u] \in Index /\ SliceInv(index[u])
      /\ Cur(u)' = Cur(u) /\ Sliced' = Sliced /\ Transferring(u)' = Transferring(u)
  BY DEF FileInv, IInv, TypeOK, Cur, Sliced, Transferring
<1>2. \A last : Ahead(u, last) => Ahead(u, last)'
  BY <1>1 DEF Ahead
<1> DEFINE s == Slice(file_length, index[u])
<1>3. \A lo, hi : Sliced /\ lo .. hi \subseteq Planned(index[u]) /\ Right(lo, hi) => Right(lo, hi)'
  BY DEF Right
<1>4. s' = s
  BY DEF Slice, SliceLength
<1>5. ASSUME Sliced, u \notin paged PROVE CutInv(u)'
  <2>1. CutInv(u)
    BY <1>1, <1>5 DEF ThreadInv
  <2>2. s.begin_iter \in Nat /\ s.end_iter \in Nat /\ s.begin_iter <= Cur(u) /\ Cur(u) <= s.end_iter + 1
    BY <1>1, <1>5, CutBounds DEF SliceInv, IInv, Cur
  <2>3. Cur(u) \in Nat
    BY <1>1, DownloadAssumption DEF IInv, TypeOK, Cur
  <2>4. s.begin_iter .. s.end_iter = Planned(index[u])
    BY DEF Planned
  <2> HIDE DEF s
  <2>5. s.begin_iter .. Cur(u) - 1 \subseteq Planned(index[u])
    BY <2>2, <2>3, <2>4
  <2>6. Transferring(u) => \/ Ahead(u, s.end_iter) /\ Right(s.begin_iter, Cur(u) - 1)
                           \/ Cur(u) + Len(chunk[u]) + Len(body[u]) > s.end_iter + 1
    BY <2>1 DEF CutInv, s
  <2>7. tpc[u] = "ok" => Right(s.begin_iter, s.end_iter)
    BY <2>1 DEF CutInv, s
  <2>8. Right(s.begin_iter, Cur(u) - 1) => Right(s.begin_iter, Cur(u) - 1)'
    BY <1>1, <1>3, <1>4, <1>5, <2>5 DEF Right
  <2>9. Right(s.begin_iter, s.end_iter) => Right(s.begin_iter, s.end_iter)'
    BY <1>3, <1>4, <1>5, <2>4 DEF Right
  <2>10. Ahead(u, s.end_iter) => Ahead(u, s.end_iter)'
    BY <1>1, <1>4 DEF Ahead
  <2>11. (Transferring(u) => \/ Ahead(u, s.end_iter) /\ Right(s.begin_iter, Cur(u) - 1)
                           \/ Cur(u) + Len(chunk[u]) + Len(body[u]) > s.end_iter + 1)'
    BY <1>1, <1>4, <2>6, <2>8, <2>10
  <2> QED
    BY <1>1, <2>7, <2>9, <2>11 DEF CutInv, s
<1>6. ASSUME file_length = -1, paged = {} PROVE WholeInv(u)'
  BY <1>1, <1>6 DEF ThreadInv, WholeInv, Ahead
<1> QED
  BY <1>1, <1>4, <1>5, <1>6 DEF ThreadInv

(* A slice that is not worked on keeps to its bounds. *)
LEMMA OtherSlice ==
    ASSUME NEW i \in Index, SliceInv(i), mpc # "slice", mpc' # "slice", UNCHANGED <<length, file_length>>,
           g_interval'[i].begin_iter = g_interval[i].begin_iter,
           g_interval'[i].end_iter = g_interval[i].end_iter,
           g_interval'[i].use = 0 => g_interval[i].use = 0
    PROVE  SliceInv(i)'
<1>1. Slice(file_length, i)' = Slice(file_length, i) /\ Sliced' = Sliced
  BY DEF Slice, SliceLength, Sliced
<1> QED
  BY <1>1 DEF SliceInv

LEMMA SliceFileKeeps == ASSUME IInv, FileInv, slice_file PROVE FileInv'
<1>1. /\ mpc = "slice" /\ mpc' = "create" /\ file_length' \in {length, -1}
      /\ g_interval' = [i \in Index |-> Slice(file_length', i)]
      /\ UNCHANGED <<length, tpc, index, body, paged, chunk, g_mutex, position, g_pFile>>
  BY DEF slice_file, get_download_file_length, transfer, local
<1>2. LengthKnown' /\ length \in Lengths
  BY <1>1 DEF IInv, LengthKnown
<1>3. \A t \in Index : tpc[t] = "none"
  BY <1>1, DownloadAssumption DEF IInv, Started, Index
<1>4. ASSUME NEW i \in Index PROVE SliceInv(i)'
  <2>1. g_interval'[i] = Slice(file_length', i)
    BY <1>1
  <2>2. Sliced' => /\ Slice(file_length', i).begin_iter <= Slice(file_length', i).end_iter + 1
                   /\ Slice(file_length', i).begin_iter \in Nat
    <3> SUFFICES ASSUME Sliced'
                 PROVE  /\ Slice(file_length', i).begin_iter <= Slice(file_length', i).end_iter + 1
                        /\ Slice(file_length', i).begin_iter \in Nat
      OBVIOUS
    <3>1. length >= THREAD_NUM - 1 /\ file_length' = length
      BY <1>1, DownloadAssumption DEF Sliced
    <3> DEFINE r == length \div (THREAD_NUM - 1)
               size == i * r
    <3>2. /\ r \in Nat \ {0} /\ size \in Nat /\ size <= length /\ length \in Nat
          /\ Slice(length, i).begin_iter = size
          /\ Slice(length, i).end_iter = IF size + r <= length THEN size + r - 1 ELSE length - 1
      BY <1>2, <3>1, SliceBounds, DownloadAssumption
    <3> HIDE DEF r, size
    <3> QED
      BY <3>1, <3>2
  <2>3. 0 <= file_length' /\ file_length' < THREAD_NUM - 1 => Slice(file_length', i).begin_iter = 0
    BY <1>1, <1>2, NoCutBounds
  <2> QED
    BY <1>1, <2>1, <2>2, <2>3 DEF SliceInv
<1>5. ASSUME NEW t \in Index PROVE ThreadInv(t)'
  <2>1. tpc'[t] = "none" /\ chunk'[t] = <<>>
    BY <1>1, <1>3 DEF FileInv, ThreadInv
  <2> QED
    BY <2>1 DEF ThreadInv, CutInv, WholeInv, Transferring
<1>6. ContentInv'
  <2>1. g_pFile' = <<>>
    BY <1>1 DEF FileInv, ContentInv
  <2> QED
    BY <2>1, EmptyFile DEF ContentInv
<1> QED
  BY <1>4, <1>5, <1>6 DEF FileInv

(* A step that leaves the file and the slices' bounds alone. *)
LEMMA FileKeeps ==
    ASSUME IInv, FileInv, mpc # "slice", mpc' # "slice", UNCHANGED <<length, file_length, g_pFile>>,
           paged \subseteq paged',
           \A i \in Index : /\ g_interval'[i].begin_iter = g_interval[i].begin_iter
                            /\ g_interval'[i].end_iter = g_interval[i].end_iter
                            /\ g_interval'[i].use = 0 => g_interval[i].use = 0
    PROVE  (\A i \in Index : SliceInv(i)') /\ ContentInv'
<1>1. \A i \in Index : SliceInv(i)'
  BY OtherSlice DEF FileInv
<1>2. ContentInv'
  BY DEF FileInv, ContentInv
<1> QED
  BY <1>1, <1>2

LEMMA MainFileKeeps == ASSUME IInv, FileInv, CreateThread \/ Join PROVE FileInv'
<1>1. /\ mpc # "slice" /\ mpc' # "slice"
      /\ UNCHANGED <<length, file_length, g_interval, index, body, paged, chunk, g_mutex, position, g_pFile>>
      /\ \A t \in Index : tpc'[t] = tpc[t] \/ tpc'[t] = "claim"
  <2>1. CASE CreateThread
    BY <2>1 DEF CreateThread, claim, transfer, local, IInv, TypeOK
  <2>2. CASE Join
    BY <2>2 DEF Join, claim, transfer, local
  <2> QED
    BY <2>1, <2>2
<1>2. ASSUME NEW t \in Index PROVE ThreadInv(t)'
  <2>1. CASE tpc'[t] = tpc[t]
    BY <1>1, <2>1, OtherThread
  <2>2. CASE tpc'[t] # tpc[t]
    <3>1. CreateThread /\ t = created
      <4>1. tpc \in [Index -> ThreadPC]
        BY DEF IInv, TypeOK
      <4> QED
        BY <2>2, <4>1 DEF CreateThread, Join
    <3>2. tpc[t] = "none" /\ tpc'[t] = "claim"
      <4>1. t \in Nat
        BY DownloadAssumption DEF Index
      <4> QED
        BY <1>1, <2>2, <3>1, <4>1 DEF IInv, Started
    <3>3. chunk'[t] = <<>>
      BY <1>1, <3>2 DEF FileInv, ThreadInv
    <3> QED
      BY <3>2, <3>3 DEF ThreadInv, CutInv, WholeInv, Transferring
  <2> QED
    BY <2>1, <2>2
<1> QED
  BY <1>1, <1>2, FileKeeps DEF FileInv

(* A thread searches, and claims: its slice is as it was cut. *)
LEMMA SearchFileKeeps == ASSUME IInv, FileInv, NEW t \in Index, Search(t) \/ Claim(t), IInv' PROVE FileInv'
<1>1. /\ UNCHANGED <<length, file_length, mpc, body, paged, chunk, g_mutex, position, g_pFile>>
      /\ tpc \in [Index -> ThreadPC] /\ index \in [Index -> Index] /\ g_interval \in [Index -> Interval]
      /\ tpc[t] \in {"claim", "claimed"} /\ tpc' = [tpc EXCEPT ![t] = tpc'[t]]
  BY DEF Search, Claim, transfer, local, IInv, TypeOK, Interval, Sizes
<1>2. mpc # "slice"
  <2>1. t \in Nat
    BY DownloadAssumption DEF Index
  <2> QED
    BY <1>1, <2>1 DEF IInv, Started
<1>3. \A i \in Index : /\ g_interval'[i].begin_iter = g_interval[i].begin_iter
                       /\ g_interval'[i].end_iter = g_interval[i].end_iter
                       /\ g_interval'[i].use = 0 => g_interval[i].use = 0
  BY <1>1 DEF Search, Claim, Interval
<1>4. \A i \in Index : SliceInv(i)' /\ ContentInv'
  BY <1>1, <1>2, <1>3, FileKeeps
<1>5. /\ tpc'[t] \in {"claimed", "request"} /\ chunk'[t] = <<>>
      /\ Cur(t)' = Slice(file_length, index'[t]).begin_iter
  <2>1. chunk[t] = <<>>
    BY <1>1 DEF FileInv, ThreadInv
  <2>2. CASE Search(t)
    <3>1. tpc'[t] = "claimed" /\ index'[t] \in Index
      BY <1>1, <2>2 DEF Search, IInv, TypeOK
    <3>2. g_interval'[index'[t]].use = 0
      BY <3>1 DEF IInv, InUse
    <3>3. g_interval[index'[t]].begin_iter = Slice(file_length, index'[t]).begin_iter
      BY <1>2, <1>3, <3>1, <3>2 DEF FileInv, SliceInv
    <3> QED
      BY <1>1, <1>3, <2>1, <3>1, <3>3 DEF Cur
  <2>3. CASE Claim(t)
    <3>1. tpc[t] = "claimed" /\ tpc'[t] = "request" /\ index' = index
      BY <1>1, <2>3 DEF Claim
    <3>2. Cur(t) = Slice(file_length, index[t]).begin_iter
      BY <3>1 DEF FileInv, ThreadInv
    <3> QED
      BY <1>1, <1>3, <2>1, <3>1, <3>2 DEF Cur
  <2> QED
    BY <2>2, <2>3
<1>6. ThreadInv(t)'
  <2>1. Slice(file_length, index[t])' = Slice(file_length, index'[t])
    BY <1>1 DEF Slice, SliceLength
  <2> QED
    BY <1>5, <2>1 DEF ThreadInv, CutInv, WholeInv, Transferring
<1>7. ASSUME NEW u \in Index, u # t PROVE ThreadInv(u)'
  <2>1. tpc'[u] = tpc[u] /\ index'[u] = index[u] /\ index[u] \in Index
    BY <1>1, <1>7 DEF Search, Claim
  <2> QED
    BY <1>1, <1>2, <1>3, <1>7, <2>1, OtherThread
<1> QED
  BY <1>4, <1>6, <1>7 DEF FileInv

-----------------------------------------------------------------------------
(* A transfer is in the slices that were cut. *)
LEMMA TransferFacts ==
    ASSUME IInv, FileInv, NEW t \in Index, tpc[t] # "none"
    PROVE  /\ mpc # "slice" /\ index[t] \in Index /\ t \in Nat
           /\ Cur(t) \in Nat /\ length \in Nat /\ Width \in Nat /\ 2 * length + 4 < Width
           /\ body[t] \in Seq(Bytes) /\ chunk[t] \in Seq(Bytes)
           /\ file_length \in {length, -1} /\ THREAD_NUM \in Nat /\ THREAD_NUM > 2
           /\ SliceInv(index[t]) /\ ThreadInv(t)
<1>1. t \in Nat /\ THREAD_NUM \in Nat /\ THREAD_NUM > 2
  BY DownloadAssumption DEF Index
<1>2. mpc # "slice"
  BY <1>1 DEF IInv, Started
<1>3. index[t] \in Index /\ Cur(t) \in Nat
  BY DownloadAssumption DEF IInv, TypeOK, Cur
<1>4. length \in Nat /\ Width \in Nat /\ 2 * length + 4 < Width
  BY DownloadAssumption DEF IInv, TypeOK
<1>5. body[t] \in Seq(Bytes) /\ chunk[t] \in Seq(Bytes)
  BY DEF IInv, TypeOK, Bytes
<1> QED
  BY <1>1, <1>2, <1>3, <1>4, <1>5 DEF IInv, LengthKnown, FileInv

(* What a thread does without writing concerns itself alone. *)
LEMMA OwnStep ==
    ASSUME IInv, FileInv, mpc # "slice", UNCHANGED <<length, file_length, mpc, g_interval, index, g_pFile>>,
           NEW t \in Index, paged \subseteq paged',
           \A u \in Index : u # t => /\ tpc'[u] = tpc[u] /\ chunk'[u] = chunk[u] /\ body'[u] = body[u]
                                     /\ tpc[u] = "write" => g_mutex' = g_mutex /\ position' = position,
           ThreadInv(t)'
    PROVE  FileInv'
<1>1. ASSUME NEW u \in Index, u # t PROVE ThreadInv(u)'
  BY <1>1, OtherThread
<1> QED
  BY <1>1, FileKeeps DEF FileInv

LEMMA SourceBytes ==
    ASSUME NEW b \in Nat, NEW e \in Int, e - b + 1 \in Nat
    PROVE  /\ Source(b, e) \in Seq(Nat) /\ Len(Source(b, e)) = e - b + 1
           /\ \A k \in 1 .. Len(Source(b, e)) : Source(b, e)[k] = b + k - 1
<1> DEFINE n == e - b + 1
<1>1. Source(b, e) = [k \in 1 .. n |-> b + k - 1]
  BY DEF Source
<1>2. n \in Nat /\ \A k \in 1 .. n : b + k - 1 \in Nat
  OBVIOUS
<1> HIDE DEF n
<1>3. [k \in 1 .. n |-> b + k - 1] \in Seq(Nat) /\ Len([k \in 1 .. n |-> b + k - 1]) = n
  BY <1>2
<1> QED
  BY <1>1, <1>3 DEF n

(* The server answers with the slice, with the whole file, which no slice  *)
(* has room for, or with a page.                                           *)
LEMMA RequestFileKeeps == ASSUME IInv, FileInv, NEW t \in Index, Request(t) PROVE FileInv'
<1> DEFINE s == Slice(file_length, index[t])
           b == g_interval[index[t]].begin_iter
           e == g_interval[index[t]].end_iter
<1>1. /\ tpc[t] = "request" /\ tpc' = [tpc EXCEPT ![t] = "body"]
      /\ UNCHANGED <<length, file_length, mpc, g_interval, index, chunk, g_mutex, position, g_pFile>>
      /\ \/ paged' = paged /\ \E a \in Answers(ToLong(b), ToLong(e)) : body' = [body EXCEPT ![t] = a]
         \/ paged' = paged \cup {t} /\ body' = [body EXCEPT ![t] = <<Page>>]
  BY DEF Request, claim, local
<1>2. /\ mpc # "slice" /\ index[t] \in Index /\ length \in Nat /\ Width \in Nat /\ 2 * length + 4 < Width
      /\ file_length \in {length, -1} /\ THREAD_NUM \in Nat /\ THREAD_NUM > 2
      /\ SliceInv(index[t]) /\ ThreadInv(t)
  BY <1>1, TransferFacts
<1>3. b = s.begin_iter /\ e = s.end_iter /\ chunk[t] = <<>> /\ b = Cur(t)
  BY <1>1, <1>2 DEF ThreadInv, SliceInv, Cur
<1>4. tpc \in [Index -> ThreadPC] /\ body \in [Index -> Seq(Bytes)] /\ paged \subseteq paged'
  BY <1>1 DEF IInv, TypeOK, Bytes
<1>5. Len(Source(0, length - 1)) = length /\ \A k \in 1 .. length : Source(0, length - 1)[k] = k - 1
  <2> DEFINE last == length - 1
  <2>1. last \in Int /\ last - 0 + 1 = length /\ 0 \in Nat /\ length \in Nat
    BY <1>2
  <2> HIDE DEF last
  <2>2. Len(Source(0, last)) = length /\ \A k \in 1 .. length : Source(0, last)[k] = 0 + k - 1
    BY <2>1, SourceBytes
  <2> QED
    BY <2>2 DEF last
<1>6. /\ tpc'[t] = "body" /\ chunk'[t] = <<>> /\ Len(chunk'[t]) = 0
      /\ Cur(t)' = b /\ s' = s /\ Sliced' = Sliced
  BY <1>1, <1>3, <1>4 DEF Cur, Slice, SliceLength, Sliced
<1>7. ASSUME Sliced, t \notin paged' PROVE CutInv(t)'
  <2>1. /\ s.begin_iter \in Nat /\ s.end_iter \in Nat /\ s.end_iter < length
        /\ s.begin_iter <= s.end_iter + 1
        /\ s.end_iter + 1 < s.begin_iter + length
    BY <1>2, <1>7, CutBounds DEF IInv
  <2>2. ToLong(b) = b /\ ToLong(e) = e
    BY <1>2, <1>3, <2>1 DEF ToLong
  <2>3. \/ body'[t] = Source(0, length - 1)
        \/ b <= e /\ body'[t] = Source(b, e)
    <3>1. b \in Nat /\ e \in Nat /\ e < length
      BY <1>3, <2>1
    <3>2. \E a \in Answers(ToLong(b), ToLong(e)) : body' = [body EXCEPT ![t] = a]
      BY <1>1, <1>7
    <3> HIDE DEF s, b, e
    <3>3. PICK a \in Answers(b, e) : body' = [body EXCEPT ![t] = a]
      BY <2>2, <3>2
    <3>4. a = Source(0, length - 1) \/ (b <= e /\ a = Source(b, IF e < length THEN e ELSE length - 1))
      BY <3>3 DEF Answers
    <3>5. (IF e < length THEN e ELSE length - 1) = e
      BY <3>1
    <3> QED
      BY <1>4, <3>3, <3>4, <3>5
  <2> HIDE DEF s, b, e
  <2>4. CASE body'[t] = Source(0, length - 1)
    <3>1. (Cur(t) + Len(chunk[t]) + Len(body[t]) > s.end_iter + 1)'
      <4>1. Len(body'[t]) = length /\ Cur(t)' = s.begin_iter /\ Len(chunk'[t]) = 0
        BY <1>3, <1>5, <1>6, <2>4
      <4>2. s.begin_iter + 0 + length > s.end_iter + 1
        BY <1>2, <2>1
      <4> QED
        BY <1>6, <4>1, <4>2
    <3> QED
      BY <1>6, <3>1 DEF CutInv, Transferring, s
  <2>5. CASE b <= e /\ body'[t] = Source(b, e)
    <3>1. Len(body'[t]) = e - b + 1 /\ \A k \in 1 .. Len(body'[t]) : body'[t][k] = b + k - 1
      <4>1. b \in Nat /\ e \in Int /\ e - b + 1 \in Nat
        BY <1>3, <2>1, <2>5
      <4> QED
        BY <2>5, <4>1, SourceBytes
    <3>2. Ahead(t, s.end_iter)'
      BY <1>3, <1>6, <2>1, <3>1 DEF Ahead
    <3>3. Right(s.begin_iter, Cur(t) - 1)'
      <4>1. s.begin_iter .. (s.begin_iter - 1) = {}
        BY <2>1
      <4>2. (s.begin_iter .. (Cur(t) - 1))' = s.begin_iter .. (s.begin_iter - 1)
        BY <1>3, <1>6
      <4> QED
        BY <4>1, <4>2 DEF Right
    <3> QED
      BY <1>6, <3>2, <3>3 DEF CutInv, Transferring, s
  <2> QED
    BY <2>3, <2>4, <2>5
<1>8. ASSUME file_length = -1, paged' = {} PROVE WholeInv(t)'
  <2>1. b = 0 /\ e = Width - 2
    <3>1. -1 \in Lengths \cup {-1} /\ -1 < THREAD_NUM - 1 /\ length \in Lengths
      BY <1>2 DEF IInv, TypeOK
    <3>2. Slice(-1, index[t]).begin_iter = 0 /\ Slice(-1, index[t]).end_iter = Width - 2
      BY <1>2, <3>1, NoCutBounds
    <3> QED
      BY <1>3, <1>8, <3>2
  <2>2. ToLong(b) = 0 /\ ToLong(e) = -2
    BY <1>2, <2>1 DEF ToLong
  <2>3. Answers(ToLong(b), ToLong(e)) = {Source(0, length - 1)}
    BY <2>2 DEF Answers
  <2>4. body'[t] = Source(0, length - 1)
    <3>1. t \notin paged'
      BY <1>8
    <3> QED
      BY <1>1, <1>4, <2>3, <3>1
  <2> HIDE DEF s, b, e
  <2>5. Ahead(t, length - 1)'
    BY <1>1, <1>2, <1>5, <1>6, <2>1, <2>4 DEF Ahead
  <2>6. (0 .. Cur(t) - 1 \subseteq DOMAIN g_pFile)'
    BY <1>6, <2>1
  <2> QED
    BY <1>6, <2>5, <2>6 DEF WholeInv
<1>9. ThreadInv(t)'
  BY <1>1, <1>6, <1>7, <1>8 DEF ThreadInv
<1>10. \A u \in Index : u # t => tpc'[u] = tpc[u] /\ chunk'[u] = chunk[u] /\ body'[u] = body[u]
  BY <1>1, <1>4
<1> QED
  BY <1>1, <1>2, <1>4, <1>9, <1>10, OwnStep

(* All of the body has come: a slice is right to its end, and one that was *)
(* sent more than it has room for is not here.                             *)
LEMMA CompleteFileKeeps == ASSUME IInv, FileInv, NEW t \in Index, Complete(t) PROVE FileInv'
<1>1. /\ tpc[t] = "body" /\ body[t] = <<>> /\ tpc' = [tpc EXCEPT ![t] = "ok"]
      /\ UNCHANGED <<length, file_length, mpc, g_interval, index, body, paged, chunk, g_mutex, position, g_pFile>>
  BY DEF Complete, claim, transfer, local
<1>2. /\ mpc # "slice" /\ index[t] \in Index /\ Cur(t) \in Nat /\ length \in Nat
      /\ SliceInv(index[t]) /\ ThreadInv(t)
  BY <1>1, TransferFacts
<1>3. tpc \in [Index -> ThreadPC]
  BY DEF IInv, TypeOK
<1>4. chunk[t] = <<>> /\ Len(chunk[t]) = 0 /\ Len(body[t]) = 0 /\ tpc'[t] = "ok" /\ Transferring(t)
  BY <1>1, <1>2, <1>3 DEF ThreadInv, Transferring
<1>5. ASSUME Sliced, t \notin paged PROVE CutInv(t)'
  <2> DEFINE s == Slice(file_length, index[t])
  <2>1. s.begin_iter \in Nat /\ s.end_iter \in Nat /\ Cur(t) <= s.end_iter + 1
    BY <1>2, <1>5, CutBounds DEF IInv, SliceInv, Cur
  <2>2. \/ Ahead(t, s.end_iter) /\ Right(s.begin_iter, Cur(t) - 1)
        \/ Cur(t) + Len(chunk[t]) + Len(body[t]) > s.end_iter + 1
    BY <1>2, <1>4, <1>5 DEF ThreadInv, CutInv
  <2>3. Ahead(t, s.end_iter) => Cur(t) + Len(chunk[t]) + Len(body[t]) = s.end_iter + 1
    BY DEF Ahead
  <2> HIDE DEF s
  <2>4. Cur(t) = s.end_iter + 1 /\ Right(s.begin_iter, Cur(t) - 1)
    BY <1>2, <1>4, <2>1, <2>2, <2>3
  <2>5. Cur(t) - 1 = s.end_iter
    BY <1>2, <2>1, <2>4
  <2>6. Right(s.begin_iter, s.end_iter)'
    BY <1>1, <2>4, <2>5 DEF Right, s, Slice, SliceLength
  <2> QED
    BY <1>1, <1>4, <2>6 DEF CutInv, Transferring, s, Slice, SliceLength
<1>6. ASSUME file_length = -1, paged = {} PROVE WholeInv(t)'
  <2>1. Ahead(t, length - 1) /\ 0 .. Cur(t) - 1 \subseteq DOMAIN g_pFile
    BY <1>2, <1>4, <1>6 DEF ThreadInv, WholeInv
  <2>2. Cur(t) = length
    BY <1>2, <1>4, <2>1 DEF Ahead
  <2> QED
    BY <1>1, <1>4, <2>1, <2>2 DEF WholeInv, Transferring
<1>7. ThreadInv(t)'
  BY <1>1, <1>4, <1>5, <1>6 DEF ThreadInv, Sliced
<1>8. \A u \in Index : u # t => tpc'[u] = tpc[u] /\ chunk'[u] = chunk[u] /\ body'[u] = body[u]
  BY <1>1, <1>3
<1> QED
  BY <1>1, <1>2, <1>7, <1>8, OwnStep

LEMMA BreakFileKeeps == ASSUME IInv, FileInv, NEW t \in Index, Break(t) PROVE FileInv'
<1>1. /\ tpc[t] \in {"request", "body"} /\ tpc' = [tpc EXCEPT ![t] = "failed"]
      /\ body' = [body EXCEPT ![t] = <<>>]
      /\ UNCHANGED <<length, file_length, mpc, g_interval, index, paged, chunk, g_mutex, position, g_pFile>>
  BY DEF Break, claim, local
<1>2. mpc # "slice" /\ ThreadInv(t)
  BY <1>1, TransferFacts
<1>3. tpc \in [Index -> ThreadPC] /\ body \in [Index -> Seq(Bytes)]
  BY DEF IInv, TypeOK, Bytes
<1>4. ThreadInv(t)'
  BY <1>1, <1>2, <1>3 DEF ThreadInv, CutInv, WholeInv, Transferring
<1>5. \A u \in Index : u # t => tpc'[u] = tpc[u] /\ chunk'[u] = chunk[u] /\ body'[u] = body[u]
  BY <1>1, <1>3
<1> QED
  BY <1>1, <1>2, <1>4, <1>5, OwnStep

(* write_callback waits for its lock: no other thread writes. *)
LEMMA SeekFileKeeps == ASSUME IInv, FileInv, NEW t \in Index, Seek(t) PROVE FileInv'
<1>1. /\ tpc[t] = "seek" /\ tpc' = [tpc EXCEPT ![t] = "write"] /\ g_mutex = -1 /\ g_mutex' = t
      /\ position' = g_interval[index[t]].begin_iter
      /\ UNCHANGED <<length, file_length, mpc, g_interval, index, body, paged, chunk, g_pFile>>
  BY DEF Seek, claim, transfer
<1>2. mpc # "slice" /\ ThreadInv(t)
  BY <1>1, TransferFacts
<1>3. tpc \in [Index -> ThreadPC]
  BY DEF IInv, TypeOK
<1>4. ThreadInv(t)'
  <2>1. tpc'[t] = "write" /\ Transferring(t) /\ Cur(t)' = Cur(t) /\ position' = Cur(t)
    BY <1>1, <1>3 DEF Transferring, Cur
  <2>2. CutInv(t) => CutInv(t)'
    BY <1>1, <2>1 DEF CutInv, Ahead, Right, Slice, SliceLength
  <2>3. WholeInv(t) => WholeInv(t)'
    BY <1>1, <2>1 DEF WholeInv, Ahead
  <2> QED
    BY <1>1, <1>2, <2>1, <2>2, <2>3 DEF ThreadInv, Sliced
<1>5. ASSUME NEW u \in Index, u # t
      PROVE  tpc'[u] = tpc[u] /\ chunk'[u] = chunk[u] /\ body'[u] = body[u] /\ tpc[u] # "write"
  <2>1. u \in Nat
    BY DownloadAssumption DEF Index
  <2>2. tpc[u] # "write"
    BY <1>1, <2>1 DEF FileInv, ThreadInv
  <2> QED
    BY <1>1, <1>3, <1>5, <2>2
<1> QED
  BY <1>1, <1>2, <1>4, <1>5, OwnStep

(* The next bytes of a body, and those after them. *)
LEMMA Split ==
    ASSUME NEW q \in Seq(Bytes), NEW n \in Nat \ {0}, NEW m \in Nat,
           n < Len(q) => m = n, ~(n < Len(q)) => m = Len(q)
    PROVE  /\ m <= Len(q)
           /\ Len(SubSeq(q, 1, m)) = m /\ \A k \in 1 .. m : SubSeq(q, 1, m)[k] = q[k]
           /\ Len(SubSeq(q, n + 1, Len(q))) = Len(q) - m
           /\ \A k \in 1 .. Len(q) - m : SubSeq(q, n + 1, Len(q))[k] = q[m + k]
<1>1. m \in Nat /\ m <= Len(q) /\ Len(q) \in Nat
  OBVIOUS
<1>2. Len(SubSeq(q, 1, m)) = m /\ \A k \in 1 .. m : SubSeq(q, 1, m)[k] = q[k]
  BY <1>1
<1>3. CASE n < Len(q)
  <2>1. m = n /\ n + 1 \in 1 .. Len(q)
    BY <1>3
  <2>2. SubSeq(q, n + 1, Len(q)) = [k \in 1 .. Len(q) - n |-> q[n + k]]
    BY <1>1, <1>3, SubSeqProperties
  <2> QED
    BY <1>1, <1>2, <2>1, <2>2
<1>4. CASE ~(n < Len(q))
  BY <1>1, <1>2, <1>4
<1> QED
  BY <1>3, <1>4

(* What was to come is in the chunk now, or still to come. *)
LEMMA DeliverFileKeeps == ASSUME IInv, FileInv, NEW t \in Index, Deliver(t) PROVE FileInv'
<1>1. PICK n \in Chunks :
         /\ chunk' = [chunk EXCEPT ![t] = SubSeq(body[t], 1, IF n < Len(body[t]) THEN n ELSE Len(body[t]))]
         /\ body' = [body EXCEPT ![t] = SubSeq(body[t], n + 1, Len(body[t]))]
  BY DEF Deliver
<1>2. /\ tpc[t] = "body" /\ tpc' = [tpc EXCEPT ![t] = "seek"]
      /\ UNCHANGED <<length, file_length, mpc, g_interval, index, paged, g_mutex, position, g_pFile>>
  BY DEF Deliver, claim, local
<1>3. mpc # "slice" /\ ThreadInv(t) /\ Cur(t) \in Nat /\ body[t] \in Seq(Bytes)
  BY <1>2, TransferFacts
<1>4. tpc \in [Index -> ThreadPC] /\ body \in [Index -> Seq(Bytes)] /\ chunk \in [Index -> Seq(Bytes)]
  BY DEF IInv, TypeOK, Bytes
<1> DEFINE l == Len(body[t])
           m == IF n < l THEN n ELSE l
<1>5. /\ m \in Nat /\ m <= l /\ l \in Nat
      /\ Len(chunk'[t]) = m /\ \A k \in 1 .. m : chunk'[t][k] = body[t][k]
      /\ Len(body'[t]) = l - m /\ \A k \in 1 .. l - m : body'[t][k] = body[t][m + k]
  <2>1. chunk'[t] = SubSeq(body[t], 1, m) /\ body'[t] = SubSeq(body[t], n + 1, l)
    BY <1>1, <1>4
  <2>2. n \in Nat \ {0} /\ l \in Nat
    BY <1>3, DownloadAssumption
  <2> DEFINE q == body[t]
  <2> HIDE DEF q
  <2>3. /\ q \in Seq(Bytes) /\ l = Len(q) /\ m \in Nat
        /\ (n < Len(q) => m = n) /\ (~(n < Len(q)) => m = Len(q))
    BY <1>3, <2>2 DEF q
  <2> HIDE DEF m, l
  <2>4. /\ m <= Len(q)
        /\ Len(SubSeq(q, 1, m)) = m /\ \A k \in 1 .. m : SubSeq(q, 1, m)[k] = q[k]
        /\ Len(SubSeq(q, n + 1, Len(q))) = Len(q) - m
        /\ \A k \in 1 .. Len(q) - m : SubSeq(q, n + 1, Len(q))[k] = q[m + k]
    BY <2>2, <2>3, Split
  <2> QED
    BY <2>1, <2>2, <2>3, <2>4 DEF q
<1> HIDE DEF m, l
<1>6. chunk[t] = <<>> /\ Len(chunk[t]) = 0 /\ tpc'[t] = "seek" /\ Cur(t)' = Cur(t)
  BY <1>2, <1>3, <1>4 DEF ThreadInv, Cur
<1>7. \A last : Ahead(t, last) => Ahead(t, last)'
  <2> SUFFICES ASSUME NEW last, Ahead(t, last) PROVE Ahead(t, last)'
    BY <1>2
  <2>1. Cur(t) + 0 + l = last + 1 /\ \A k \in 1 .. l : body[t][k] = Cur(t) + 0 + k - 1
    BY <1>6 DEF Ahead, l
  <2>2. Cur(t) + m + (l - m) = last + 1
    BY <1>3, <1>5, <2>1
  <2>3. \A k \in 1 .. m : chunk'[t][k] = Cur(t) + k - 1
    BY <1>3, <1>5, <2>1
  <2>4. \A k \in 1 .. l - m : body'[t][k] = Cur(t) + m + k - 1
    BY <1>3, <1>5, <2>1
  <2> QED
    BY <1>5, <1>6, <2>2, <2>3, <2>4 DEF Ahead
<1>8. ASSUME Sliced, t \notin paged PROVE CutInv(t)'
  <2> DEFINE s == Slice(file_length, index[t])
  <2>1. s' = s /\ Transferring(t)
    BY <1>2 DEF Slice, SliceLength, Transferring
  <2>2. \/ Ahead(t, s.end_iter) /\ Right(s.begin_iter, Cur(t) - 1)
        \/ Cur(t) + Len(chunk[t]) + Len(body[t]) > s.end_iter + 1
    BY <1>3, <1>8, <2>1 DEF ThreadInv, CutInv
  <2>3. Ahead(t, s.end_iter) => Ahead(t, s.end_iter)'
    BY <1>7, <2>1
  <2>4. Right(s.begin_iter, Cur(t) - 1) => Right(s.begin_iter, Cur(t) - 1)'
    BY <1>2, <1>6, <2>1 DEF Right
  <2> HIDE DEF s
  <2>5. Cur(t)' + Len(chunk'[t]) + Len(body'[t]) = Cur(t) + Len(chunk[t]) + Len(body[t])
    BY <1>3, <1>5, <1>6 DEF l
  <2>6. (\/ Ahead(t, s.end_iter) /\ Right(s.begin_iter, Cur(t) - 1)
         \/ Cur(t) + Len(chunk[t]) + Len(body[t]) > s.end_iter + 1)'
    BY <2>1, <2>2, <2>3, <2>4, <2>5
  <2> QED
    BY <1>6, <2>6 DEF CutInv, s
<1>9. ASSUME file_length = -1, paged = {} PROVE WholeInv(t)'
  <2>1. Ahead(t, length - 1) /\ 0 .. Cur(t) - 1 \subseteq DOMAIN g_pFile
    BY <1>2, <1>3, <1>9 DEF ThreadInv, WholeInv, Transferring
  <2>2. Ahead(t, length - 1)'
    BY <1>2, <1>7, <2>1 DEF Ahead
  <2> QED
    BY <1>2, <1>6, <2>1, <2>2 DEF WholeInv
<1>10. ThreadInv(t)'
  BY <1>2, <1>6, <1>8, <1>9 DEF ThreadInv, Sliced
<1>11. \A u \in Index : u # t => tpc'[u] = tpc[u] /\ chunk'[u] = chunk[u] /\ body'[u] = body[u]
  BY <1>1, <1>2, <1>4
<1> QED
  BY <1>2, <1>3, <1>10, <1>11, OwnStep

(* There is room for what is left of a slice, none in an empty one, and    *)
(* for the whole of a file whose length is not known.                      *)
LEMMA RoomLeft ==
    ASSUME IInv, FileInv, NEW t \in Index, tpc[t] = "write"
    PROVE  LET r == Room(g_interval[index[t]]) IN
           /\ r \in Nat
           /\ Sliced => r = Slice(file_length, index[t]).end_iter - Cur(t) + 1
           /\ 0 <= file_length /\ file_length < THREAD_NUM - 1 => r = 0 /\ Cur(t) = 0
           /\ file_length = -1 => r = (Width - 1 - Cur(t)) % Width
<1> DEFINE s == Slice(file_length, index[t])
           e == g_interval[index[t]].end_iter
<1>1. /\ mpc # "slice" /\ index[t] \in Index /\ Cur(t) \in Nat /\ length \in Lengths /\ length \in Nat
      /\ Width \in Nat /\ 2 * length + 4 < Width
      /\ file_length \in Lengths \cup {-1} /\ SliceInv(index[t])
  BY TransferFacts DEF IInv, LengthKnown
<1>2. e = s.end_iter /\ e \in Nat /\ Room(g_interval[index[t]]) = (e - Cur(t) + 1) % Width
  BY <1>1, DownloadAssumption DEF SliceInv, Room, ToSize, Cur, IInv, TypeOK
<1>3. (e - Cur(t) + 1) % Width \in Nat
  BY <1>1, <1>2
<1>4. ASSUME Sliced PROVE (e - Cur(t) + 1) % Width = s.end_iter - Cur(t) + 1
  <2>1. s.begin_iter \in Nat /\ s.end_iter \in Nat /\ s.end_iter < length /\ Cur(t) <= s.end_iter + 1
    BY <1>1, <1>4, CutBounds DEF IInv, SliceInv, Cur
  <2>2. e - Cur(t) + 1 \in 0 .. Width - 1
    BY <1>1, <1>2, <2>1
  <2>3. \A m \in 0 .. Width - 1 : m % Width = m
    BY <1>1
  <2> QED
    BY <1>2, <2>2, <2>3
<1>5. ASSUME 0 <= file_length, file_length < THREAD_NUM - 1 PROVE (e - Cur(t) + 1) % Width = 0 /\ Cur(t) = 0
  <2>1. s.end_iter = Width - 1 /\ Cur(t) = 0
    BY <1>1, <1>5, NoCutBounds DEF SliceInv, Cur
  <2>2. Width % Width = 0
    BY <1>1
  <2>3. e - Cur(t) + 1 = Width
    BY <1>1, <1>2, <2>1
  <2> QED
    BY <2>1, <2>2, <2>3
<1>6. ASSUME file_length = -1 PROVE (e - Cur(t) + 1) % Width = (Width - 1 - Cur(t)) % Width
  <2>1. s.end_iter = Width - 2
    BY <1>1, <1>6, NoCutBounds, DownloadAssumption
  <2>2. e - Cur(t) + 1 = Width - 1 - Cur(t)
    BY <1>1, <1>2, <2>1
  <2> QED
    BY <2>2
<1> QED
  BY <1>2, <1>3, <1>4, <1>5, <1>6, Zenon

(* The chunk is written where the slice goes on, and not beyond its end:   *)
(* the other slices stay as they are.  A chunk that is written in full has *)
(* had room, and begin_iter moves on by it.                                *)
LEMMA WriteFileKeeps == ASSUME IInv, FileInv, NEW t \in Index, Write(t) PROVE FileInv'
<1> DEFINE i == index[t]
           c == Cur(t)
           l == Len(chunk[t])
           rest == Len(body[t])
           r == Room(g_interval[i])
           s == Slice(file_length, i)
<1>1. PICK n \in 0 .. l :
         /\ n <= r /\ g_pFile' = Written(chunk[t], n)
         /\ \/ n = l /\ tpc' = [tpc EXCEPT ![t] = "body"] /\ body' = body
            \/ n # l /\ tpc' = [tpc EXCEPT ![t] = "failed"] /\ body' = [body EXCEPT ![t] = <<>>]
  BY DEF Write
<1>2. /\ tpc[t] = "write" /\ chunk' = [chunk EXCEPT ![t] = <<>>]
      /\ UNCHANGED <<length, file_length, index, mpc, paged>>
      /\ l <= r => g_interval' = [g_interval EXCEPT ![i].begin_iter = (g_interval[i].begin_iter + l) % Width]
      /\ ~(l <= r) => g_interval' = g_interval
  BY DEF Write, Fits, ToSize
<1>3. /\ mpc # "slice" /\ i \in Index /\ t \in Nat /\ c \in Nat /\ length \in Nat
      /\ Width \in Nat /\ 2 * length + 4 < Width
      /\ body[t] \in Seq(Bytes) /\ chunk[t] \in Seq(Bytes) /\ file_length \in {length, -1}
      /\ THREAD_NUM \in Nat /\ THREAD_NUM > 2 /\ SliceInv(i) /\ ThreadInv(t)
  BY <1>2, TransferFacts
<1>4. /\ tpc \in [Index -> ThreadPC] /\ chunk \in [Index -> Seq(Bytes)] /\ body \in [Index -> Seq(Bytes)]
      /\ g_interval \in [Index -> Interval]
  BY DEF IInv, TypeOK, Bytes, Interval, Sizes
<1>5. /\ r \in Nat /\ l \in Nat /\ n \in Nat /\ n <= l /\ n <= r /\ c \in Nat
      /\ rest \in Nat /\ length \in Nat /\ Width \in Nat /\ 2 * length + 4 < Width
  BY <1>1, <1>2, <1>3, RoomLeft
<1>6. /\ Sliced => r = s.end_iter - c + 1
      /\ 0 <= file_length /\ file_length < THREAD_NUM - 1 => r = 0 /\ c = 0
      /\ file_length = -1 => r = (Width - 1 - c) % Width
  BY <1>2, RoomLeft
<1>7. position = c /\ g_mutex = t
  BY <1>2, <1>3 DEF ThreadInv
<1>8. /\ DOMAIN g_pFile' = DOMAIN g_pFile \cup (c .. c + n - 1)
      /\ g_pFile' = [p \in DOMAIN g_pFile' |-> g_pFile'[p]]
      /\ \A p \in c .. c + n - 1 : g_pFile'[p] = chunk[t][p - c + 1]
      /\ \A p \in DOMAIN g_pFile : p \notin c .. c + n - 1 => g_pFile'[p] = g_pFile[p]
  <2> HIDE DEF c, l, r
  <2>1. position \in Nat /\ n \in Nat /\ g_pFile' = Written(chunk[t], n)
    BY <1>1, <1>5, <1>7
  <2>2. /\ DOMAIN g_pFile' = DOMAIN g_pFile \cup (position .. position + n - 1)
        /\ g_pFile' = [p \in DOMAIN g_pFile' |-> g_pFile'[p]]
        /\ \A p \in position .. position + n - 1 : g_pFile'[p] = chunk[t][p - position + 1]
        /\ \A p \in DOMAIN g_pFile : p \notin position .. position + n - 1 => g_pFile'[p] = g_pFile[p]
    BY <2>1 DEF Written
  <2> QED
    BY <1>7, <2>2
<1>9. /\ \A j \in Index : /\ g_interval'[j].end_iter = g_interval[j].end_iter
                          /\ g_interval'[j].use = g_interval[j].use
                          /\ j # i => g_interval'[j].begin_iter = g_interval[j].begin_iter
      /\ g_interval[i].begin_iter = c /\ g_interval'[i].begin_iter = Cur(t)'
      /\ l <= r => Cur(t)' = (c + l) % Width
      /\ ~(l <= r) => Cur(t)' = c
  <2>1. g_interval[i] \in Interval /\ g_interval[i].begin_iter = c /\ Cur(t)' = g_interval'[i].begin_iter
    BY <1>2, <1>3, <1>4 DEF Cur
  <2> HIDE DEF c, i, l, r
  <2>2. CASE l <= r
    <3> DEFINE m == (g_interval[i].begin_iter + l) % Width
    <3> HIDE DEF m
    <3>1. g_interval' = [g_interval EXCEPT ![i].begin_iter = m]
      BY <1>2, <2>2 DEF m
    <3>2. g_interval'[i] = [g_interval[i] EXCEPT !.begin_iter = m] /\ \A j \in Index : j # i => g_interval'[j] = g_interval[j]
      BY <1>3, <1>4, <3>1
    <3>3. g_interval'[i].begin_iter = m /\ g_interval'[i].end_iter = g_interval[i].end_iter /\ g_interval'[i].use = g_interval[i].use
      BY <2>1, <3>2 DEF Interval
    <3>4. m = (c + l) % Width
      BY <2>1 DEF m
    <3> QED
      BY <2>1, <2>2, <3>2, <3>3, <3>4
  <2>3. CASE ~(l <= r)
    BY <1>2, <2>1, <2>3
  <2> QED
    BY <2>2, <2>3
<1>10. /\ tpc'[t] \in {"body", "failed"} /\ chunk'[t] = <<>> /\ Len(chunk'[t]) = 0
       /\ tpc'[t] = "body" => n = l /\ body'[t] = body[t]
       /\ s' = s /\ Sliced' = Sliced /\ Transferring(t)
  BY <1>1, <1>2, <1>4 DEF Slice, SliceLength, Sliced, Transferring
<1>11. \A m \in 0 .. Width - 1 : m % Width = m
  BY <1>3
<1>12. g_interval[i].use = 1
  BY <1>2, <1>3 DEF IInv, InUse, Holds, Claimed
<1> HIDE DEF l, r, rest
<1>13. ASSUME Sliced
       PROVE  /\ s.begin_iter \in Nat /\ s.end_iter \in Nat /\ s.begin_iter <= c /\ c <= s.end_iter + 1
              /\ c + n <= s.end_iter + 1 /\ Cur(t)' \in c .. s.end_iter + 1
              /\ n = l => Cur(t)' = c + l
  <2>1. /\ s.begin_iter \in Nat /\ s.end_iter \in Nat /\ s.end_iter < length
        /\ s.begin_iter <= c /\ c <= s.end_iter + 1
    BY <1>3, <1>9, <1>13, CutBounds DEF IInv, SliceInv
  <2> HIDE DEF s, c, i
  <2>2. r = s.end_iter - c + 1
    BY <1>13, <1>6
  <2>3. c + n <= s.end_iter + 1 /\ (n = l => l <= r)
    BY <1>5, <2>1, <2>2
  <2>4. l <= r => c + l \in 0 .. Width - 1 /\ c + l <= s.end_iter + 1
    BY <1>5, <2>1, <2>2
  <2>5. l <= r => Cur(t)' = c + l
    BY <1>9, <1>11, <2>4
  <2>6. ~(l <= r) => Cur(t)' = c
    BY <1>9
  <2> QED
    BY <1>5, <2>1, <2>3, <2>4, <2>5, <2>6
<1>14. ASSUME 0 <= file_length, file_length < THREAD_NUM - 1 PROVE n = 0 /\ Cur(t)' = 0
  <2>1. r = 0 /\ c = 0 /\ n = 0
    BY <1>5, <1>14, <1>6
  <2>2. 0 % Width = 0
    BY <1>3, <1>11
  <2>3. l <= r => l = 0
    BY <1>5, <2>1
  <2> HIDE DEF c
  <2> QED
    BY <1>9, <2>1, <2>2, <2>3
<1>15. ASSUME file_length = -1, paged = {}
       PROVE  /\ Ahead(t, length - 1) /\ 0 .. c - 1 \subseteq DOMAIN g_pFile
              /\ Cur(t)' = c + l /\ c + l <= length
  <2>1. Ahead(t, length - 1) /\ 0 .. c - 1 \subseteq DOMAIN g_pFile
    BY <1>3, <1>10, <1>15 DEF ThreadInv, WholeInv
  <2>2. c + l + rest = length - 1 + 1
    BY <2>1 DEF Ahead, l, rest
  <2> HIDE DEF c, i, s
  <2>3. c + l <= length /\ c + l \in 0 .. Width - 1 /\ Width - 1 - c \in 0 .. Width - 1
    BY <1>5, <2>2
  <2>4. r = Width - 1 - c
    BY <1>11, <1>15, <1>6, <2>3
  <2>5. l <= r
    BY <1>5, <2>3, <2>4
  <2>6. Cur(t)' = c + l
    BY <1>9, <1>11, <2>3, <2>5
  <2> QED
    BY <2>1, <2>3, <2>6 DEF c
<1>16. \A j \in Index : SliceInv(j)'
  <2> SUFFICES ASSUME NEW j \in Index PROVE SliceInv(j)'
    OBVIOUS
  <2>1. CASE j # i
    BY <1>2, <1>3, <1>9, <2>1, OtherSlice DEF FileInv
  <2>2. CASE j = i
    <3>1. g_interval'[i].end_iter = s.end_iter /\ g_interval'[i].use = 1
      BY <1>3, <1>9, <1>12 DEF SliceInv
    <3>2. Sliced => s.begin_iter <= Cur(t)' /\ Cur(t)' <= s.end_iter + 1
      <4> HIDE DEF s, c, i
      <4> QED
        BY <1>3, <1>13
    <3>3. 0 <= file_length /\ file_length < THREAD_NUM - 1 => Cur(t)' = 0
      BY <1>14
    <3>4. Slice(file_length, i)' = s /\ i' = i
      BY <1>2, <1>10
    <3>5. g_interval'[i].begin_iter = Cur(t)' /\ file_length' = file_length /\ Sliced' = Sliced
      BY <1>2, <1>9, <1>10
    <3> QED
      BY <2>2, <3>1, <3>2, <3>3, <3>4, <3>5 DEF SliceInv
  <2> QED
    BY <2>1, <2>2
<1>17. ContentInv'
  <2>1. CASE 0 <= file_length /\ file_length < THREAD_NUM - 1
    <3>1. c .. c + n - 1 = {} /\ g_pFile = <<>>
      BY <1>3, <1>14, <2>1 DEF FileInv, ContentInv
    <3>2. DOMAIN g_pFile' = {}
      BY <1>8, <3>1, EmptyFile
    <3>3. g_pFile' = <<>>
      BY <1>8, <3>2, EmptyFile
    <3>4. file_length # -1
      BY <1>3, <2>1
    <3> QED
      BY <1>2, <1>3, <3>3, <3>4 DEF ContentInv
  <2>2. CASE file_length = -1 /\ paged = {}
    <3>1. DOMAIN g_pFile \subseteq 0 .. length - 1 /\ g_pFile = [p \in DOMAIN g_pFile |-> p]
      BY <2>2 DEF FileInv, ContentInv
    <3>2. c + l <= length /\ \A k \in 1 .. l : chunk[t][k] = c + k - 1
      BY <1>15, <2>2 DEF Ahead, l
    <3> HIDE DEF c, i, s
    <3>3. c .. c + n - 1 \subseteq 0 .. length - 1
      BY <1>3, <1>5, <3>2
    <3>4. \A p \in c .. c + n - 1 : g_pFile'[p] = p
      <4> SUFFICES ASSUME NEW p \in c .. c + n - 1 PROVE g_pFile'[p] = p
        OBVIOUS
      <4>1. p - c + 1 \in 1 .. l /\ c + (p - c + 1) - 1 = p
        BY <1>3, <1>5
      <4> QED
        BY <1>8, <3>2, <4>1
    <3>5. \A p \in DOMAIN g_pFile' : g_pFile'[p] = p
      BY <1>8, <3>1, <3>4
    <3>6. g_pFile' = [p \in DOMAIN g_pFile' |-> p]
      BY <1>8, <3>5
    <3>7. DOMAIN g_pFile' \subseteq 0 .. length - 1
      BY <1>8, <3>1, <3>3
    <3>8. ~(0 <= file_length)
      BY <2>2
    <3> QED
      BY <1>2, <1>3, <3>6, <3>7, <3>8 DEF ContentInv
  <2> QED
    BY <1>2, <1>3, <2>1, <2>2 DEF ContentInv
<1>18. ASSUME Sliced, t \notin paged PROVE CutInv(t)'
  <2>1. \/ Ahead(t, s.end_iter) /\ Right(s.begin_iter, c - 1)
        \/ c + l + rest > s.end_iter + 1
    BY <1>3, <1>10, <1>18 DEF ThreadInv, CutInv, l, rest
  <2>3. ASSUME n = l, Ahead(t, s.end_iter), Right(s.begin_iter, c - 1), body'[t] = body[t]
        PROVE  (Ahead(t, s.end_iter) /\ Right(s.begin_iter, Cur(t) - 1))'
    <3>1. /\ c + l + rest = s.end_iter + 1
          /\ \A k \in 1 .. l : chunk[t][k] = c + k - 1
          /\ \A k \in 1 .. rest : body[t][k] = c + l + k - 1
      BY <2>3 DEF Ahead, l, rest
    <3>2. Cur(t)' = c + l
      BY <1>13, <1>18, <2>3
    <3>3. Ahead(t, s.end_iter)'
      <4> HIDE DEF s, c, i
      <4>1. c + l + 0 + rest = s.end_iter + 1
        BY <1>5, <3>1
      <4>2. \A k \in 1 .. rest : body[t][k] = c + l + 0 + k - 1
        BY <1>5, <3>1
      <4>3. \A k \in 1 .. 0 : FALSE
        OBVIOUS
      <4> QED
        BY <1>10, <2>3, <3>2, <4>1, <4>2, <4>3 DEF Ahead, rest
    <3>4. \A p \in s.begin_iter .. c + l - 1 : p \in DOMAIN g_pFile' /\ g_pFile'[p] = p
      <4> HIDE DEF s, c, i
      <4> SUFFICES ASSUME NEW p \in s.begin_iter .. c + l - 1
                   PROVE  p \in DOMAIN g_pFile' /\ g_pFile'[p] = p
        OBVIOUS
      <4>1. p \in Int /\ s.begin_iter \in Nat
        BY <1>13, <1>18
      <4>2. CASE p < c
        <5>1. p \in s.begin_iter .. c - 1 /\ p \notin c .. c + n - 1
          BY <1>3, <1>5, <4>1, <4>2
        <5> QED
          BY <1>8, <2>3, <5>1 DEF Right
      <4>3. CASE ~(p < c)
        <5>1. p \in c .. c + n - 1 /\ p - c + 1 \in 1 .. l /\ c + (p - c + 1) - 1 = p
          BY <1>3, <1>5, <2>3, <4>1, <4>3
        <5> QED
          BY <1>8, <3>1, <5>1
      <4> QED
        BY <4>2, <4>3
    <3>5. Right(s.begin_iter, Cur(t) - 1)'
      <4> HIDE DEF c, i, s
      <4>1. (s.begin_iter .. Cur(t) - 1)' = s.begin_iter .. (c + l - 1)
        <5>1. (Cur(t) - 1)' = c + l - 1
          BY <1>5, <3>2 DEF Cur
        <5>2. s' = s
          BY <1>10
        <5> QED
          BY <5>1, <5>2
      <4> QED
        BY <3>4, <4>1 DEF Right
    <3> QED
      BY <3>3, <3>5
  <2>4. ASSUME n = l, body'[t] = body[t], c + l + rest > s.end_iter + 1
        PROVE  (Cur(t) + Len(chunk[t]) + Len(body[t]) > s.end_iter + 1)'
    <3>1. Cur(t)' = c + l
      BY <1>13, <1>18, <2>4
    <3> HIDE DEF c, i, s
    <3>2. c + l + 0 + rest > s.end_iter + 1
      BY <1>5, <1>13, <1>18, <2>4
    <3> QED
      BY <1>10, <2>4, <3>1, <3>2 DEF rest
  <2>5. tpc'[t] = "body" => (\/ Ahead(t, s.end_iter) /\ Right(s.begin_iter, Cur(t) - 1)
                             \/ Cur(t) + Len(chunk[t]) + Len(body[t]) > s.end_iter + 1)'
    BY <1>10, <2>1, <2>3, <2>4
  <2> QED
    BY <1>10, <2>5 DEF CutInv, Transferring
<1>19. ASSUME file_length = -1, paged = {} PROVE WholeInv(t)'
  <2>1. /\ c + l + rest = length - 1 + 1
        /\ \A k \in 1 .. rest : body[t][k] = c + l + k - 1
        /\ 0 .. c - 1 \subseteq DOMAIN g_pFile /\ Cur(t)' = c + l
    BY <1>15, <1>19 DEF Ahead, l, rest
  <2> SUFFICES ASSUME n = l, body'[t] = body[t]
               PROVE  (Ahead(t, length - 1) /\ 0 .. Cur(t) - 1 \subseteq DOMAIN g_pFile)'
    BY <1>10 DEF WholeInv, Transferring
  <2> HIDE DEF c, i, s
  <2>3. c + l + 0 + rest = length - 1 + 1
    BY <1>5, <2>1
  <2>4. \A k \in 1 .. rest : body[t][k] = c + l + 0 + k - 1
    BY <1>5, <2>1
  <2>5. Ahead(t, length - 1)'
    <3>1. \A k \in 1 .. 0 : FALSE
      OBVIOUS
    <3> QED
      BY <1>2, <1>10, <2>1, <2>3, <2>4, <3>1 DEF Ahead, rest
  <2>6. 0 .. c + l - 1 \subseteq (0 .. c - 1) \cup (c .. c + n - 1)
    BY <1>5
  <2>7. (Cur(t) - 1)' = c + l - 1
    BY <1>5, <2>1 DEF Cur
  <2>8. (0 .. Cur(t) - 1 \subseteq DOMAIN g_pFile)'
    BY <1>8, <2>1, <2>6, <2>7
  <2> QED
    BY <2>5, <2>8
<1>20. ThreadInv(t)'
  BY <1>2, <1>10, <1>18, <1>19 DEF ThreadInv, Sliced
<1>21. ASSUME NEW u \in Index, u # t PROVE ThreadInv(u)'
  <2>1. tpc'[u] = tpc[u] /\ chunk'[u] = chunk[u] /\ body'[u] = body[u]
    BY <1>1, <1>2, <1>4, <1>21
  <2>2. tpc[u] # "write"
    BY <1>7, <1>21 DEF FileInv, ThreadInv
  <2>3. CASE Claimed(u)
    <3>1. index[u] \in Index /\ index[u] # i
      BY <1>2, <1>21, <2>3 DEF IInv, OneThreadPerSlice, Claimed, TypeOK
    <3>2. Sliced => \A p \in Planned(index[u]) \cap DOMAIN g_pFile : g_pFile'[p] = g_pFile[p]
      <4> SUFFICES ASSUME Sliced, NEW p \in DOMAIN g_pFile, p \in Planned(index[u]) PROVE g_pFile'[p] = g_pFile[p]
        OBVIOUS
      <4>1. p \notin Planned(i)
        BY <1>3, <3>1, CutPartition DEF IInv, SlicesPartition
      <4>2. c .. c + n - 1 \subseteq s.begin_iter .. s.end_iter
        <5> HIDE DEF c, s, i
        <5> QED
          BY <1>3, <1>5, <1>13
      <4> QED
        BY <1>8, <4>1, <4>2 DEF Planned
    <3>3. DOMAIN g_pFile \subseteq DOMAIN g_pFile'
      BY <1>8
    <3>4. g_interval'[index[u]].begin_iter = g_interval[index[u]].begin_iter
      BY <1>9, <3>1
    <3> QED
      BY <1>2, <1>3, <2>1, <2>2, <3>2, <3>3, <3>4, OtherThread
  <2>4. CASE ~Claimed(u)
    <3>1. tpc'[u] \in {"none", "claim"} /\ chunk'[u] = <<>>
      BY <2>1, <2>4 DEF Claimed, FileInv, ThreadInv
    <3> QED
      BY <3>1 DEF ThreadInv, CutInv, WholeInv, Transferring
  <2> QED
    BY <2>3, <2>4
<1> QED
  BY <1>16, <1>17, <1>20, <1>21 DEF FileInv

(* The first state: main has not cut the file yet. *)
LEMMA InitFile == Init => FileInv
<1> SUFFICES ASSUME Init PROVE FileInv
  OBVIOUS
<1>1. mpc = "slice" /\ g_pFile = <<>> /\ paged = {}
  BY DEF Init
<1>2. ContentInv
  BY <1>1, EmptyFile DEF ContentInv
<1>3. \A i \in Index : SliceInv(i)
  BY <1>1 DEF SliceInv
<1>4. \A t \in Index : ThreadInv(t)
  BY DEF Init, ThreadInv, CutInv, WholeInv, Transferring
<1> QED
  BY <1>2, <1>3, <1>4 DEF FileInv

LEMMA FileStep == IInv /\ IInv' /\ FileInv /\ [Next]_vars => FileInv'
<1> SUFFICES ASSUME IInv, IInv', FileInv, [Next]_vars PROVE FileInv'
  OBVIOUS
<1>1. CASE slice_file
  BY <1>1, SliceFileKeeps
<1>2. CASE CreateThread \/ Join
  BY <1>2, MainFileKeeps
<1>3. ASSUME NEW t \in Index, ThreadStep(t) PROVE FileInv'
  <2>1. CASE Search(t) \/ Claim(t)
    BY <2>1, SearchFileKeeps
  <2>2. CASE Request(t)
    BY <2>2, RequestFileKeeps
  <2>3. CASE Complete(t)
    BY <2>3, CompleteFileKeeps
  <2>4. CASE Break(t)
    BY <2>4, BreakFileKeeps
  <2>5. CASE Deliver(t)
    BY <2>5, DeliverFileKeeps
  <2>6. CASE Seek(t)
    BY <2>6, SeekFileKeeps
  <2>7. CASE Write(t)
    BY <2>7, WriteFileKeeps
  <2> QED
    BY <1>3, <2>1, <2>2, <2>3, <2>4, <2>5, <2>6, <2>7 DEF ThreadStep
<1>4. CASE UNCHANGED vars
  <2> USE <1>4 DEF vars, claim, transfer, local
  <2>1. /\ UNCHANGED <<length, file_length, g_interval, mpc, tpc, index, body, paged, chunk>>
        /\ UNCHANGED <<g_mutex, position, g_pFile>>
    OBVIOUS
  <2>2. \A t \in Index : ThreadInv(t)'
    BY <2>1 DEF FileInv, ThreadInv, CutInv, WholeInv, Transferring, Ahead, Right, Cur, Sliced, Slice, SliceLength
  <2>3. \A i \in Index : SliceInv(i)'
    BY <2>1 DEF FileInv, SliceInv, Sliced, Slice, SliceLength
  <2>4. ContentInv'
    BY <2>1 DEF FileInv, ContentInv
  <2> QED
    BY <2>2, <2>3, <2>4 DEF FileInv
<1> QED
  BY <1>1, <1>2, <1>3, <1>4 DEF Next, MainStep

(* An ended transfer has its slice right, or the whole file. *)
LEMMA FileIsRight == IInv /\ FileInv => OkSlicesAreRight
<1> SUFFICES ASSUME IInv, FileInv PROVE OkSlicesAreRight
  OBVIOUS
<1>1. ASSUME mpc # "slice", 0 <= file_length, file_length < THREAD_NUM - 1 PROVE g_pFile = <<>>
  BY <1>1 DEF FileInv, ContentInv
<1>2. ASSUME Sliced, NEW t \in Index \ paged, tpc[t] = "ok", NEW p \in Planned(index[t])
      PROVE  p \in DOMAIN g_pFile /\ g_pFile[p] = p
  <2>1. CutInv(t)
    BY <1>2 DEF FileInv, ThreadInv
  <2> QED
    BY <1>2, <2>1 DEF CutInv, Right, Planned
<1>3. ASSUME file_length = -1, paged = {}, NEW t \in Index, tpc[t] = "ok"
      PROVE  g_pFile = [p \in 0 .. length - 1 |-> p]
  <2>1. 0 .. length - 1 \subseteq DOMAIN g_pFile
    BY <1>3 DEF FileInv, ThreadInv, WholeInv
  <2>2. DOMAIN g_pFile \subseteq 0 .. length - 1 /\ g_pFile = [p \in DOMAIN g_pFile |-> p]
    BY <1>3 DEF FileInv, ContentInv
  <2>3. DOMAIN g_pFile = 0 .. length - 1
    BY <2>1, <2>2
  <2> QED
    BY <2>2, <2>3, Zenon
<1> QED
  BY <1>1, <1>2, <1>3 DEF OkSlicesAreRight

-----------------------------------------------------------------------------
(* Whatever the threads do, the variables keep their types: begin_iter and *)
(* end_iter stay sizes while the callback advances them (demo_easy_1.c:78).*)
THEOREM TypeCorrect == Spec => []TypeOK
<1>1. IInv => TypeOK
  BY DEF IInv
<1> QED
  BY InitIInv, IInvStep, <1>1, PTL DEF Spec

(* No two threads ever download the same slice: the lock around the search *)
(* and the mark makes each claim find a slice of its own, and there is     *)
(* always one left (demo_easy_1.c:150-160).                                *)
THEOREM SlicesAreClaimedOnce == Spec => []OneThreadPerSlice
<1>1. IInv => OneThreadPerSlice
  BY DEF IInv
<1> QED
  BY InitIInv, IInvStep, <1>1, PTL DEF Spec

(* For every number of threads and every length, the slices do not overlap *)
(* and are the file up to the end of the last of them                      *)
(* (demo_easy_1.c:130-141).                                                *)
THEOREM SlicesAreApart == Spec => []SlicesPartition
<1>1. IInv => SlicesPartition
  BY CutPartition DEF IInv
<1> QED
  BY InitIInv, IInvStep, <1>1, PTL DEF Spec

(* For every number of threads, every length and every way the server and  *)
(* the network answer: a transfer that ends well, not on an error page,    *)
(* has put exactly its slice into the shared file, or the whole file when  *)
(* the length is not known (demo_easy_1.c:60-82, 130-141).                 *)
THEOREM SlicesAreRight == Spec => []OkSlicesAreRight
<1>1. Spec => []IInv
  BY InitIInv, IInvStep, PTL DEF Spec
<1>2. Spec => []FileInv
  BY <1>1, InitFile, FileStep, PTL DEF Spec
<1> QED
  BY <1>1, <1>2, FileIsRight, PTL
=============================================================================
