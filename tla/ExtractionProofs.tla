---------------------------- MODULE ExtractionProofs ----------------------------
(***************************************************************************)
(* Proofs about what a run extracts, loads, writes and shows, for any      *)
(* conversations at Pancake, messages arriving meanwhile, page sizes, caps *)
(* and modes of the AI service: a conversation read to its end has every   *)
(* message of the window, its day has each of them once and in order, and  *)
(* when no cap cut anything off the published overview counts every        *)
(* conversation; and what the day says of a conversation, its response     *)
(* times, its signals, its silence and the facts of its staff, follows from*)
(* its messages and tags.                                                  *)
(*                                                                         *)
(* The worker pages by a running count from the newest message on, while   *)
(* messages are put in front of those it has read.  The invariant says of  *)
(* the conversation at hand that what was due when its first page was read *)
(* is found already or lies beyond the count: a message that arrives pushes*)
(* the others back, and the next page then overlaps the one before instead *)
(* of leaving a gap.                                                       *)
(*                                                                         *)
(* A second invariant, MadeInv, says what the rest is made of: a day is what*)
(* BuildConversationDay makes of what was found, a result the normalised   *)
(* answer of the service to it, a fact what the builder makes of the two.  *)
(***************************************************************************)
EXTENDS DayProofs

(***************************************************************************)
(* Sorting: the rank of an element is the number of those before it.       *)
(***************************************************************************)
(* R orders S strictly and totally.                                        *)
IsStrictOrder(S, R) ==
  /\ \A x \in S : <<x, x>> \notin R
  /\ \A x, y, z \in S : <<x, y>> \in R /\ <<y, z>> \in R => <<x, z>> \in R
  /\ \A x, y \in S : x = y \/ <<x, y>> \in R \/ <<y, x>> \in R

Below(S, R, x) == {y \in S : <<y, x>> \in R}

(* A rank is below the size of the set and grows with the order.           *)
LEMMA RanksGrow ==
  ASSUME NEW S, IsFiniteSet(S), NEW R, IsStrictOrder(S, R), NEW x \in S
  PROVE  /\ Cardinality(Below(S, R, x)) \in 0 .. (Cardinality(S) - 1)
         /\ \A y \in S : <<x, y>> \in R =>
              Cardinality(Below(S, R, x)) < Cardinality(Below(S, R, y))
<1> DEFINE Upto == Below(S, R, x) \cup {x}
<1>1. Below(S, R, x) \in SUBSET S /\ x \notin Below(S, R, x) /\ Upto \in SUBSET S
  BY DEF Below, IsStrictOrder
<1>2. IsFiniteSet(Below(S, R, x)) /\ IsFiniteSet(Upto)
  BY <1>1, FS_Subset
<1>3. /\ Cardinality(Upto) = Cardinality(Below(S, R, x)) + 1
      /\ Cardinality(Below(S, R, x)) \in Nat /\ Cardinality(S) \in Nat
  BY <1>1, <1>2, FS_AddElement, FS_CardinalityType
<1>4. Cardinality(Upto) <= Cardinality(S)
  BY <1>1, FS_Subset
<1>5. ASSUME NEW y \in S, <<x, y>> \in R
      PROVE  Cardinality(Upto) <= Cardinality(Below(S, R, y)) /\ Cardinality(Below(S, R, y)) \in Nat
  <2>1. Upto \in SUBSET Below(S, R, y)
    BY <1>5 DEF Below, IsStrictOrder
  <2>2. IsFiniteSet(Below(S, R, y))
    <3>1. Below(S, R, y) \in SUBSET S
      BY DEF Below
    <3> QED BY <3>1, FS_Subset
  <2> QED BY <2>1, <2>2, FS_Subset, FS_CardinalityType
<1> HIDE DEF Upto
<1> QED BY <1>3, <1>4, <1>5

(* Every rank below the size of the set is that of an element.             *)
LEMMA RanksReached ==
  ASSUME NEW S, IsFiniteSet(S), NEW R, IsStrictOrder(S, R), NEW i \in 1 .. Cardinality(S)
  PROVE  \E x \in S : Cardinality(Below(S, R, x)) = i - 1
<1> PICK n : n = Cardinality(S)
  OBVIOUS
<1>1. n \in Nat
  BY FS_CardinalityType
<1> DEFINE rank == [x \in S |-> Cardinality(Below(S, R, x))]
<1>2. \A x \in S : Cardinality(Below(S, R, x)) \in 0 .. (n - 1)
  BY RanksGrow
<1>3. \A x, y \in S : <<x, y>> \in R => rank[x] < rank[y]
  BY RanksGrow
<1>4. \A x, y \in S : rank[x] = rank[y] => x = y
  <2>1. \A x \in S : rank[x] \in Int
    BY <1>1, <1>2
  <2> HIDE DEF rank
  <2> SUFFICES ASSUME NEW x \in S, NEW y \in S, rank[x] = rank[y] PROVE x = y
    OBVIOUS
  <2>2. <<x, y>> \notin R /\ <<y, x>> \notin R
    BY <1>3, <2>1
  <2> QED BY <2>2 DEF IsStrictOrder
<1>5. rank \in Injection(S, 0 .. (n - 1))
  <2>1. rank \in [S -> 0 .. (n - 1)]
    BY <1>2
  <2> HIDE DEF rank
  <2> QED BY <1>4, <2>1, Fun_IsInj
<1>6. IsFiniteSet(0 .. (n - 1)) /\ Cardinality(0 .. (n - 1)) = n
  <2>1. 0 \in Int /\ n - 1 \in Int /\ (0 > n - 1 <=> n = 0) /\ n - 1 - 0 + 1 = n
    BY <1>1
  <2>2. IsFiniteSet(0 .. (n - 1))
        /\ Cardinality(0 .. (n - 1)) = IF 0 > n - 1 THEN 0 ELSE n - 1 - 0 + 1
    BY <2>1, FS_Interval
  <2> QED BY <2>1, <2>2
<1>7. rank \in Surjection(S, 0 .. (n - 1))
  <2> HIDE DEF rank
  <2> QED BY <1>5, <1>6, FS_Injection
<1>8. i - 1 \in 0 .. (n - 1)
  BY <1>1
<1>9. \E x \in S : rank[x] = i - 1
  <2> HIDE DEF rank
  <2> QED BY <1>7, <1>8 DEF Surjection
<1> QED BY <1>9

(* A sequence that has at each place the element of that rank.             *)
Ranked(S, R, seq) ==
  /\ DOMAIN seq = 1 .. Cardinality(S)
  /\ \A i \in 1 .. Cardinality(S) : seq[i] \in S /\ Cardinality(Below(S, R, seq[i])) = i - 1

(* Such a sequence is in order.                                            *)
LEMMA RankedInOrder ==
  ASSUME NEW S, IsFiniteSet(S), NEW R, IsStrictOrder(S, R), NEW seq, Ranked(S, R, seq)
  PROVE  \A i, j \in DOMAIN seq : i < j => <<seq[i], seq[j]>> \in R
<1> USE DEF Ranked
<1>1. Cardinality(S) \in Nat
  BY FS_CardinalityType
<1>2. ASSUME NEW i \in DOMAIN seq, NEW j \in DOMAIN seq, i < j
      PROVE  <<seq[i], seq[j]>> \in R
  <2>1. seq[i] # seq[j]
    BY <1>1, <1>2
  <2>2. <<seq[j], seq[i]>> \in R => j - 1 < i - 1
    BY RanksGrow
  <2>3. <<seq[j], seq[i]>> \notin R
    BY <1>1, <1>2, <2>2
  <2> QED BY <2>1, <2>3 DEF IsStrictOrder
<1> QED BY <1>2

(* Such a sequence has every element of the set.                           *)
LEMMA RankedReached ==
  ASSUME NEW S, IsFiniteSet(S), NEW R, IsStrictOrder(S, R), NEW seq, Ranked(S, R, seq)
  PROVE  \A x \in S : \E i \in DOMAIN seq : seq[i] = x
<1> USE DEF Ranked
<1> SUFFICES ASSUME NEW x \in S PROVE \E i \in DOMAIN seq : seq[i] = x
  OBVIOUS
<1>0. Cardinality(S) \in Nat
  BY FS_CardinalityType
<1> PICK k : k = Cardinality(Below(S, R, x))
  OBVIOUS
<1>1. k \in 0 .. (Cardinality(S) - 1)
  BY RanksGrow
<1>2. k + 1 \in DOMAIN seq /\ (k + 1) - 1 = k
  BY <1>0, <1>1
<1>3. Cardinality(Below(S, R, seq[k + 1])) = k /\ seq[k + 1] \in S
  BY <1>2
<1>4. <<x, seq[k + 1]>> \notin R /\ <<seq[k + 1], x>> \notin R
  <2>1. <<x, seq[k + 1]>> \in R => k < k
    BY <1>3, RanksGrow
  <2>2. <<seq[k + 1], x>> \in R => k < k
    BY <1>3, RanksGrow
  <2> QED BY <1>1, <2>1, <2>2
<1>5. x = seq[k + 1]
  BY <1>3, <1>4 DEF IsStrictOrder
<1> QED BY <1>2, <1>5

(* The threads of a listing come in ascending order.                       *)
LEMMA ThreadsInOrder ==
  ASSUME NEW S \in SUBSET Threads
  PROVE  LET seq == InOrder(S, LAMBDA a, b : a < b)
         IN /\ seq \in Seq(S)
            /\ \A i, j \in DOMAIN seq : i < j => seq[i] < seq[j]
<1> DEFINE R == {p \in S \X S : p[1] < p[2]}
<1> PICK n : n = Cardinality(S)
  OBVIOUS
<1>1. IsFiniteSet(S) /\ n \in Nat
  BY ExtractionConstants, FS_Subset, FS_CardinalityType
<1>2. IsStrictOrder(S, R)
  BY ExtractionConstants DEF IsStrictOrder
<1> DEFINE seq == InOrder(S, LAMBDA a, b : a < b)
<1>3. seq = [i \in 1 .. n |-> CHOOSE x \in S : Cardinality({y \in S : y < x}) = i - 1]
  BY DEF InOrder
<1> HIDE DEF seq
<1>4. \A x \in S : Below(S, R, x) = {y \in S : y < x}
  BY DEF Below
<1>5. ASSUME NEW i \in 1 .. n
      PROVE  seq[i] \in S /\ Cardinality(Below(S, R, seq[i])) = i - 1
  <2>1. \E x \in S : Cardinality({y \in S : y < x}) = i - 1
    <3> HIDE DEF R
    <3>1. \E x \in S : Cardinality(Below(S, R, x)) = i - 1
      BY <1>1, <1>2, RanksReached
    <3> QED BY <1>4, <3>1
  <2>2. seq[i] = CHOOSE x \in S : Cardinality({y \in S : y < x}) = i - 1
    BY <1>3
  <2>3. seq[i] \in S /\ Cardinality({y \in S : y < seq[i]}) = i - 1
    BY <2>1, <2>2, Zenon
  <2> HIDE DEF R
  <2> QED BY <1>4, <2>3
<1>6. DOMAIN seq = 1 .. n /\ seq = [i \in 1 .. n |-> seq[i]]
  <2>1. DOMAIN seq = 1 .. n
    BY <1>3, Zenon
  <2> DEFINE At(i) == CHOOSE x \in S : Cardinality({y \in S : y < x}) = i - 1
  <2>2. seq = [i \in 1 .. n |-> At(i)]
    BY <1>3, Zenon
  <2> HIDE DEF At
  <2>3. \A i \in 1 .. n : seq[i] = At(i)
    BY <2>2
  <2> QED BY <2>1, <2>2, <2>3
<1>7. \A i, j \in DOMAIN seq : i < j => <<seq[i], seq[j]>> \in R
  <2> HIDE DEF R
  <2>1. Ranked(S, R, seq)
    BY <1>5, <1>6 DEF Ranked
  <2> QED BY <1>1, <1>2, <2>1, RankedInOrder
<1>8. seq \in Seq(S)
  <2>1. seq \in [1 .. n -> S]
    BY <1>5, <1>6
  <2> QED BY <1>1, <2>1
<1>9. \A i, j \in DOMAIN seq : i < j => seq[i] < seq[j]
  BY <1>7
<1> QED BY <1>8, <1>9 DEF seq

(* Messages of different numbers are put in the order of their time, oldest*)
(* first, each once (sortMessages); first for any relation that agrees with*)
(* Older on them.                                                          *)
LEMMA OlderInOrder ==
  ASSUME NEW S, IsFiniteSet(S), NEW R, IsStrictOrder(S, R),
         \A x, y \in S : <<x, y>> \in R <=> Older(x, y)
  PROVE  LET seq == SortMessages(S)
         IN /\ seq \in Seq(S) /\ Len(seq) = Cardinality(S)
            /\ \A i, j \in DOMAIN seq : i < j => Older(seq[i], seq[j])
            /\ \A x \in S : \E i \in DOMAIN seq : seq[i] = x
<1> PICK n : n = Cardinality(S)
  OBVIOUS
<1>1. n \in Nat
  BY FS_CardinalityType
<1> DEFINE seq == SortMessages(S)
<1>2. seq = [i \in 1 .. n |-> CHOOSE x \in S : Cardinality({y \in S : Older(y, x)}) = i - 1]
  BY DEF SortMessages, InOrder
<1> HIDE DEF seq
<1>3. \A x \in S : Below(S, R, x) = {y \in S : Older(y, x)}
  BY DEF Below
<1>4. ASSUME NEW i \in 1 .. n
      PROVE  seq[i] \in S /\ Cardinality(Below(S, R, seq[i])) = i - 1
  <2>1. \E x \in S : Cardinality({y \in S : Older(y, x)}) = i - 1
    <3>1. \E x \in S : Cardinality(Below(S, R, x)) = i - 1
      BY <1>1, RanksReached
    <3> QED BY <1>3, <3>1
  <2>2. seq[i] = CHOOSE x \in S : Cardinality({y \in S : Older(y, x)}) = i - 1
    BY <1>2
  <2>3. seq[i] \in S /\ Cardinality({y \in S : Older(y, seq[i])}) = i - 1
    BY <2>1, <2>2, Zenon
  <2> QED BY <1>3, <2>3
<1>5. DOMAIN seq = 1 .. n /\ seq = [i \in 1 .. n |-> seq[i]]
  <2>1. DOMAIN seq = 1 .. n
    BY <1>2, Zenon
  <2> DEFINE At(i) == CHOOSE x \in S : Cardinality({y \in S : Older(y, x)}) = i - 1
  <2>2. seq = [i \in 1 .. n |-> At(i)]
    BY <1>2, Zenon
  <2> HIDE DEF At
  <2>3. \A i \in 1 .. n : seq[i] = At(i)
    BY <2>2
  <2> QED BY <2>1, <2>2, <2>3
<1>6. /\ \A i, j \in DOMAIN seq : i < j => <<seq[i], seq[j]>> \in R
      /\ \A x \in S : \E i \in DOMAIN seq : seq[i] = x
  <2>1. Ranked(S, R, seq)
    BY <1>4, <1>5 DEF Ranked
  <2>2. \A i, j \in DOMAIN seq : i < j => <<seq[i], seq[j]>> \in R
    BY <2>1, RankedInOrder
  <2>3. \A x \in S : \E i \in DOMAIN seq : seq[i] = x
    BY <2>1, RankedReached
  <2> QED BY <2>2, <2>3, Zenon
<1>7. seq \in Seq(S) /\ Len(seq) = n
  <2>1. seq \in [1 .. n -> S]
    BY <1>4, <1>5
  <2> QED BY <1>1, <2>1
<1>8. \A i, j \in DOMAIN seq : i < j => Older(seq[i], seq[j])
  BY <1>4, <1>5, <1>6
<1> QED BY <1>6, <1>7, <1>8 DEF seq

(* Older itself is such a relation.                                        *)
LEMMA MessagesInOrder ==
  ASSUME NEW S \in SUBSET Messages, IsFiniteSet(S), \A m, n \in S : m.id = n.id => m = n
  PROVE  LET seq == SortMessages(S)
         IN /\ seq \in Seq(S) /\ Len(seq) = Cardinality(S)
            /\ \A i, j \in DOMAIN seq : i < j => Older(seq[i], seq[j])
            /\ \A m \in S : \E i \in DOMAIN seq : seq[i] = m
<1> DEFINE R == {p \in S \X S : Older(p[1], p[2])}
<1>1. \A x, y \in S : <<x, y>> \in R <=> Older(x, y)
  OBVIOUS
<1>2. IsStrictOrder(S, R)
  <2>1. \A x \in S : x.id \in Int /\ x.at \in Int
    BY DEF Messages
  <2>2. \A x, y, z \in S : Older(x, y) /\ Older(y, z) => Older(x, z)
    BY <2>1 DEF Older
  <2>3. \A x, y \in S : x = y \/ Older(x, y) \/ Older(y, x)
    BY <2>1 DEF Older
  <2>4. \A x \in S : ~Older(x, x)
    BY <2>1 DEF Older
  <2> HIDE DEF R
  <2> QED BY <1>1, <2>2, <2>3, <2>4 DEF IsStrictOrder
<1> HIDE DEF R
<1> QED BY <1>1, <1>2, OlderInOrder, Zenon

(***************************************************************************)
(* Pages.                                                                  *)
(***************************************************************************)
(* The smaller of two numbers.                                             *)
LEMMA MinOfTwo ==
  ASSUME NEW a \in Int, NEW b \in Int
  PROVE  Min({a, b}) = IF a <= b THEN a ELSE b
<1>1. \E x \in {a, b} : \A y \in {a, b} : x <= y
  OBVIOUS
<1>2. Min({a, b}) \in {a, b} /\ \A y \in {a, b} : Min({a, b}) <= y
  BY <1>1, Zenon DEF Min
<1> QED BY <1>2

(* A page holds what stands after the count, up to its size, and nothing   *)
(* else.                                                                   *)
LEMMA PageRead ==
  ASSUME NEW S, NEW seq \in Seq(S), NEW count \in Nat, NEW size \in Nat \ {0}
  PROVE  LET page == PageOf(seq, count, size)
         IN /\ page \in Seq(S)
            /\ \A i \in DOMAIN page : count + i \in DOMAIN seq /\ page[i] = seq[count + i]
            /\ \A k \in DOMAIN seq : count < k /\ k <= count + size =>
                 k - count \in DOMAIN page /\ page[k - count] = seq[k]
            /\ Len(page) <= size
<1> PICK page : page = PageOf(seq, count, size)
  OBVIOUS
<1> PICK till : till = IF count + size <= Len(seq) THEN count + size ELSE Len(seq)
  OBVIOUS
<1>1. till \in Nat /\ till <= Len(seq) /\ till <= count + size
  OBVIOUS
<1>2. page = SubSeq(seq, count + 1, till)
  BY SMTT(30), MinOfTwo DEF PageOf
<1>3. page \in Seq(S)
  BY <1>1, <1>2
<1>4. Len(page) = IF count + 1 <= till THEN till - count ELSE 0
  BY <1>1, <1>2
<1>5. ASSUME NEW i \in 1 .. Len(page)
      PROVE  page[i] = seq[count + i] /\ count + i \in 1 .. Len(seq)
  <2>1. count + 1 <= till /\ i \in 1 .. (till - count) /\ (count + 1) + i - 1 = count + i
    BY <1>1, <1>4
  <2>2. count + 1 \in 1 .. Len(seq) /\ till \in 1 .. Len(seq)
    BY <1>1, <2>1
  <2> PICK k : k = count + i
    OBVIOUS
  <2>3. page[i] = seq[k]
    <3>1. \A a, b \in 1 .. Len(seq) : \A l \in 1 .. (b - a + 1) :
             SubSeq(seq, a, b)[l] = seq[a + l - 1]
      OBVIOUS
    <3>2. i \in 1 .. (till - (count + 1) + 1) /\ (count + 1) + i - 1 = k
      BY <1>1, <2>1
    <3> QED BY SMTT(30), <1>2, <2>2, <3>1, <3>2
  <2>4. page[i] = seq[count + i]
    BY <2>3, Zenon
  <2>5. count + i \in 1 .. Len(seq)
    BY <1>1, <2>1
  <2> QED BY <2>4, <2>5, Zenon
<1>6. \A k \in DOMAIN seq : count < k /\ k <= count + size =>
         k - count \in 1 .. Len(page) /\ count + (k - count) = k
  BY <1>1, <1>4
<1>7. Len(page) <= size /\ DOMAIN page = 1 .. Len(page) /\ DOMAIN seq = 1 .. Len(seq)
  BY <1>1, <1>3, <1>4
<1>8. \A k \in DOMAIN seq : count < k /\ k <= count + size =>
         k - count \in DOMAIN page /\ page[k - count] = seq[k]
  BY <1>5, <1>6, <1>7
<1> QED BY <1>3, <1>5, <1>7, <1>8

(***************************************************************************)
(* The invariant of the extraction.                                        *)
(***************************************************************************)
(* A conversation at Pancake: newest message first, none later than the    *)
(* clock, each with a number of its own.                                   *)
Listed(conversation, clock, next) ==
  LET messages == conversation.messages
  IN /\ conversation \in Conversations
     /\ \A i \in DOMAIN messages : messages[i].at <= clock /\ messages[i].id < next
     /\ \A i, j \in DOMAIN messages :
          i < j => messages[j].at <= messages[i].at /\ messages[j].id # messages[i].id

SourceInv ==
  /\ DOMAIN source = Threads /\ arrivals \in Nat
  /\ \A t \in Threads : Listed(source[t], now, 100 + arrivals)

(* Where the worker may be and what it may hold.                           *)
Scans == [batch : Seq(Threads), last : Nat, short : BOOLEAN, threads : Nat, count : Nat,
          pages : Nat, found : [Threads -> SUBSET Messages], due : [Threads -> SUBSET Nat],
          whole : SUBSET Threads]

(* What is still to be read of the conversation at hand lies beyond the    *)
(* running count.                                                          *)
Beyond(messages, count, window) ==
  {messages[i].id : i \in {k \in DOMAIN messages : k > count /\ InWindow(messages[k], window)}}

Ahead(t, count) == Beyond(source[t].messages, count, job.window)

(* Conversations are read in ascending order, so none is read again.       *)
BatchInv ==
  /\ \A i \in DOMAIN scan.batch : scan.last < scan.batch[i]
  /\ \A i, j \in DOMAIN scan.batch : i < j => scan.batch[i] < scan.batch[j]
  /\ \A t \in scan.whole : t <= scan.last

(* What was due of the conversation at hand is found or still ahead.       *)
PagingInv ==
  /\ job.stage \in {"none", "queued"} => scan = NewScan
  /\ job.stage = "listing" => scan.pages = 0
  /\ scan.pages = 0 => scan.count = 0
  /\ job.stage = "paging" => scan.batch # <<>>
  /\ job.stage = "paging" /\ scan.pages # 0 =>
       LET thread == scan.batch[1]
       IN scan.due[thread] \subseteq Ids(scan.found[thread]) \cup Ahead(thread, scan.count)

(* A conversation read to its end has what was due; what was found is at   *)
(* Pancake and in the window.                                              *)
FoundInv ==
  /\ \A t \in scan.whole : scan.due[t] \subseteq Ids(scan.found[t])
  /\ \A t \in Threads : \A m \in scan.found[t] :
       m \in Range(source[t].messages) /\ InWindow(m, job.window)

ScanInv == SourceInv /\ scan \in Scans /\ BatchInv /\ PagingInv /\ FoundInv

(* Before the run has read anything.                                       *)
LEMMA InitScanInv == Init => ScanInv
<1> SUFFICES ASSUME Init PROVE ScanInv
  OBVIOUS
<1> PICK world \in Worlds :
      /\ now = FirstTick /\ source = world.source /\ arrivals = 0 /\ scan = NewScan
      /\ job = [id |-> 1, stage |-> "none", day |-> 0, full |-> FALSE, eligibility |-> "none",
                window |-> [start |-> 0, end |-> 0], caps |-> world.caps]
  BY Zenon DEF Init
<1>1. DOMAIN source = Threads /\ \A t \in Threads : Standing(source[t])
  BY DayConstants
<1>2. SourceInv
  <2>1. 100 + arrivals = 100
    OBVIOUS
  <2> QED BY <1>1, <2>1 DEF SourceInv, Standing, Listed
<1>3. NewScan \in Scans
  <2>1. \A no \in BOOLEAN :
          [batch |-> <<>>, last |-> 0, short |-> no, threads |-> 0, count |-> 0, pages |-> 0,
           found |-> [t \in Threads |-> {}], due |-> [t \in Threads |-> {}], whole |-> {}] \in Scans
    BY DEF Scans
  <2> QED BY <2>1, Zenon DEF NewScan
<1>4. NewScan.batch = <<>> /\ NewScan.whole = {} /\ NewScan.pages = 0 /\ NewScan.count = 0
      /\ NewScan.found = [t \in Threads |-> {}]
  BY DEF NewScan
<1>5. job.stage = "none"
  OBVIOUS
<1>6. BatchInv /\ PagingInv /\ FoundInv
  BY <1>4, <1>5 DEF BatchInv, PagingInv, FoundInv
<1> QED BY <1>2, <1>3, <1>6 DEF ScanInv

(* Steps that leave Pancake and the worker alone.                          *)
LEMMA ScanElsewhere ==
  ASSUME ScanInv, UNCHANGED <<source, arrivals, scan>>, now \in Nat, now' \in Nat, now <= now',
         job'.window = job.window,
         job'.stage = job.stage \/ job'.stage \notin {"none", "queued", "listing", "paging"}
  PROVE  ScanInv'
<1>1. SourceInv'
  <2> SUFFICES ASSUME NEW t \in Threads, NEW i \in DOMAIN source[t].messages
               PROVE  source[t].messages[i].at <= now'
    BY DEF ScanInv, SourceInv, Listed
  <2>1. source[t].messages[i].at <= now /\ source[t].messages \in Seq(Messages)
    BY DEF ScanInv, SourceInv, Conversations, Listed
  <2> PICK messages : messages = source[t].messages
    OBVIOUS
  <2>2. messages[i].at \in Nat
    <3>1. messages[i] \in Messages
      BY <2>1
    <3> QED BY <3>1 DEF Messages
  <2> QED BY <2>1, <2>2
<1>2. PagingInv'
  BY DEF ScanInv, PagingInv, Ahead, InWindow, Beyond
<1> QED BY <1>1, <1>2 DEF ScanInv, BatchInv, FoundInv, InWindow, Scans

(* The run is queued with its window.                                      *)
LEMMA PlannedScan ==
  ASSUME DayInv, ScanInv, NEW request \in Requests, PlanJob(request)
  PROVE  ScanInv'
<1>1. /\ job.stage = "none" /\ UNCHANGED <<now, source, arrivals, scan>>
      /\ job'.stage = "queued"
  BY DEF PlanJob, DayInv, PipelineInv, JobTyped, JobRecords
<1>2. scan = NewScan
  BY <1>1 DEF ScanInv, PagingInv
<1>3. NewScan.whole = {} /\ NewScan.pages = 0 /\ NewScan.count = 0
      /\ NewScan.found = [t \in Threads |-> {}]
  BY DEF NewScan
<1> QED BY <1>1, <1>2, <1>3 DEF ScanInv, SourceInv, BatchInv, PagingInv, FoundInv, Listed

(* The worker takes the run up.                                            *)
LEMMA OpenedScan ==
  ASSUME DayInv, ScanInv, OpenPage
  PROVE  ScanInv'
<1>1. /\ job.stage = "queued" /\ UNCHANGED <<now, source, arrivals>> /\ scan' = NewScan
      /\ scan = NewScan /\ job'.stage \in {"listing", "failed"}
  BY DEF OpenPage, ScanInv, PagingInv, DayInv, PipelineInv, JobTyped, JobRecords
<1>2. NewScan.whole = {} /\ NewScan.pages = 0 /\ NewScan.count = 0
      /\ NewScan.found = [t \in Threads |-> {}]
  BY DEF NewScan
<1> QED BY <1>1, <1>2 DEF ScanInv, SourceInv, BatchInv, PagingInv, FoundInv, Scans, Listed

(* Pancake fails.                                                          *)
LEMMA FailedScan ==
  ASSUME DayInv, ScanInv, PancakeFails
  PROVE  ScanInv'
<1>1. /\ UNCHANGED <<now, source, arrivals, scan>> /\ job'.stage = "failed"
      /\ job'.window = job.window
  BY DEF PancakeFails, DayInv, PipelineInv, JobTyped, JobRecords
<1> QED BY <1>1, ScanElsewhere DEF DayInv

LEMMA ListedRecord ==
  ASSUME NEW read \in Scans, NEW batch \in Seq(Threads), NEW short \in BOOLEAN,
         NEW threads \in Nat
  PROVE  [read EXCEPT !.batch = batch, !.short = short, !.threads = threads] \in Scans
BY DEF Scans

(* A batch of the listing: the threads after the last one read.            *)
LEMMA ListedScan ==
  ASSUME DayInv, ScanInv, ListConversations
  PROVE  ScanInv'
<1> PICK batch : batch = ConversationsAfter(scan.last)
  OBVIOUS
<1> PICK stop \in BOOLEAN : stop = (LimitReached(job.caps.threads, scan.threads) \/ batch = <<>>)
  <2>1. (LimitReached(job.caps.threads, scan.threads) \/ batch = <<>>) \in BOOLEAN
    OBVIOUS
  <2> QED BY <2>1, Zenon
<1>1. /\ job.stage = "listing" /\ UNCHANGED <<now, source, arrivals>>
      /\ job' = [job EXCEPT !.stage = IF stop THEN "extracted" ELSE "paging"]
      /\ scan' = IF stop THEN scan
                 ELSE [scan EXCEPT !.batch = batch, !.short = Len(batch) < ListSize,
                                   !.threads = @ + 1]
  BY Zenon DEF ListConversations
<1>2. /\ job'.stage = IF stop THEN "extracted" ELSE "paging"
      /\ job'.window = job.window
  BY <1>1 DEF DayInv, PipelineInv, JobTyped, JobRecords
<1>3. CASE stop
  BY <1>1, <1>2, <1>3, ScanElsewhere DEF DayInv
<1>4. CASE ~stop
  <2>1. batch # <<>>
    BY <1>4
  <2> DEFINE rest == InOrder({t \in Threads : t > scan.last}, LAMBDA a, b : a < b)
  <2>2. /\ rest \in Seq({t \in Threads : t > scan.last})
        /\ \A i, j \in DOMAIN rest : i < j => rest[i] < rest[j]
    <3>1. {t \in Threads : t > scan.last} \in SUBSET Threads
      OBVIOUS
    <3> QED BY <3>1, ThreadsInOrder
  <2>3. batch = PageOf(rest, 0, ListSize)
    BY DEF ConversationsAfter
  <2> HIDE DEF rest
  <2>4. /\ batch \in Seq({t \in Threads : t > scan.last})
        /\ \A i \in DOMAIN batch : 0 + i \in DOMAIN rest /\ batch[i] = rest[0 + i]
    BY <2>2, <2>3, PageRead, ExtractionConstants
  <2>5. \A i \in DOMAIN batch : i \in Nat /\ i \in DOMAIN rest /\ batch[i] = rest[i]
    <3>1. \A i \in DOMAIN batch : i \in Nat /\ 0 + i = i
      BY <2>4
    <3> QED BY <2>4, <3>1
  <2>6. \A i, j \in DOMAIN batch : i < j => batch[i] < batch[j]
    BY <2>2, <2>5
  <2>7. \A i \in DOMAIN batch : scan.last < batch[i] /\ batch[i] \in Threads
    <3>1. \A i \in DOMAIN batch : batch[i] \in Threads /\ batch[i] > scan.last
      BY <2>4
    <3>2. scan.last \in Nat /\ Threads \subseteq Nat
      BY ExtractionConstants DEF ScanInv, Scans
    <3> QED BY <3>1, <3>2
  <2>8. batch \in Seq(Threads)
    BY <2>4, <2>7
  <2> PICK short \in BOOLEAN : short = (Len(batch) < ListSize)
    <3>1. (Len(batch) < ListSize) \in BOOLEAN
      OBVIOUS
    <3> QED BY <3>1, Zenon
  <2>9. scan' = [scan EXCEPT !.batch = batch, !.short = short, !.threads = @ + 1]
    BY <1>1, <1>4, Zenon
  <2>10. scan \in Scans
    BY DEF ScanInv
  <2>11. scan' \in Scans
    <3>1. scan.threads + 1 \in Nat
      BY <2>10 DEF Scans
    <3>2. scan' = [scan EXCEPT !.batch = batch, !.short = short, !.threads = scan.threads + 1]
      BY <2>9
    <3>3. [scan EXCEPT !.batch = batch, !.short = short, !.threads = scan.threads + 1] \in Scans
      BY <2>8, <2>10, <3>1, ListedRecord
    <3> QED BY <3>2, <3>3, Zenon
  <2>12. /\ scan'.batch = batch /\ scan'.last = scan.last /\ scan'.whole = scan.whole
         /\ scan'.pages = scan.pages /\ scan'.count = scan.count
         /\ scan'.found = scan.found /\ scan'.due = scan.due
    BY <2>9, <2>10 DEF Scans
  <2>13. BatchInv'
    BY <2>6, <2>7, <2>12 DEF ScanInv, BatchInv
  <2>14. PagingInv'
    BY <1>1, <1>2, <1>4, <2>1, <2>12 DEF ScanInv, PagingInv
  <2>15. FoundInv'
    BY <1>1, <1>2, <2>12 DEF ScanInv, FoundInv, InWindow
  <2> QED BY <1>1, <2>11, <2>13, <2>14, <2>15 DEF ScanInv, SourceInv, Scans, Listed
<1> QED BY <1>3, <1>4

(* What is ahead is on the next page or ahead of the count after it, and   *)
(* nothing of the window is ahead of a short page or of a page that reaches*)
(* before the window.                                                      *)
LEMMA PageCovers ==
  ASSUME SourceInv, NEW thread \in Threads, NEW count \in Nat,
         job.window \in [start : Int, end : Int]
  PROVE  LET page == MessagesFrom(thread, count)
         IN /\ page \in Seq(Messages) /\ Len(page) \in Nat
            /\ MessagesIn(page, job.window) \subseteq
                 {m \in Range(source[thread].messages) : InWindow(m, job.window)}
            /\ Ahead(thread, count) \subseteq
                 Ids(MessagesIn(page, job.window)) \cup Ahead(thread, count + Len(page))
            /\ Len(page) < PageSize \/ StopPaging(page, job.window) =>
                 Ahead(thread, count + Len(page)) = {}
<1> PICK seq : seq = source[thread].messages
  OBVIOUS
<1> PICK page : page = MessagesFrom(thread, count)
  OBVIOUS
<1> PICK n : n = Len(page)
  OBVIOUS
<1>0. PageSize \in Nat \ {0}
  BY ExtractionConstants
<1>1. /\ seq \in Seq(Messages)
      /\ \A i, j \in DOMAIN seq : i < j => seq[j].at <= seq[i].at
  BY DEF SourceInv, Conversations, Listed
<1>2. page = PageOf(seq, count, PageSize)
  BY DEF MessagesFrom
<1>3. /\ page \in Seq(Messages)
      /\ \A i \in DOMAIN page : count + i \in DOMAIN seq /\ page[i] = seq[count + i]
      /\ \A k \in DOMAIN seq : count < k /\ k <= count + PageSize =>
           k - count \in DOMAIN page /\ page[k - count] = seq[k]
      /\ Len(page) <= PageSize
  BY <1>0, <1>1, <1>2, PageRead
<1>4. n \in Nat /\ n <= PageSize /\ DOMAIN page = 1 .. n /\ DOMAIN seq = 1 .. Len(seq)
      /\ Len(seq) \in Nat
  BY <1>1, <1>3
<1>5. MessagesIn(page, job.window) \subseteq {m \in Range(seq) : InWindow(m, job.window)}
  BY <1>3 DEF MessagesIn, Range
<1>6. ASSUME NEW k \in DOMAIN seq, k > count, ~(k > count + n)
      PROVE  k - count \in DOMAIN page /\ page[k - count] = seq[k]
  <2>1. k \in Nat /\ count < k /\ k <= count + PageSize
    BY <1>0, <1>4, <1>6
  <2> QED BY <1>3, <2>1
<1>7. Ahead(thread, count) \subseteq
        Ids(MessagesIn(page, job.window)) \cup Ahead(thread, count + n)
  <2> SUFFICES ASSUME NEW k \in DOMAIN seq, k > count, InWindow(seq[k], job.window),
                      ~(k > count + n)
               PROVE  seq[k].id \in Ids(MessagesIn(page, job.window))
    BY DEF Ahead, Beyond
  <2>1. seq[k] \in Range(page)
    BY <1>6 DEF Range
  <2> QED BY <2>1 DEF Ids, MessagesIn
<1>8. ASSUME n < PageSize \/ StopPaging(page, job.window), NEW k \in DOMAIN seq, k > count + n
      PROVE  ~InWindow(seq[k], job.window)
  <2>0. k \in Nat
    BY <1>4
  <2>1. CASE n < PageSize
    <3>1. /\ count + n + 1 \in DOMAIN seq /\ count < count + n + 1
          /\ count + n + 1 <= count + PageSize /\ (count + n + 1) - count = n + 1
      BY <1>0, <1>4, <1>8, <2>0, <2>1
    <3>2. n + 1 \in DOMAIN page
      BY <1>3, <3>1
    <3> QED BY <1>4, <3>2
  <2>2. CASE StopPaging(page, job.window)
    <3>1. PICK i \in DOMAIN page : page[i].at < job.window.start
      BY <2>2 DEF StopPaging
    <3> PICK j : j = count + i
      OBVIOUS
    <3>2. j \in DOMAIN seq /\ page[i] = seq[j]
      BY <1>3
    <3>3. j < k
      BY <1>4, <1>8, <2>0
    <3>4. seq[k].at <= seq[j].at
      BY <1>1, <3>2, <3>3
    <3>5. seq[k] \in Messages /\ seq[j] \in Messages
      BY <1>1, <3>2
    <3>6. seq[k].at \in Int /\ seq[j].at \in Int
      BY <3>5 DEF Messages
    <3> QED BY <3>1, <3>2, <3>4, <3>6 DEF InWindow
  <2> QED BY <1>8, <2>1, <2>2
<1>9. n < PageSize \/ StopPaging(page, job.window) => Ahead(thread, count + n) = {}
  BY <1>8 DEF Ahead, Beyond
<1> QED BY <1>3, <1>4, <1>5, <1>7, <1>9

(* Before the first page everything is ahead.                              *)
LEMMA AheadOfFirst ==
  ASSUME SourceInv, NEW thread \in Threads
  PROVE  Ids(MessagesIn(source[thread].messages, job.window)) = Ahead(thread, 0)
<1> PICK seq : seq = source[thread].messages
  OBVIOUS
<1>1. seq \in Seq(Messages)
  BY DEF SourceInv, Conversations, Listed
<1>2. \A k \in DOMAIN seq : k > 0
  BY <1>1
<1> QED BY <1>2 DEF Ids, MessagesIn, Ahead, Range, Beyond

LEMMA IdsAreNumbers ==
  ASSUME SourceInv, NEW thread \in Threads
  PROVE  /\ Ahead(thread, 0) \subseteq Nat
         /\ Range(source[thread].messages) \subseteq Messages
<1> PICK seq : seq = source[thread].messages
  OBVIOUS
<1>1. seq \in Seq(Messages)
  BY DEF SourceInv, Conversations, Listed
<1>2. \A k \in DOMAIN seq : seq[k] \in Messages
  BY <1>1
<1> QED BY <1>2 DEF Ahead, Range, Messages, Beyond

LEMMA TailOfMore ==
  ASSUME NEW S, NEW seq \in Seq(S), Len(seq) > 1
  PROVE  Tail(seq) # <<>>
<1>1. Len(Tail(seq)) = Len(seq) - 1 /\ Tail(seq) \in Seq(S)
  OBVIOUS
<1>2. Len(Tail(seq)) # 0
  BY <1>1
<1>3. Len(<<>>) = 0
  OBVIOUS
<1> QED BY <1>2, <1>3, Zenon

(* A page of messages: the conversation goes on, ends, or is cut by a cap. *)
LEMMA FetchedScan ==
  ASSUME DayInv, ScanInv, FetchMessages
  PROVE  ScanInv'
<1> DEFINE thread == Head(scan.batch)
           page == MessagesFrom(thread, scan.count)
           ended == Len(page) < PageSize \/ StopPaging(page, job.window)
           capped == LimitReached(job.caps.pages, scan.pages + 1)
           due == IF scan.pages > 0 THEN scan.due[thread]
                  ELSE Ids(MessagesIn(source[thread].messages, job.window))
           found == scan.found[thread] \cup MessagesIn(page, job.window)
           read == [scan EXCEPT !.found[thread] = found, !.due[thread] = due]
           threads == IF Len(scan.batch) > 1 /\ StageAfterThread = "paging"
                      THEN scan.threads + 1 ELSE scan.threads
           whole == IF ended THEN scan.whole \cup {thread} ELSE scan.whole
<1>0. IF ended \/ capped
      THEN /\ scan' = [read EXCEPT !.batch = Tail(@), !.last = thread,
                                   !.count = 0, !.pages = 0,
                                   !.threads = IF Len(scan.batch) > 1
                                                  /\ StageAfterThread = "paging"
                                               THEN @ + 1 ELSE @,
                                   !.whole = IF ended THEN @ \cup {thread} ELSE @]
           /\ job' = [job EXCEPT !.stage = StageAfterThread]
      ELSE /\ scan' = [read EXCEPT !.count = @ + Len(page), !.pages = @ + 1]
           /\ UNCHANGED job
  BY Zenon DEF FetchMessages
<1> HIDE DEF thread, page, ended, capped, due, found, read, threads, whole
<1>1. /\ scan \in Scans /\ SourceInv /\ BatchInv /\ PagingInv /\ FoundInv
      /\ job.window \in [start : Int, end : Int]
  BY DEF ScanInv, DayInv, PipelineInv, JobTyped, JobRecords
<1>2. job.stage = "paging" /\ UNCHANGED <<now, source, arrivals>>
  BY DEF FetchMessages
<1>3. /\ scan.batch \in Seq(Threads) /\ scan.last \in Nat /\ scan.count \in Nat
      /\ scan.pages \in Nat /\ scan.threads \in Nat /\ scan.whole \in SUBSET Threads
      /\ scan.found \in [Threads -> SUBSET Messages] /\ scan.due \in [Threads -> SUBSET Nat]
  BY <1>1 DEF Scans
<1>4. scan.batch # <<>> /\ Len(scan.batch) \in Nat /\ 1 \in DOMAIN scan.batch
      /\ thread = scan.batch[1] /\ thread \in Threads
  <2>1. scan.batch # <<>>
    BY <1>1, <1>2 DEF PagingInv
  <2> QED BY <1>3, <2>1 DEF thread
<1>5. /\ page \in Seq(Messages) /\ Len(page) \in Nat
      /\ MessagesIn(page, job.window) \subseteq
           {m \in Range(source[thread].messages) : InWindow(m, job.window)}
      /\ Ahead(thread, scan.count) \subseteq
           Ids(MessagesIn(page, job.window)) \cup Ahead(thread, scan.count + Len(page))
      /\ ended => Ahead(thread, scan.count + Len(page)) = {}
  BY <1>1, <1>3, <1>4, PageCovers DEF page, ended
<1>6. due \subseteq Ids(scan.found[thread]) \cup Ahead(thread, scan.count)
  <2>1. CASE scan.pages > 0
    BY <1>1, <1>2, <1>3, <1>4, <2>1 DEF PagingInv, due
  <2>2. CASE ~(scan.pages > 0)
    <3>1. scan.count = 0
      BY <1>1, <1>3, <2>2 DEF PagingInv
    <3> QED BY <1>1, <1>4, <2>2, <3>1, AheadOfFirst DEF due
  <2> QED BY <2>1, <2>2
<1>7. due \subseteq Ids(found) \cup Ahead(thread, scan.count + Len(page))
  BY <1>5, <1>6 DEF Ids, found
<1>8. /\ \A m \in found : m \in Range(source[thread].messages) /\ InWindow(m, job.window)
      /\ found \in SUBSET Messages
  BY <1>1, <1>4, <1>5, IdsAreNumbers DEF FoundInv, found
<1>9. due \in SUBSET Nat
  BY <1>1, <1>3, <1>4, AheadOfFirst, IdsAreNumbers DEF due
<1>10. /\ read \in Scans
       /\ read.found = [scan.found EXCEPT ![thread] = found]
       /\ read.due = [scan.due EXCEPT ![thread] = due]
       /\ read.batch = scan.batch /\ read.last = scan.last /\ read.count = scan.count
       /\ read.pages = scan.pages /\ read.whole = scan.whole /\ read.threads = scan.threads
  BY <1>1, <1>4, <1>8, <1>9 DEF read, Scans
<1>11. /\ read.found[thread] = found /\ read.due[thread] = due
       /\ \A t \in Threads \ {thread} :
            read.found[t] = scan.found[t] /\ read.due[t] = scan.due[t]
  BY <1>3, <1>4, <1>10
<1>12. \A t \in scan.whole : t # thread /\ t \in Threads
  <2>1. scan.last < thread /\ \A t \in scan.whole : t <= scan.last
    BY <1>1, <1>4 DEF BatchInv
  <2>2. thread \in Nat /\ \A t \in scan.whole : t \in Threads /\ t \in Nat
    BY <1>3, <1>4, ExtractionConstants
  <2> QED BY <1>3, <2>1, <2>2
<1>13. \A t \in Threads : \A m \in read.found[t] :
         m \in Range(source[t].messages) /\ InWindow(m, job.window)
  BY <1>1, <1>8, <1>11 DEF FoundInv
<1>14. CASE ended \/ capped
  <2>1. /\ scan' = [read EXCEPT !.batch = Tail(scan.batch), !.last = thread, !.count = 0,
                                !.pages = 0, !.threads = threads, !.whole = whole]
        /\ job' = [job EXCEPT !.stage = StageAfterThread]
    <3>1. /\ scan' = [read EXCEPT !.batch = Tail(@), !.last = thread,
                                  !.count = 0, !.pages = 0,
                                  !.threads = IF Len(scan.batch) > 1
                                                 /\ StageAfterThread = "paging"
                                              THEN @ + 1 ELSE @,
                                  !.whole = IF ended THEN @ \cup {thread} ELSE @]
          /\ job' = [job EXCEPT !.stage = StageAfterThread]
      BY <1>0, <1>14
    <3> QED BY <1>10, <3>1 DEF threads, whole
  <2>2. /\ Tail(scan.batch) \in Seq(Threads) /\ threads \in Nat /\ whole \in SUBSET Threads
        /\ thread \in Nat
    <3>1. Tail(scan.batch) \in Seq(Threads)
      BY <1>3, <1>4
    <3>2. threads \in Nat /\ whole \in SUBSET Threads
      BY <1>3, <1>4 DEF threads, whole
    <3>3. thread \in Nat
      BY <1>4, ExtractionConstants
    <3> QED BY <3>1, <3>2, <3>3
  <2>3. /\ scan' \in Scans /\ scan'.batch = Tail(scan.batch) /\ scan'.last = thread
        /\ scan'.count = 0 /\ scan'.pages = 0 /\ scan'.whole = whole
        /\ scan'.found = read.found /\ scan'.due = read.due
    BY <1>10, <2>1, <2>2 DEF Scans
  <2>4. job'.stage = StageAfterThread /\ job'.window = job.window
    BY <2>1 DEF DayInv, PipelineInv, JobTyped, JobRecords
  <2>5. BatchInv'
    <3>1. \A i \in DOMAIN Tail(scan.batch) :
            i \in Nat /\ i + 1 \in DOMAIN scan.batch /\ Tail(scan.batch)[i] = scan.batch[i + 1]
      BY <1>3, <1>4
    <3>2. \A i \in DOMAIN Tail(scan.batch) : thread < Tail(scan.batch)[i]
      BY <1>1, <1>4, <3>1 DEF BatchInv
    <3>3. \A i, j \in DOMAIN Tail(scan.batch) : i < j =>
            Tail(scan.batch)[i] < Tail(scan.batch)[j]
      BY <1>1, <3>1 DEF BatchInv
    <3>4. \A t \in whole : t <= thread
      <4>1. scan.last < thread /\ \A t \in scan.whole : t <= scan.last
        BY <1>1, <1>4 DEF BatchInv
      <4>2. \A t \in scan.whole : t \in Nat
        BY <1>3, ExtractionConstants
      <4> QED BY <1>3, <2>2, <4>1, <4>2 DEF whole
    <3> QED BY <2>3, <3>2, <3>3, <3>4 DEF BatchInv
  <2>6. PagingInv'
    <3>1. StageAfterThread \in {"listing", "paging", "extracted"}
          /\ (StageAfterThread = "paging" => Len(scan.batch) > 1)
      BY DEF StageAfterThread
    <3>2. Len(scan.batch) > 1 => Tail(scan.batch) # <<>>
      BY <1>3, TailOfMore
    <3> QED BY <2>3, <2>4, <3>1, <3>2 DEF PagingInv
  <2>7. FoundInv'
    <3>1. \A t \in whole : read.due[t] \subseteq Ids(read.found[t])
      <4>1. ended => due \subseteq Ids(found)
        BY <1>5, <1>7
      <4> QED BY <1>1, <1>11, <1>12, <4>1 DEF FoundInv, whole
    <3> QED BY <1>2, <1>13, <2>3, <2>4, <3>1 DEF FoundInv, InWindow
  <2> QED BY <1>1, <1>2, <2>3, <2>5, <2>6, <2>7 DEF ScanInv, SourceInv, Scans, Listed
<1>15. CASE ~(ended \/ capped)
  <2>1. /\ scan' = [read EXCEPT !.count = scan.count + Len(page), !.pages = scan.pages + 1]
        /\ job' = job
    <3>1. /\ scan' = [read EXCEPT !.count = @ + Len(page), !.pages = @ + 1]
          /\ UNCHANGED job
      BY <1>0, <1>15
    <3> QED BY <1>10, <3>1
  <2>2. scan.count + Len(page) \in Nat /\ scan.pages + 1 \in Nat /\ scan.pages + 1 # 0
    BY <1>3, <1>5
  <2>3. /\ scan' \in Scans /\ scan'.batch = scan.batch /\ scan'.last = scan.last
        /\ scan'.count = scan.count + Len(page) /\ scan'.pages = scan.pages + 1
        /\ scan'.whole = scan.whole /\ scan'.found = read.found /\ scan'.due = read.due
    BY <1>10, <2>1, <2>2 DEF Scans
  <2>4. BatchInv'
    BY <1>1, <2>3 DEF BatchInv
  <2>5. PagingInv'
    <3>1. scan'.due[thread] \subseteq Ids(scan'.found[thread]) \cup Ahead(thread, scan'.count)
      BY <1>7, <1>11, <2>3
    <3>2. job'.stage = "paging" /\ scan'.pages # 0 /\ scan'.batch[1] = thread
          /\ scan'.batch # <<>>
      BY <1>2, <1>4, <2>1, <2>2, <2>3
    <3> QED BY <1>2, <2>1, <3>1, <3>2 DEF PagingInv, Ahead, InWindow, Beyond
  <2>6. FoundInv'
    <3>1. \A t \in scan.whole : read.due[t] \subseteq Ids(read.found[t])
      BY <1>1, <1>11, <1>12 DEF FoundInv
    <3> QED BY <1>2, <1>13, <2>1, <2>3, <3>1 DEF FoundInv, InWindow
  <2> QED BY <1>1, <1>2, <2>3, <2>4, <2>5, <2>6 DEF ScanInv, SourceInv, Scans, Listed
<1> QED BY <1>14, <1>15

(* Putting a message in front moves the others back by one.                *)
LEMMA Prepended ==
  ASSUME NEW S, NEW seq \in Seq(S), NEW m \in S
  PROVE  LET new == <<m>> \o seq
         IN /\ new \in Seq(S) /\ new[1] = m
            /\ \A i \in DOMAIN seq : i + 1 \in DOMAIN new /\ new[i + 1] = seq[i]
            /\ \A i \in DOMAIN new : i = 1 \/ (i - 1 \in DOMAIN seq /\ new[i] = seq[i - 1] /\ i > 1)
<1> PICK new : new = <<m>> \o seq
  OBVIOUS
<1>1. new \in Seq(S) /\ Len(new) = Len(seq) + 1 /\ new[1] = m /\ Len(seq) \in Nat
  OBVIOUS
<1>2. \A i \in 1 .. Len(seq) : new[i + 1] = seq[i]
  OBVIOUS
<1>3. \A i \in DOMAIN new : i # 1 => i - 1 \in 1 .. Len(seq) /\ (i - 1) + 1 = i /\ i > 1
  BY <1>1
<1>4. \A i \in DOMAIN seq : i + 1 \in DOMAIN new
  BY <1>1
<1> QED BY <1>1, <1>2, <1>3, <1>4

(* A message arrives while the run is reading.                             *)
LEMMA ArrivedScan ==
  ASSUME DayInv, ScanInv, NEW thread \in Threads, NEW kind \in Arriving, Arrive(thread, kind)
  PROVE  ScanInv'
<1> PICK m : m = NewMessage(thread, kind)
  OBVIOUS
<1> PICK old : old = source[thread].messages
  OBVIOUS
<1> PICK new : new = <<m>> \o old
  OBVIOUS
<1>1. /\ job.stage \in {"listing", "paging"} /\ arrivals' = arrivals + 1
      /\ source' = [source EXCEPT ![thread].messages = new]
      /\ UNCHANGED <<now, job, scan>>
  BY DEF Arrive
<1>2. /\ DOMAIN source = Threads /\ arrivals \in Nat /\ now \in Nat
      /\ source[thread] \in Conversations /\ old \in Seq(Messages)
      /\ \A i \in DOMAIN old : old[i].at <= now /\ old[i].id < 100 + arrivals
      /\ \A i, j \in DOMAIN old : i < j => old[j].at <= old[i].at /\ old[j].id # old[i].id
  BY DEF ScanInv, SourceInv, Conversations, DayInv, Listed
<1>3. m \in Messages /\ m.at = now /\ m.id = 100 + arrivals
  BY <1>2, ExtractionConstants DEF NewMessage, Messages
<1>4. /\ new \in Seq(Messages) /\ new[1] = m
      /\ \A i \in DOMAIN old : i + 1 \in DOMAIN new /\ new[i + 1] = old[i]
      /\ \A i \in DOMAIN new : i = 1 \/ (i - 1 \in DOMAIN old /\ new[i] = old[i - 1] /\ i > 1)
  BY SMTT(30), <1>2, <1>3, Prepended
<1>5. /\ DOMAIN source' = Threads
      /\ source'[thread] = [source[thread] EXCEPT !.messages = new]
      /\ \A t \in Threads \ {thread} : source'[t] = source[t]
  BY <1>1, <1>2
<1>6. source'[thread] \in Conversations /\ source'[thread].messages = new
  BY <1>2, <1>4, <1>5 DEF Conversations
<1>7. \A i \in DOMAIN old : old[i].at \in Nat /\ old[i].id \in Nat
  <2>1. \A i \in DOMAIN old : old[i] \in Messages
    BY <1>2
  <2> QED BY <2>1 DEF Messages
<1>8. \A i \in DOMAIN new : i \in Nat
  BY <1>4
<1>9. \A i \in DOMAIN new : new[i].at <= now /\ new[i].id < 100 + arrivals + 1
  BY SMTT(30), <1>2, <1>3, <1>4, <1>7
<1>10. ASSUME NEW i \in DOMAIN new, NEW j \in DOMAIN new, i < j
       PROVE  new[j].at <= new[i].at /\ new[j].id # new[i].id
  <2>1. j # 1
    BY <1>4, <1>8, <1>10
  <2>2. j - 1 \in DOMAIN old /\ new[j] = old[j - 1]
    BY <1>4, <2>1
  <2>3. CASE i = 1
    BY <1>2, <1>3, <1>4, <1>7, <2>2, <2>3
  <2>4. CASE i # 1
    <3>1. i - 1 \in DOMAIN old /\ new[i] = old[i - 1] /\ i - 1 < j - 1
      BY <1>4, <1>8, <1>10, <2>4
    <3> QED BY <1>2, <2>2, <3>1
  <2> QED BY <2>3, <2>4
<1>11. SourceInv'
  <2> SUFFICES ASSUME NEW t \in Threads PROVE Listed(source'[t], now', 100 + arrivals')
    <3>1. DOMAIN source' = Threads /\ arrivals' \in Nat
      BY <1>1, <1>2, <1>5
    <3> QED BY <3>1, Zenon DEF SourceInv
  <2>0. now' = now
    BY <1>1
  <2>1. CASE t = thread
    <3>1. arrivals' = arrivals + 1 /\ 100 + (arrivals + 1) = 100 + arrivals + 1
      BY <1>1, <1>2
    <3> QED BY ZenonT(60), <1>6, <1>9, <1>10, <2>0, <2>1, <3>1 DEF Listed
  <2>2. CASE t # thread
    <3> PICK messages : messages = source[t].messages
      OBVIOUS
    <3>1. /\ messages \in Seq(Messages)
          /\ \A i \in DOMAIN messages : messages[i].at <= now /\ messages[i].id < 100 + arrivals
          /\ \A i, j \in DOMAIN messages :
               i < j => messages[j].at <= messages[i].at /\ messages[j].id # messages[i].id
          /\ source[t] \in Conversations
      BY DEF ScanInv, SourceInv, Conversations, Listed
    <3>2. \A i \in DOMAIN messages : messages[i].id \in Nat
      <4>1. \A i \in DOMAIN messages : messages[i] \in Messages
        BY <3>1
      <4> QED BY <4>1 DEF Messages
    <3>3. \A i \in DOMAIN messages : messages[i].id < 100 + arrivals'
      BY <1>1, <1>2, <3>1, <3>2
    <3> QED BY <1>5, <2>0, <2>2, <3>1, <3>3 DEF Listed
  <2> QED BY <2>1, <2>2
<1>12. \A t \in Threads : Range(source[t].messages) \subseteq Range(source'[t].messages)
  <2>1. Range(old) \subseteq Range(new)
    <3> SUFFICES ASSUME NEW i \in DOMAIN old PROVE \E j \in DOMAIN new : new[j] = old[i]
      BY SMTT(30) DEF Range
    <3>1. i + 1 \in DOMAIN new /\ new[i + 1] = old[i]
      BY <1>4
    <3> QED BY <3>1
  <2> QED BY <1>5, <1>6, <2>1
<1>13. FoundInv'
  BY <1>1, <1>12 DEF ScanInv, FoundInv, InWindow
<1>14. \A t \in Threads, count \in Nat : Ahead(t, count) \subseteq
         Beyond(source'[t].messages, count, job.window)
  <2> SUFFICES ASSUME NEW t \in Threads, NEW count \in Nat,
                      NEW k \in DOMAIN source[t].messages, k > count,
                      InWindow(source[t].messages[k], job.window)
               PROVE  \E i \in DOMAIN source'[t].messages :
                        /\ i > count /\ InWindow(source'[t].messages[i], job.window)
                        /\ source[t].messages[k].id = source'[t].messages[i].id
    BY DEF Ahead, Beyond
  <2>1. CASE t = thread
    <3>1. k \in DOMAIN old /\ k \in Nat
      BY <1>2, <2>1
    <3>2. k + 1 \in DOMAIN new /\ new[k + 1] = old[k] /\ k + 1 > count
      BY <1>4, <3>1
    <3> QED BY <1>6, <2>1, <3>2
  <2>2. CASE t # thread
    BY <1>5, <2>2
  <2> QED BY <2>1, <2>2
<1>15. PagingInv'
  <2> SUFFICES ASSUME job.stage = "paging", scan.pages # 0
               PROVE  scan.due[scan.batch[1]] \subseteq
                        Ids(scan.found[scan.batch[1]])
                          \cup Beyond(source'[scan.batch[1]].messages, scan.count, job.window)
    BY <1>1 DEF ScanInv, PagingInv, Ahead
  <2>1. /\ scan.batch # <<>> /\ scan.batch \in Seq(Threads) /\ scan.count \in Nat
        /\ scan.due[scan.batch[1]] \subseteq
             Ids(scan.found[scan.batch[1]]) \cup Ahead(scan.batch[1], scan.count)
    BY DEF ScanInv, PagingInv, Scans
  <2>2. scan.batch[1] \in Threads
    BY <2>1
  <2> QED BY <1>14, <2>1, <2>2
<1>16. BatchInv' /\ scan' \in Scans
  BY <1>1 DEF ScanInv, BatchInv
<1> QED BY <1>11, <1>13, <1>15, <1>16 DEF ScanInv, Scans

(* Every step keeps the invariant of the extraction.                       *)
LEMMA ScanInvStep ==
  ASSUME DayInv, DayInv', ScanInv, [Next]_vars
  PROVE  ScanInv'
<1>1. CASE UNCHANGED vars
  BY <1>1, ScanElsewhere DEF vars, extractionVars, DayInv
<1>2. CASE \E request \in Requests : PlanJob(request)
  BY <1>2, PlannedScan
<1>3. CASE ScanStep /\ UNCHANGED <<dashboardVars, pipelineVars>>
  BY <1>3, OpenedScan, FailedScan, ListedScan, FetchedScan, ArrivedScan DEF ScanStep, Extract
<1>4. CASE LoadDays \/ Analyse \/ Materialize \/ Publish
  <2>1. UNCHANGED <<now, source, arrivals, scan>>
    BY <1>4 DEF LoadDays, Analyse, Materialize, Publish
  <2>2. \E stage \in Stages \ {"none", "queued", "listing", "paging"} :
          job' = [job EXCEPT !.stage = stage]
    BY <1>4 DEF LoadDays, Analyse, Materialize, Publish, Stages
  <2>3. job'.window = job.window /\ job'.stage \notin {"none", "queued", "listing", "paging"}
    BY <2>2 DEF DayInv, PipelineInv, JobTyped, JobRecords
  <2> QED BY <2>1, <2>3, ScanElsewhere DEF DayInv
<1>5. CASE Tick
  <2>1. now' = now + 1 /\ UNCHANGED <<source, arrivals, job, scan>>
    BY <1>5 DEF Tick
  <2> QED BY <2>1, ScanElsewhere DEF DayInv
<1>6. CASE (ViewStep \/ \E ask \in Asks : Look(ask)) /\ UNCHANGED <<extractionVars, pipelineVars>>
  BY <1>6, ScanElsewhere DEF extractionVars, DayInv
<1> QED BY <1>1, <1>2, <1>3, <1>4, <1>5, <1>6 DEF Next

(***************************************************************************)
(* What is made of the messages found.                                     *)
(***************************************************************************)
(* A sequence has finitely many elements.                                  *)
LEMMA RangeFinite ==
  ASSUME NEW S, NEW seq \in Seq(S)
  PROVE  IsFiniteSet(Range(seq))
<1> PICK n : n = Len(seq)
  OBVIOUS
<1>1. n \in Nat /\ DOMAIN seq = 1 .. n /\ seq \in [1 .. n -> Range(seq)]
  BY DEF Range
<1>2. seq \in Surjection(1 .. n, Range(seq))
  BY <1>1 DEF Surjection, Range
<1>3. IsFiniteSet(1 .. n)
  BY <1>1, FS_Interval
<1> QED BY <1>2, <1>3, FS_Surjection

(* Messages with numbers of their own are as many as their numbers.        *)
LEMMA IdsCounted ==
  ASSUME NEW S, IsFiniteSet(S), \A m, n \in S : m.id = n.id => m = n
  PROVE  IsFiniteSet(Ids(S)) /\ Cardinality(Ids(S)) = Cardinality(S)
<1> DEFINE f == [m \in S |-> m.id]
<1>1. f \in [S -> Ids(S)] /\ \A m \in S : f[m] = m.id
  BY DEF Ids
<1> HIDE DEF f
<1>2. f \in Bijection(S, Ids(S))
  <2>1. \A m, n \in S : f[m] = f[n] => m = n
    BY <1>1
  <2>2. \A d \in Ids(S) : \E m \in S : f[m] = d
    BY <1>1 DEF Ids
  <2> QED BY <1>1, <2>1, <2>2, Fun_IsBij
<1>3. ExistsBijection(S, Ids(S))
  BY <1>2 DEF ExistsBijection
<1> QED BY <1>3, FS_Bijection

(* The messages found are finitely many, no two of the same number.        *)
LEMMA FoundIsSet ==
  ASSUME ScanInv, NEW t \in Threads
  PROVE  /\ scan.found[t] \in SUBSET Messages /\ IsFiniteSet(scan.found[t])
         /\ \A m, n \in scan.found[t] : m.id = n.id => m = n
<1> PICK seq : seq = source[t].messages
  OBVIOUS
<1> PICK found : found = scan.found[t]
  OBVIOUS
<1>1. /\ seq \in Seq(Messages)
      /\ \A i, j \in DOMAIN seq : i < j => seq[j].id # seq[i].id
  BY DEF ScanInv, SourceInv, Listed, Conversations
<1>2. found \subseteq Range(seq) /\ found \subseteq Messages
  BY DEF ScanInv, FoundInv, Scans
<1>3. \A i, j \in DOMAIN seq : seq[i].id = seq[j].id => i = j
  <2>1. \A i \in DOMAIN seq : i \in Nat
    BY <1>1
  <2> QED BY <1>1, <2>1
<1>4. \A m, n \in found : m.id = n.id => m = n
  BY <1>2, <1>3 DEF Range
<1>5. IsFiniteSet(found)
  BY <1>1, <1>2, RangeFinite, FS_Subset
<1> QED BY <1>2, <1>4, <1>5

LEMMA FunctionAsSequence ==
  ASSUME NEW S, NEW n \in Nat, NEW f \in [1 .. n -> S]
  PROVE  f \in Seq(S) /\ Len(f) = n
OBVIOUS

(* Roles and the opening are worked out message by message; numbers and    *)
(* times stay.                                                             *)
LEMMA TransformedKeeps ==
  ASSUME NEW seq
  PROVE  /\ DOMAIN Transformed(seq) = DOMAIN seq
         /\ \A i \in DOMAIN seq : /\ Transformed(seq)[i].id = seq[i].id
                                  /\ Transformed(seq)[i].at = seq[i].at
<1> DEFINE Made(i) == [id |-> seq[i].id, at |-> seq[i].at, kind |-> seq[i].kind,
                       role |-> SenderRole(seq[i].kind), opening |-> i <= OpeningEnd(seq)]
<1>1. Transformed(seq) = [i \in DOMAIN seq |-> Made(i)]
  BY Zenon DEF Transformed
<1>2. \A i : Made(i).id = seq[i].id /\ Made(i).at = seq[i].at
  <2>1. \A a, b, c, d, e : /\ [id |-> a, at |-> b, kind |-> c, role |-> d, opening |-> e].id = a
                           /\ [id |-> a, at |-> b, kind |-> c, role |-> d, opening |-> e].at = b
    OBVIOUS
  <2> QED BY <2>1, Zenon
<1> HIDE DEF Made
<1> QED BY <1>1, <1>2

(* Each message once, in the window and in order.                          *)
DaySound(messages, window) ==
  /\ Len(messages) = Cardinality(Ids(Range(messages)))
  /\ \A i \in DOMAIN messages : InWindow(messages[i], window)
  /\ \A i, j \in DOMAIN messages : i < j => messages[i].at <= messages[j].at

(* The day made of the messages found has each of them once, in the window *)
(* and in order.                                                           *)
LEMMA DayIsSound ==
  ASSUME NEW found \in SUBSET Messages, IsFiniteSet(found),
         \A m, n \in found : m.id = n.id => m = n,
         NEW window, \A m \in found : InWindow(m, window)
  PROVE  LET messages == Transformed(SortMessages(found))
         IN DaySound(messages, window) /\ Len(messages) = Cardinality(found)
<1> PICK seq : seq = SortMessages(found)
  OBVIOUS
<1> PICK messages : messages = Transformed(seq)
  OBVIOUS
<1> PICK n : n = Cardinality(found)
  OBVIOUS
<1>1. /\ seq \in Seq(found) /\ Len(seq) = n /\ n \in Nat
      /\ \A i, j \in DOMAIN seq : i < j => Older(seq[i], seq[j])
      /\ \A m \in found : \E i \in DOMAIN seq : seq[i] = m
  BY MessagesInOrder, FS_CardinalityType
<1>2. /\ DOMAIN messages = DOMAIN seq
      /\ \A i \in DOMAIN seq : messages[i].id = seq[i].id /\ messages[i].at = seq[i].at
  BY TransformedKeeps
<1>3. DOMAIN seq = 1 .. n /\ \A i \in DOMAIN seq : seq[i] \in found
  BY <1>1
<1>4. Len(messages) = n
  <2>1. messages = [i \in 1 .. n |-> messages[i]]
    BY <1>2, <1>3 DEF Transformed
  <2> PICK S : S = {messages[i] : i \in 1 .. n}
    OBVIOUS
  <2>2. messages \in [1 .. n -> S]
    BY <2>1
  <2> QED BY <1>1, <2>2, FunctionAsSequence
<1>5. Ids(Range(messages)) = Ids(found)
  BY <1>1, <1>2, <1>3 DEF Ids, Range
<1>6. Cardinality(Ids(found)) = n
  BY IdsCounted
<1>7. \A i \in DOMAIN messages : InWindow(messages[i], window)
  BY <1>2, <1>3 DEF InWindow
<1>8. ASSUME NEW i \in DOMAIN messages, NEW j \in DOMAIN messages, i < j
      PROVE  messages[i].at <= messages[j].at
  <2>1. Older(seq[i], seq[j]) /\ seq[i] \in Messages /\ seq[j] \in Messages
    BY <1>1, <1>2, <1>3, <1>8
  <2>2. seq[i].at \in Nat /\ seq[j].at \in Nat
    BY <2>1 DEF Messages
  <2> QED BY <1>2, <2>1, <2>2 DEF Older
<1> QED BY <1>4, <1>5, <1>6, <1>7, <1>8 DEF DaySound

(***************************************************************************)
(* The invariant of what is loaded, analysed and written.                  *)
(***************************************************************************)
Unloaded == {"none", "queued", "listing", "paging", "extracted"}

(* Days once loaded, results once analysed, and each day is sound.         *)
LoadInv ==
  /\ job.stage \in Unloaded => days = Nothing
  /\ job.stage \in Unloaded \cup {"loaded"} => results = Nothing
  /\ DOMAIN days \subseteq Threads /\ unsaved \subseteq Threads
  /\ results # Nothing => DOMAIN results = DOMAIN days
  /\ \A t \in DOMAIN days : DaySound(days[t].messages, job.window)

Pairs(facts) == {[run |-> f.run, thread |-> f.thread] : f \in facts}

(* Facts of results, and staff facts of conversations that have a fact.    *)
RowsInv ==
  /\ {f.thread : f \in {x \in mart : x.run = job.id}} \subseteq DOMAIN results
  /\ Pairs(staffMart) \subseteq Pairs(mart)

FullInv == DayInv /\ ScanInv /\ LoadInv /\ RowsInv

LEMMA InitFullInv == Init => FullInv
<1> SUFFICES ASSUME Init PROVE FullInv
  OBVIOUS
<1>1. DayInv /\ ScanInv
  BY InitPipelineInv, InitScanInv, DayConstants DEF Init, DayInv
<1> PICK world \in Worlds :
      /\ job.stage = "none" /\ days = Nothing /\ unsaved = {} /\ results = Nothing
      /\ mart = world.earlier.mart /\ staffMart = world.earlier.staffMart /\ job.id = 1
  BY DEF Init
<1>2. DOMAIN Nothing = {}
  BY DEF Nothing
<1>3. LoadInv
  BY <1>2 DEF LoadInv
<1>4. RowsInv
  <2>1. \A f \in mart : f.run # 1
    BY DayConstants DEF Former
  <2>2. \A f \in staffMart : \E g \in mart : f.run = g.run /\ f.thread = g.thread
    BY DayConstants DEF Former
  <2>3. Pairs(staffMart) \subseteq Pairs(mart)
    BY <2>2 DEF Pairs
  <2> QED BY <2>1, <2>3 DEF RowsInv
<1> QED BY <1>1, <1>3, <1>4 DEF FullInv

LEMMA BuiltMessages ==
  ASSUME NEW conversation, NEW found, NEW window, NEW etl
  PROVE  BuildConversationDay(conversation, found, window, etl).messages
           = Transformed(SortMessages(found))
BY Zenon DEF BuildConversationDay

(* The days of the conversations that could be saved.                      *)
DaysOf(saved) ==
  [t \in saved |-> BuildConversationDay(source[t], scan.found[t], job.window, setup.etl)]

(* What loading does: some conversations are saved, the others reported.   *)
LEMMA LoadingDoes ==
  ASSUME LoadDays, job \in JobRecords
  PROVE  \E saved \in SUBSET WithMessages, stage \in {"loaded", "failed"} :
           /\ job.stage = "extracted" /\ job'.stage = stage /\ job'.window = job.window
           /\ job'.id = job.id
           /\ days' = DaysOf(saved) /\ unsaved' = WithMessages \ saved
           /\ UNCHANGED <<source, scan, setup, results, board, mart, staffMart, view>>
<1>1. \E saved \in SUBSET WithMessages :
        /\ job.stage = "extracted"
        /\ days' = DaysOf(saved) /\ unsaved' = WithMessages \ saved
        /\ job' = [job EXCEPT !.stage = IF saved = {} /\ WithMessages # {} THEN "failed"
                                        ELSE "loaded"]
        /\ UNCHANGED <<source, scan, setup, results, dashboardVars>>
  BY Zenon DEF LoadDays, DaysOf
<1>2. PICK saved \in SUBSET WithMessages :
        /\ job.stage = "extracted"
        /\ days' = DaysOf(saved) /\ unsaved' = WithMessages \ saved
        /\ job' = [job EXCEPT !.stage = IF saved = {} /\ WithMessages # {} THEN "failed"
                                        ELSE "loaded"]
        /\ UNCHANGED <<source, scan, setup, results, dashboardVars>>
  BY <1>1
<1> PICK stage \in {"loaded", "failed"} :
      stage = IF saved = {} /\ WithMessages # {} THEN "failed" ELSE "loaded"
  OBVIOUS
<1>3. job' = [job EXCEPT !.stage = stage]
  BY <1>2
<1>4. job'.stage = stage /\ job'.window = job.window /\ job'.id = job.id
  BY <1>3 DEF JobRecords
<1> QED BY <1>2, <1>4 DEF dashboardVars

(* The days are loaded.                                                    *)
LEMMA LoadedFull ==
  ASSUME FullInv, LoadDays
  PROVE  LoadInv' /\ RowsInv'
<1>0. job \in JobRecords
  BY DEF FullInv, DayInv, PipelineInv, JobTyped
<1>1. PICK saved \in SUBSET WithMessages, stage \in {"loaded", "failed"} :
        /\ job.stage = "extracted" /\ job'.stage = stage /\ job'.window = job.window
        /\ job'.id = job.id
        /\ days' = DaysOf(saved) /\ unsaved' = WithMessages \ saved
        /\ UNCHANGED <<source, scan, setup, results, board, mart, staffMart, view>>
  BY <1>0, LoadingDoes
<1>2. results = Nothing /\ WithMessages \subseteq Threads
  BY <1>1 DEF FullInv, LoadInv, Unloaded, WithMessages
<1>3. ASSUME NEW t \in DOMAIN days'
      PROVE  DaySound(days'[t].messages, job.window)
  <2>1. t \in Threads /\ days'[t].messages = Transformed(SortMessages(scan.found[t]))
    BY <1>1, <1>2, BuiltMessages DEF DaysOf
  <2>2. \A m \in scan.found[t] : InWindow(m, job.window)
    BY <2>1 DEF FullInv, ScanInv, FoundInv
  <2> QED BY <2>1, <2>2, FoundIsSet, DayIsSound DEF FullInv
<1>6. DOMAIN days' \subseteq Threads /\ unsaved' \subseteq Threads
  BY <1>1, <1>2 DEF DaysOf
<1>4. LoadInv'
  BY <1>1, <1>2, <1>3, <1>6 DEF LoadInv, Unloaded
<1>5. RowsInv'
  BY <1>1 DEF FullInv, RowsInv
<1> QED BY <1>4, <1>5

(* The units are analysed.                                                 *)
LEMMA AnalysedFull ==
  ASSUME FullInv, Analyse
  PROVE  LoadInv' /\ RowsInv'
<1>1. /\ job.stage = "loaded" /\ job'.stage \in {"failed", "analysed"}
      /\ job'.window = job.window /\ job'.id = job.id
      /\ DOMAIN results' = DOMAIN days /\ UNCHANGED <<days, unsaved, mart, staffMart>>
  BY DEF Analyse, Results, dashboardVars, FullInv, DayInv, PipelineInv, JobTyped, JobRecords
<1>2. \A f \in mart : f.run # job.id
  BY <1>1 DEF FullInv, DayInv, PipelineInv, MartInv, Written
<1>3. LoadInv'
  BY <1>1 DEF FullInv, LoadInv, Unloaded, DaySound, InWindow
<1>4. RowsInv'
  BY <1>1, <1>2 DEF FullInv, RowsInv
<1> QED BY <1>3, <1>4

(* Each staff fact is of a unit that can be used.                          *)
LEMMA StaffFactOf ==
  ASSUME NEW f \in StaffFacts(job, days, results)
  PROVE  f.run = job.id /\ f.thread \in Usable(results)
<1> PICK t \in Usable(results) :
      f \in BuildFactStaffThreadDays(job, t, days[t], results[t])
  BY DEF StaffFacts
<1> QED BY DEF BuildFactStaffThreadDays

(* Each unit that can be used has its fact.                                *)
LEMMA FactMade ==
  ASSUME NEW t \in Usable(results)
  PROVE  \E f \in ThreadFacts(job, days, results) : f.run = job.id /\ f.thread = t
<1> PICK f : f = BuildFactThreadDay(job, t, days[t], results[t])
  OBVIOUS
<1>1. f \in ThreadFacts(job, days, results)
  BY DEF ThreadFacts
<1>2. f.run = job.id /\ f.thread = t
  BY DEF BuildFactThreadDay
<1> QED BY <1>1, <1>2

(* The facts of the run replace those it may have left.                    *)
LEMMA MaterializedFull ==
  ASSUME FullInv, Materialize
  PROVE  LoadInv' /\ RowsInv'
<1> PICK facts : facts = ThreadFacts(job, days, results)
  OBVIOUS
<1> PICK staffFacts : staffFacts = StaffFacts(job, days, results)
  OBVIOUS
<1>1. /\ job'.stage = "materialized" /\ job'.window = job.window /\ job'.id = job.id
      /\ mart' = {f \in mart : f.run # job.id} \cup facts
      /\ staffMart' = {f \in staffMart : f.run # job.id} \cup staffFacts
      /\ UNCHANGED <<days, unsaved, results>>
  <2>1. /\ job' = [job EXCEPT !.stage = "materialized"]
        /\ mart' = {f \in mart : f.run # job.id} \cup facts
        /\ staffMart' = {f \in staffMart : f.run # job.id} \cup staffFacts
        /\ UNCHANGED <<days, unsaved, results>>
    BY Zenon DEF Materialize, pipelineVars
  <2> QED BY <2>1 DEF FullInv, DayInv, PipelineInv, JobTyped, JobRecords
<1>2. LoadInv'
  BY <1>1 DEF FullInv, LoadInv, Unloaded, DaySound, InWindow
<1>3. \A f \in facts : f.run = job.id /\ f.thread \in Usable(results)
  BY FactOf
<1>4. \A f \in staffFacts : f.run = job.id /\ f.thread \in Usable(results)
  BY StaffFactOf
<1>5. \A t \in Usable(results) : \E f \in facts : f.run = job.id /\ f.thread = t
  BY FactMade
<1>6. Usable(results) \subseteq DOMAIN results
  BY DEF Usable
<1>7. {f.thread : f \in {x \in mart' : x.run = job'.id}} \subseteq DOMAIN results'
  BY <1>1, <1>3, <1>6
<1>8. ASSUME NEW f \in staffMart' PROVE \E g \in mart' : f.run = g.run /\ f.thread = g.thread
  <2>1. CASE f \in staffFacts
    BY <1>1, <1>4, <1>5, <2>1
  <2>2. CASE f \in staffMart /\ f.run # job.id
    <3>1. [run |-> f.run, thread |-> f.thread] \in Pairs(mart)
      BY <2>2 DEF FullInv, RowsInv, Pairs
    <3>2. PICK g \in mart :
            [run |-> f.run, thread |-> f.thread] = [run |-> g.run, thread |-> g.thread]
      BY <3>1 DEF Pairs
    <3>3. f.run = g.run /\ f.thread = g.thread
      <4>1. \A a, b : [run |-> a, thread |-> b].run = a /\ [run |-> a, thread |-> b].thread = b
        OBVIOUS
      <4> QED BY <3>2, <4>1
    <3> QED BY <1>1, <2>2, <3>3
  <2> QED BY <1>1, <2>1, <2>2
<1>9. Pairs(staffMart') \subseteq Pairs(mart')
  BY <1>8 DEF Pairs
<1> QED BY <1>2, <1>7, <1>9 DEF RowsInv

(* Steps that leave days, results and facts alone.                         *)
LEMMA ElsewhereFull ==
  ASSUME FullInv, UNCHANGED <<days, unsaved, results, mart, staffMart>>, job'.id = job.id,
         \/ job'.window = job.window
         \/ days = Nothing,
         \/ job'.stage = job.stage
         \/ job.stage = "none" /\ job'.stage = "queued"
         \/ job'.stage \notin Unloaded \cup {"loaded"}
         \/ job.stage \in Unloaded /\ job'.stage \in Unloaded
  PROVE  LoadInv' /\ RowsInv'
<1>1. DOMAIN Nothing = {}
  BY DEF Nothing
<1>2. LoadInv'
  BY <1>1 DEF FullInv, LoadInv, Unloaded, DaySound, InWindow
<1>3. RowsInv'
  BY DEF FullInv, RowsInv
<1> QED BY <1>2, <1>3

(* Every step keeps the invariant.                                         *)
LEMMA FullInvStep ==
  ASSUME FullInv, [Next]_vars
  PROVE  FullInv'
<1>1. DayInv' /\ ScanInv'
  BY DayInvStep, ScanInvStep DEF FullInv
<1>2. LoadInv' /\ RowsInv'
  <2>0. job \in JobRecords
    BY DEF FullInv, DayInv, PipelineInv, JobTyped
  <2>1. CASE UNCHANGED vars
    BY <2>1, ElsewhereFull DEF vars, extractionVars, dashboardVars, pipelineVars
  <2>2. ASSUME NEW request \in Requests, PlanJob(request) PROVE LoadInv' /\ RowsInv'
    <3>1. /\ UNCHANGED <<days, unsaved, results, mart, staffMart>> /\ job'.id = job.id
          /\ job.stage = "none" /\ job'.stage = "queued"
      BY <2>0, <2>2 DEF PlanJob, dashboardVars, JobRecords
    <3>2. days = Nothing
      BY <3>1 DEF FullInv, LoadInv, Unloaded
    <3> QED BY <3>1, <3>2, ElsewhereFull
  <2>3. CASE ScanStep /\ UNCHANGED <<dashboardVars, pipelineVars>>
    <3>1. UNCHANGED <<days, unsaved, results, mart, staffMart>>
      BY <2>3 DEF dashboardVars, pipelineVars
    <3>2. job'.id = job.id /\ job'.window = job.window
      BY <2>0, <2>3, ScanSteps DEF JobRecords
    <3>3. \/ job'.stage = job.stage \/ job'.stage \notin Unloaded \cup {"loaded"}
          \/ job.stage \in Unloaded /\ job'.stage \in Unloaded
      BY <2>0, <2>3, ScanSteps DEF JobRecords, Unloaded
    <3> QED BY <3>1, <3>2, <3>3, ElsewhereFull
  <2>4. CASE LoadDays \/ Analyse \/ Materialize
    BY <2>4, LoadedFull, AnalysedFull, MaterializedFull
  <2>5. CASE Publish
    <3>1. UNCHANGED <<days, unsaved, results, mart, staffMart>> /\ job'.id = job.id
          /\ job'.window = job.window /\ job'.stage = "published"
      BY <2>0, <2>5 DEF Publish, pipelineVars, JobRecords
    <3> QED BY <3>1, ElsewhereFull DEF Unloaded
  <2>6. CASE Tick
    BY <2>6, ElsewhereFull DEF Tick, dashboardVars, pipelineVars
  <2>7. CASE (ViewStep \/ \E ask \in Asks : Look(ask)) /\ UNCHANGED <<extractionVars, pipelineVars>>
    <3>1. UNCHANGED <<mart, staffMart>>
      BY <2>7 DEF ViewStep, ListSnapshots, ResolveSlice, ListFactThreadDays,
                  ListFactStaffThreadDays, Look, OpenView
    <3> QED BY <2>7, <3>1, ElsewhereFull DEF extractionVars, pipelineVars
  <2> QED BY <2>1, <2>2, <2>3, <2>4, <2>5, <2>6, <2>7 DEF Next
<1> QED BY <1>1, <1>2 DEF FullInv

LEMMA FullInvHolds == Spec => []FullInv
BY InitFullInv, FullInvStep, PTL DEF Spec

(* The stage, the days, the results, the facts of the run and the board    *)
(* belong together: TypeOK.                                                *)
THEOREM TypeCorrect == Spec => []TypeOK
<1>1. FullInv => TypeOK
  <2> SUFFICES ASSUME FullInv PROVE TypeOK
    OBVIOUS
  <2>1. job.stage \in Stages /\ scan.whole \subseteq Threads
    BY DEF FullInv, DayInv, PipelineInv, JobTyped, JobRecords, ScanInv, Scans
  <2>2. view.stage \in {"none", "listing", "resolving", "reading", "answered"}
    BY DEF FullInv, DayInv, PipelineInv, ViewInv, NoView, Views
  <2>3. board \subseteq Snapshots /\ \A s, o \in board : s.day = o.day /\ s.channel = o.channel => s = o
    BY DEF FullInv, DayInv, PipelineInv, BoardInv
  <2> QED BY <2>1, <2>2, <2>3 DEF FullInv, LoadInv, RowsInv, Pairs, TypeOK
<1> QED BY <1>1, FullInvHolds, PTL

(* Whatever arrives while a conversation is read, one that was read to its *)
(* end has every message of the window, and its day has each once, in order*)
(* and none from outside.                                                  *)
THEOREM NoneMissed == Spec => []NothingMissed
<1>1. FullInv => NothingMissed
  BY DEF FullInv, ScanInv, FoundInv, LoadInv, DaySound, NothingMissed
<1> QED BY <1>1, FullInvHolds, PTL

(***************************************************************************)
(* The invariant of what is counted.                                       *)
(***************************************************************************)
(* A leg that has all the facts of its runs in the bucket asked for.       *)
IsWhole(leg) == view.threads[leg] = ThreadFactsOf(Runs(view.slice[leg]), view.ask)

(* A leg whose thread facts have been read is whole: the mart does not     *)
(* change any more once a reader is let in.                                *)
ReadInv ==
  view.stage # "none" /\ view.ask.kind # "staff" =>
    /\ view.stage = "reading" /\ "threads" \notin view.toRead => IsWhole(view.leg)
    /\ view.stage = "answered" => IsWhole(view.leg)
    /\ view.leg = "previous" => IsWhole("current")

(* A day for each conversation with messages that is not reported as       *)
(* unsaved, with as many as were found; from the analysis on, a result and *)
(* then a fact for each day.                                               *)
CountInv ==
  /\ job.stage \in {"loaded", "analysed"} \cup Written =>
       /\ DOMAIN days = WithMessages \ unsaved
       /\ \A t \in DOMAIN days : Len(days[t].messages) = Cardinality(scan.found[t])
  /\ job.stage \in {"analysed"} \cup Written => Usable(results) = DOMAIN days
  /\ job.stage \in Written =>
       /\ \A t \in DOMAIN days : \E f \in mart : f.run = job.id /\ f.thread = t
       /\ \A f \in mart : f.run = job.id =>
            f.thread \in DOMAIN days /\ f.messages = Len(days[f.thread].messages)

LEMMA InitCounted == Init => ReadInv /\ CountInv
<1> SUFFICES ASSUME Init PROVE ReadInv /\ CountInv
  OBVIOUS
<1>1. view = NoView /\ job.stage = "none"
  BY DEF Init
<1> QED BY <1>1 DEF ReadInv, CountInv, NoView, Written

(* Steps that leave the run and its facts alone.                           *)
LEMMA CountStays ==
  ASSUME CountInv, UNCHANGED <<scan, days, unsaved, results, mart>>, job'.id = job.id,
         \/ job'.stage = job.stage
         \/ job'.stage \notin {"loaded", "analysed"} \cup Written
         \/ job.stage \in Written /\ job'.stage \in Written
  PROVE  CountInv'
BY DEF CountInv, WithMessages, Written, Usable

(* Each conversation with messages gets its day or is reported.            *)
LEMMA LoadedCount ==
  ASSUME FullInv, LoadDays
  PROVE  CountInv'
<1>0. job \in JobRecords
  BY DEF FullInv, DayInv, PipelineInv, JobTyped
<1>1. PICK saved \in SUBSET WithMessages, stage \in {"loaded", "failed"} :
        /\ job.stage = "extracted" /\ job'.stage = stage /\ job'.window = job.window
        /\ job'.id = job.id
        /\ days' = DaysOf(saved) /\ unsaved' = WithMessages \ saved
        /\ UNCHANGED <<source, scan, setup, results, board, mart, staffMart, view>>
  BY <1>0, LoadingDoes
<1>2. DOMAIN days' = WithMessages \ unsaved' /\ DOMAIN days' = saved
      /\ WithMessages \subseteq Threads
  BY <1>1 DEF WithMessages, DaysOf
<1>3. ASSUME NEW t \in DOMAIN days'
      PROVE  Len(days'[t].messages) = Cardinality(scan.found[t])
  <2>1. t \in Threads /\ days'[t].messages = Transformed(SortMessages(scan.found[t]))
    BY <1>1, <1>2, BuiltMessages DEF DaysOf
  <2>2. \A m \in scan.found[t] : InWindow(m, job.window)
    BY <2>1 DEF FullInv, ScanInv, FoundInv
  <2> QED BY <2>1, <2>2, FoundIsSet, DayIsSound DEF FullInv
<1>4. WithMessages' = WithMessages
  BY <1>1 DEF WithMessages
<1> QED BY <1>1, <1>2, <1>3, <1>4 DEF CountInv, Written

(* A result succeeded, is unknown or failed; the first two can be used.    *)
LEMMA StatusOfResult ==
  ASSUME NEW mode, NEW day, NEW answer \in Answers(mode, day)
  PROVE  NormalizedResult(day, answer).status \in {"succeeded", "unknown", "failed"}
<1>1. CASE Rejected(answer)
  BY <1>1 DEF NormalizedResult, FailedResult
<1>2. CASE ~Rejected(answer)
  <2>1. answer # NoAnswer
    BY <1>2 DEF Rejected
  <2>2. answer.status \in {"succeeded", "unknown"}
    <3>1. CASE answer \in ProviderAnswers
      BY <2>1, <3>1, AnswersSucceed
    <3>2. CASE answer = DeterministicAnswer(day)
      BY <3>2 DEF DeterministicAnswer
    <3> QED BY <3>1, <3>2 DEF Answers
  <2>3. NormalizedResult(day, answer).status = answer.status
    BY <1>2 DEF NormalizedResult
  <2> QED BY <2>2, <2>3
<1> QED BY <1>1, <1>2

(* A run that goes on has a usable result for every day.                   *)
LEMMA AnalysedCount ==
  ASSUME FullInv, CountInv, Analyse
  PROVE  CountInv'
<1> PICK stage : stage = IF \E t \in DOMAIN results' : results'[t].status = "failed"
                         THEN "failed" ELSE "analysed"
  OBVIOUS
<1>1. /\ job.stage = "loaded" /\ job'.stage = stage
      /\ results' \in Results(setup.mode, days) /\ UNCHANGED <<scan, days, unsaved>>
  <2>1. /\ job.stage = "loaded" /\ job' = [job EXCEPT !.stage = stage]
        /\ results' \in Results(setup.mode, days) /\ UNCHANGED <<scan, days, unsaved>>
    BY DEF Analyse
  <2> QED BY <2>1 DEF FullInv, DayInv, PipelineInv, JobTyped, JobRecords
<1>2. DOMAIN results' = DOMAIN days
  BY <1>1 DEF Results
<1>3. ASSUME NEW t \in DOMAIN days
      PROVE  results'[t].status \in {"succeeded", "unknown", "failed"}
  <2>1. \A u \in DOMAIN days : \E a \in Answers(setup.mode, days[u]) :
           results'[u] = NormalizedResult(days[u], a)
    BY <1>1 DEF Results
  <2> PICK a \in Answers(setup.mode, days[t]) : results'[t] = NormalizedResult(days[t], a)
    BY <2>1
  <2> QED BY StatusOfResult
<1>4. stage = "analysed" => Usable(results') = DOMAIN days
  BY <1>2, <1>3 DEF Usable
<1>5. WithMessages' = WithMessages
  BY <1>1 DEF WithMessages
<1>6. DOMAIN days = WithMessages \ unsaved
      /\ \A t \in DOMAIN days : Len(days[t].messages) = Cardinality(scan.found[t])
  BY <1>1 DEF CountInv
<1>7. Usable(results)' = Usable(results')
  BY DEF Usable
<1> QED BY <1>1, <1>4, <1>5, <1>6, <1>7 DEF CountInv, Written

(* A fact counts the messages of its day.                                  *)
LEMMA MessagesOfFact ==
  ASSUME NEW f \in ThreadFacts(job, days, results)
  PROVE  f.messages = Len(days[f.thread].messages)
<1> PICK t \in Usable(results) : f = BuildFactThreadDay(job, t, days[t], results[t])
  BY DEF ThreadFacts
<1>1. f.thread = t /\ f.messages = Len(days[t].messages)
  BY DEF BuildFactThreadDay
<1> QED BY <1>1

(* Each day gets its fact.                                                 *)
LEMMA MaterializedCount ==
  ASSUME FullInv, CountInv, Materialize
  PROVE  CountInv'
<1> PICK facts : facts = ThreadFacts(job, days, results)
  OBVIOUS
<1>1. /\ job.stage = "analysed" /\ job'.stage = "materialized" /\ job'.id = job.id
      /\ mart' = {f \in mart : f.run # job.id} \cup facts
      /\ UNCHANGED <<scan, days, unsaved, results>>
  <2>1. /\ job.stage = "analysed" /\ job' = [job EXCEPT !.stage = "materialized"]
        /\ mart' = {f \in mart : f.run # job.id} \cup facts
        /\ UNCHANGED <<scan, days, unsaved, results>>
    BY Zenon DEF Materialize, pipelineVars
  <2> QED BY <2>1 DEF FullInv, DayInv, PipelineInv, JobTyped, JobRecords
<1>2. /\ DOMAIN days = WithMessages \ unsaved /\ Usable(results) = DOMAIN days
      /\ \A t \in DOMAIN days : Len(days[t].messages) = Cardinality(scan.found[t])
  BY <1>1 DEF CountInv
<1>3. \A t \in DOMAIN days : \E f \in mart' : f.run = job'.id /\ f.thread = t
  BY <1>1, <1>2, FactMade
<1>4. \A f \in facts : f.thread \in DOMAIN days /\ f.messages = Len(days[f.thread].messages)
  BY <1>2, FactOf, MessagesOfFact
<1>5. \A f \in mart' : f.run = job'.id => f \in facts
  BY <1>1
<1>6. WithMessages' = WithMessages /\ Usable(results)' = Usable(results)
  BY <1>1 DEF WithMessages, Usable
<1> QED BY <1>1, <1>2, <1>3, <1>4, <1>5, <1>6 DEF CountInv

(* Steps that leave the reader and the mart alone.                         *)
LEMMA ReadStays ==
  ASSUME ReadInv, UNCHANGED view, UNCHANGED mart \/ view = NoView
  PROVE  ReadInv'
BY DEF ReadInv, IsWhole, ThreadFactsOf, NoView

(* A query is answered: what was read is whole, and what is left to read is*)
(* read next or not at all.                                                *)
LEMMA AnsweredRead ==
  ASSUME FullInv, ReadInv, NEW query \in {"threads", "staff"}, NEW read,
         view.stage = "reading", UNCHANGED mart,
         read \in Views, read.stage = "reading", read.ask = view.ask, read.leg = view.leg,
         read.slice = view.slice, read.toRead = view.toRead,
         \A leg \in Legs \ {view.leg} : read.threads[leg] = view.threads[leg],
         query = "threads" =>
           read.threads[view.leg] = ThreadFactsOf(Runs(view.slice[view.leg]), view.ask),
         query = "staff" => read.threads = view.threads,
         view' = AfterQuery(read, query)
  PROVE  ReadInv'
<1> PICK left : left = read.toRead \ {query}
  OBVIOUS
<1> PICK more \in BOOLEAN : more = (read.ask.kind = "overview" /\ read.leg = "current")
  <2>1. (read.ask.kind = "overview" /\ read.leg = "current") \in BOOLEAN
    OBVIOUS
  <2> QED BY <2>1, Zenon
<1> PICK stage : stage = IF left # {} THEN "reading" ELSE IF more THEN "listing" ELSE "answered"
  OBVIOUS
<1> PICK next : next = IF left = {} /\ more THEN "previous" ELSE read.leg
  OBVIOUS
<1>1. view' = [read EXCEPT !.toRead = left, !.stage = stage, !.leg = next]
  BY Zenon DEF AfterQuery
<1>2. /\ view'.stage = stage /\ view'.leg = next /\ view'.ask = view.ask
      /\ view'.slice = view.slice /\ view'.threads = read.threads /\ view'.toRead = left
  BY <1>1 DEF Views
<1>3. view.leg \in Legs /\ read.toRead \subseteq {"threads", "staff"}
  BY DEF Views
<1> PICK facts : facts = [leg \in Legs |-> ThreadFactsOf(Runs(view.slice[leg]), view.ask)]
  OBVIOUS
<1>5. \A leg \in Legs : IsWhole(leg)' <=> read.threads[leg] = facts[leg]
  BY <1>2 DEF IsWhole, ThreadFactsOf
<1>6. \A leg \in Legs : IsWhole(leg) <=> view.threads[leg] = facts[leg]
  BY DEF IsWhole
<1>7. SUFFICES ASSUME view.ask.kind # "staff"
               PROVE  /\ stage = "reading" /\ "threads" \notin left => IsWhole(next)'
                      /\ stage = "answered" => IsWhole(next)'
                      /\ next = "previous" => IsWhole("current")'
  BY <1>2 DEF ReadInv
<1>8. (query = "threads" \/ "threads" \notin view.toRead) => read.threads[view.leg] = facts[view.leg]
  <2>1. CASE query = "threads"
    BY <1>3, <2>1
  <2>2. CASE query = "staff" /\ "threads" \notin view.toRead
    <3>1. IsWhole(view.leg)
      BY <1>7, <2>2 DEF ReadInv
    <3> QED BY <1>3, <1>6, <2>2, <3>1
  <2> QED BY <2>1, <2>2
<1>9. "threads" \notin left => read.threads[view.leg] = facts[view.leg]
  BY <1>8
<1>10. view.leg = "previous" => read.threads["current"] = facts["current"]
  <2> SUFFICES ASSUME view.leg = "previous" PROVE read.threads["current"] = facts["current"]
    OBVIOUS
  <2>1. "current" \in Legs \ {view.leg} /\ "current" \in Legs
    BY DEF Legs
  <2>2. IsWhole("current")
    BY <1>7 DEF ReadInv
  <2> QED BY <1>6, <2>1, <2>2
<1> QED BY <1>3, <1>5, <1>9, <1>10 DEF Legs

(* The thread facts of a leg are read.                                     *)
LEMMA ThreadsReadCount ==
  ASSUME FullInv, ReadInv, ListFactThreadDays
  PROVE  ReadInv'
<1> PICK facts : facts = ThreadFactsOf(Runs(view.slice[view.leg]), view.ask)
  OBVIOUS
<1> PICK read : read = [view EXCEPT !.threads[view.leg] = facts]
  OBVIOUS
<1>1. /\ view.stage = "reading" /\ view' = AfterQuery(read, "threads") /\ UNCHANGED mart
  BY Zenon DEF ListFactThreadDays
<1>2. view \in Views /\ view.leg \in Legs
  BY <1>1, ReadingView DEF FullInv, DayInv
<1>3. facts \subseteq mart
  BY DEF ThreadFactsOf
<1>4. read \in Views
  BY <1>2, <1>3 DEF Views
<1>5. /\ read.stage = view.stage /\ read.ask = view.ask /\ read.leg = view.leg
      /\ read.slice = view.slice /\ read.toRead = view.toRead
      /\ read.threads = [view.threads EXCEPT ![view.leg] = facts]
      /\ view.threads \in [Legs -> SUBSET mart]
  BY <1>2 DEF Views
<1>6. /\ read.threads[view.leg] = facts
      /\ \A leg \in Legs \ {view.leg} : read.threads[leg] = view.threads[leg]
  BY <1>2, <1>5
<1> QED BY <1>1, <1>2, <1>4, <1>5, <1>6, AnsweredRead

(* The staff facts of a leg are read.                                      *)
LEMMA StaffReadCount ==
  ASSUME FullInv, ReadInv, ListFactStaffThreadDays
  PROVE  ReadInv'
<1> PICK facts : facts = StaffFactsOf(Runs(view.slice[view.leg]), view.ask)
  OBVIOUS
<1> PICK read : read = [view EXCEPT !.staff[view.leg] = facts]
  OBVIOUS
<1>1. /\ view.stage = "reading" /\ view' = AfterQuery(read, "staff") /\ UNCHANGED mart
  BY Zenon DEF ListFactStaffThreadDays
<1>2. view \in Views /\ view.leg \in Legs
  BY <1>1, ReadingView DEF FullInv, DayInv
<1>3. facts \subseteq staffMart
  BY DEF StaffFactsOf
<1>4. read \in Views
  BY <1>2, <1>3 DEF Views
<1>5. /\ read.stage = view.stage /\ read.ask = view.ask /\ read.leg = view.leg
      /\ read.slice = view.slice /\ read.toRead = view.toRead /\ read.threads = view.threads
  BY <1>2 DEF Views
<1> QED BY <1>1, <1>2, <1>4, <1>5, AnsweredRead

(* The slice of a leg is chosen; the other leg keeps its own.              *)
LEMMA ResolvedRead ==
  ASSUME FullInv, ReadInv, ResolveSlice(BusinessDay(now))
  PROVE  ReadInv'
<1> PICK chosen : chosen = Selected(view.ask, view.listed, BusinessDay(now))
  OBVIOUS
<1> PICK queries : queries = Queries(view.ask)
  OBVIOUS
<1>1. /\ view.stage = "resolving" /\ UNCHANGED mart
      /\ view' = [view EXCEPT !.stage = "reading", !.today[view.leg] = BusinessDay(now), !.listed = {},
                              !.slice[view.leg] = chosen, !.toRead = queries]
  BY DEF ResolveSlice
<1>2. view \in Views
  BY <1>1 DEF FullInv, DayInv, PipelineInv, ViewInv, NoView
<1>3. view.leg \in Legs /\ view.slice \in [Legs -> SUBSET Snapshots]
  BY <1>2 DEF Views
<1>4. /\ view'.stage = "reading" /\ view'.ask = view.ask /\ view'.leg = view.leg
      /\ view'.threads = view.threads /\ view'.toRead = queries
      /\ view'.slice = [view.slice EXCEPT ![view.leg] = chosen]
  BY <1>1, <1>2 DEF Views
<1>5. view.ask.kind # "staff" => "threads" \in queries
  BY DEF Queries
<1>6. ASSUME view.ask.kind # "staff", view.leg = "previous"
      PROVE  IsWhole("current")'
  <2>1. IsWhole("current")
    BY <1>1, <1>6 DEF ReadInv
  <2>2. view'.slice["current"] = view.slice["current"]
    BY <1>3, <1>4, <1>6 DEF Legs
  <2> QED BY <1>1, <1>4, <2>1, <2>2 DEF IsWhole, ThreadFactsOf
<1> QED BY <1>4, <1>5, <1>6 DEF ReadInv

(* The snapshots of a leg are listed.                                      *)
LEMMA ListedRead ==
  ASSUME FullInv, ReadInv, ListSnapshots
  PROVE  ReadInv'
<1> PICK range : range = RangeOf(view.ask, view.leg)
  OBVIOUS
<1> PICK shown : shown = SnapshotsIn(range.from, range.to)
  OBVIOUS
<1>1. /\ view.stage = "listing" /\ UNCHANGED mart
      /\ view' = [view EXCEPT !.stage = "resolving", !.listed = shown]
  BY DEF ListSnapshots
<1>2. view \in Views
  BY <1>1 DEF FullInv, DayInv, PipelineInv, ViewInv, NoView
<1>3. /\ view'.stage = "resolving" /\ view'.ask = view.ask /\ view'.leg = view.leg
      /\ view'.threads = view.threads /\ view'.slice = view.slice
  BY <1>1, <1>2 DEF Views
<1> QED BY <1>1, <1>3 DEF ReadInv, IsWhole, ThreadFactsOf

(* A reader comes.                                                         *)
LEMMA OpenedRead ==
  ASSUME NEW ask \in Asks, Look(ask)
  PROVE  ReadInv'
<1>1. view'.stage = "listing" /\ view'.leg = "current"
  BY DEF Look, OpenView
<1> QED BY <1>1 DEF ReadInv

WholeInv == FullInv /\ ReadInv /\ CountInv

(* Every step keeps what is counted.                                       *)
LEMMA WholeInvStep ==
  ASSUME WholeInv, [Next]_vars
  PROVE  WholeInv'
<1>0. FullInv /\ ReadInv /\ CountInv /\ job \in JobRecords
  BY DEF WholeInv, FullInv, DayInv, PipelineInv, JobTyped
<1>1. FullInv'
  BY <1>0, FullInvStep
<1>2. ReadInv' /\ CountInv'
  <2>1. CASE UNCHANGED vars
    <3>1. UNCHANGED <<job, scan, days, unsaved, results, mart, view>>
      BY <2>1 DEF vars, extractionVars, dashboardVars, pipelineVars
    <3> QED BY <1>0, <3>1, ReadStays, CountStays
  <2>2. ASSUME NEW request \in Requests, PlanJob(request) PROVE ReadInv' /\ CountInv'
    <3>1. UNCHANGED <<mart, view>> /\ job'.stage = "queued"
      BY <1>0, <2>2 DEF PlanJob, dashboardVars, JobRecords
    <3> QED BY <1>0, <3>1, ReadStays DEF CountInv, Written
  <2>3. CASE ScanStep /\ UNCHANGED <<dashboardVars, pipelineVars>>
    <3>1. UNCHANGED <<mart, view>>
      BY <2>3 DEF dashboardVars
    <3>2. job'.stage \notin {"loaded", "analysed"} \cup Written
      BY <1>0, <2>3, ScanSteps DEF JobRecords, Written
    <3> QED BY <1>0, <3>1, <3>2, ReadStays DEF CountInv
  <2>4. CASE LoadDays
    <3>1. UNCHANGED <<mart, view>>
      BY <2>4 DEF LoadDays, dashboardVars
    <3> QED BY <1>0, <2>4, <3>1, ReadStays, LoadedCount
  <2>5. CASE Analyse
    <3>1. UNCHANGED <<mart, view>>
      BY <2>5 DEF Analyse, dashboardVars
    <3> QED BY <1>0, <2>5, <3>1, ReadStays, AnalysedCount
  <2>6. CASE Materialize
    <3>1. UNCHANGED view /\ job.stage = "analysed"
      BY <2>6 DEF Materialize
    <3>2. view = NoView
      BY <3>1 DEF WholeInv, FullInv, DayInv, PipelineInv, ViewInv, Written
    <3> QED BY <1>0, <2>6, <3>1, <3>2, ReadStays, MaterializedCount
  <2>7. CASE Publish
    <3>1. /\ UNCHANGED <<scan, days, unsaved, results, mart, view>> /\ job.stage = "materialized"
          /\ job'.stage = "published" /\ job'.id = job.id
      BY <1>0, <2>7 DEF Publish, pipelineVars, JobRecords
    <3> QED BY <1>0, <3>1, ReadStays, CountStays DEF Written
  <2>8. CASE Tick
    <3>1. UNCHANGED <<job, scan, days, unsaved, results, mart, view>>
      BY <2>8 DEF Tick, dashboardVars, pipelineVars
    <3> QED BY <1>0, <3>1, ReadStays, CountStays
  <2>9. CASE (ViewStep \/ \E ask \in Asks : Look(ask)) /\ UNCHANGED <<extractionVars, pipelineVars>>
    <3>1. UNCHANGED <<job, scan, days, unsaved, results, mart>>
      BY <2>9 DEF extractionVars, pipelineVars, ViewStep, ListSnapshots, ResolveSlice,
                  ListFactThreadDays, ListFactStaffThreadDays, Look, OpenView
    <3>2. CountInv'
      BY <1>0, <3>1, CountStays
    <3>3. ReadInv'
      BY <1>0, <2>9, ListedRead, ResolvedRead, ThreadsReadCount,
         StaffReadCount, OpenedRead DEF ViewStep
    <3> QED BY <3>2, <3>3
  <2> QED BY <2>1, <2>2, <2>3, <2>4, <2>5, <2>6, <2>7, <2>8, <2>9 DEF Next
<1> QED BY <1>0, <1>1, <1>2 DEF WholeInv

LEMMA WholeInvHolds == Spec => []WholeInv
<1>1. Init => WholeInv
  BY InitFullInv, InitCounted DEF WholeInv
<1> QED BY <1>1, WholeInvStep, PTL DEF Spec

(* The total of an overview is the number of its facts.                    *)
LEMMA CountsRows ==
  ASSUME NEW rows
  PROVE  Overview(rows).total = Cardinality(rows)
<1> PICK a, b, c, d, e, f :
      Overview(rows) = [total |-> Cardinality(rows), new |-> a, revisit |-> b, booked |-> c,
                        highRisk |-> d, cost |-> e, median |-> f]
  BY Zenon DEF Overview
<1> QED OBVIOUS

(* Facts of different conversations are at least as many as the            *)
(* conversations of any part of them.                                      *)
LEMMA RowsCounted ==
  ASSUME NEW rows, \A f \in rows : f.thread \in Threads,
         \A f, g \in rows : f.thread = g.thread => f = g,
         NEW T \in SUBSET {f.thread : f \in rows}
  PROVE  Cardinality(T) <= Cardinality(rows)
<1> DEFINE image == {f.thread : f \in rows}
           threadOf == [f \in rows |-> f.thread]
<1>1. threadOf \in [rows -> image] /\ \A f \in rows : threadOf[f] = f.thread
  OBVIOUS
<1>2. image \subseteq Threads /\ T \subseteq image /\ \A t \in image : \E f \in rows : f.thread = t
  OBVIOUS
<1>3. IsFiniteSet(image)
  BY <1>2, ExtractionConstants, FS_Subset
<1> HIDE DEF image, threadOf
<1>4. threadOf \in Bijection(rows, image)
  <2>1. \A f, g \in rows : threadOf[f] = threadOf[g] => f = g
    BY <1>1
  <2>2. \A t \in image : \E f \in rows : threadOf[f] = t
    BY <1>1, <1>2
  <2> QED BY <1>1, <2>1, <2>2, Fun_IsBij
<1>5. IsFiniteSet(rows) /\ Cardinality(rows) = Cardinality(image)
  <2>1. ExistsBijection(image, rows)
    BY <1>4, Fun_ExistsBijSymmetric DEF ExistsBijection
  <2> QED BY <1>3, <2>1, FS_Bijection
<1>6. Cardinality(T) <= Cardinality(image)
  BY <1>2, <1>3, FS_Subset
<1> QED BY <1>5, <1>6

(* Between Pancake and the dashboard no conversation goes missing without  *)
(* a record: of those read to their end with a message in the window, the  *)
(* overview of a published run counts each with all of its messages, but   *)
(* for the ones that the metrics of the run name as not saved.             *)
THEOREM AllCounted == Spec => []EveryConversationCounted
<1>1. WholeInv => EveryConversationCounted
  <2> SUFFICES ASSUME WholeInv, view.stage = "answered", view.ask.kind = "overview",
                      view.ask.staff = NoStaff, view.ask.inbox = "all",
                      NEW s \in view.slice["current"], s.run = job.id
               PROVE  LET rows == {f \in Rows("current") : f.run = job.id}
                          wrote == {t \in scan.whole : scan.due[t] # {}}
                      IN /\ wrote \ {f.thread : f \in rows} = wrote \cap unsaved
                         /\ \A f \in rows : f.thread \in scan.whole =>
                              f.messages >= Cardinality(scan.due[f.thread])
                         /\ Overview(rows).total >= Cardinality(wrote \ unsaved)
    BY Zenon DEF EveryConversationCounted
  <2> PICK rows : rows = {f \in Rows("current") : f.run = job.id}
    OBVIOUS
  <2> PICK wrote : wrote = {t \in scan.whole : scan.due[t] # {}}
    OBVIOUS
  <2>0. FullInv /\ DayInv /\ ScanInv /\ LoadInv /\ CountInv /\ ReadInv /\ MartInv
    BY DEF WholeInv, FullInv, DayInv, PipelineInv
  <2>1. job.stage = "published"
    BY <2>0, ReaderHolds DEF LegRead, IsTrue
  <2>2. /\ DOMAIN days = WithMessages \ unsaved
        /\ \A t \in DOMAIN days : Len(days[t].messages) = Cardinality(scan.found[t])
        /\ \A t \in DOMAIN days : \E f \in mart : f.run = job.id /\ f.thread = t
        /\ \A f \in mart : f.run = job.id =>
             f.thread \in DOMAIN days /\ f.messages = Len(days[f.thread].messages)
    BY <2>0, <2>1 DEF CountInv, Written
  <2>3. IsWhole("current")
    <3>1. view.leg \in Legs /\ IsWhole(view.leg)
      BY <2>0, ReaderHolds DEF ReadInv, Views
    <3> QED BY <2>0, <3>1 DEF ReadInv, Legs
  <2>4. rows = {f \in mart : f.run = job.id}
    <3>1. \A f : InBucket(f, view.ask.inbox)
      BY DEF InBucket
    <3>2. Rows("current") = {f \in mart : f.run \in Runs(view.slice["current"])}
      BY <2>3, <3>1 DEF Rows, IsWhole, ThreadFactsOf
    <3>3. job.id \in Runs(view.slice["current"])
      BY DEF Runs
    <3> QED BY <3>2, <3>3
  <2>5. scan.whole \subseteq Threads
        /\ \A t \in scan.whole : scan.due[t] \subseteq Ids(scan.found[t])
    BY <2>0, <2>1 DEF ScanInv, FoundInv, Scans
  <2>6. wrote \ {f.thread : f \in rows} = wrote \cap unsaved
    <3>1. wrote \subseteq WithMessages
      BY <2>5 DEF WithMessages, Ids
    <3>2. \A t \in DOMAIN days : \E f \in rows : f.thread = t
      BY <2>2, <2>4
    <3>3. \A f \in rows : f.thread \in DOMAIN days
      BY <2>2, <2>4
    <3>4. {f.thread : f \in rows} = DOMAIN days
      BY <3>2, <3>3
    <3> QED BY <2>2, <3>1, <3>4
  <2>7. ASSUME NEW f \in rows, f.thread \in scan.whole
        PROVE  f.messages >= Cardinality(scan.due[f.thread])
    <3> PICK t : t = f.thread
      OBVIOUS
    <3>1. t \in scan.whole /\ t \in Threads /\ f.messages = Cardinality(scan.found[t])
      BY <2>2, <2>4, <2>5, <2>7 DEF WithMessages
    <3>2. /\ IsFiniteSet(scan.found[t])
          /\ \A m, n \in scan.found[t] : m.id = n.id => m = n
      BY <2>0, <3>1, FoundIsSet
    <3>3. IsFiniteSet(Ids(scan.found[t]))
          /\ Cardinality(Ids(scan.found[t])) = Cardinality(scan.found[t])
      BY <3>2, IdsCounted
    <3>4. IsFiniteSet(scan.due[t]) /\ Cardinality(scan.due[t]) <= Cardinality(scan.found[t])
      BY <2>5, <3>1, <3>3, FS_Subset
    <3>5. Cardinality(scan.due[t]) \in Nat /\ Cardinality(scan.found[t]) \in Nat
      BY <3>2, <3>4, FS_CardinalityType
    <3> QED BY <3>1, <3>4, <3>5
  <2>8. Cardinality(wrote \ unsaved) <= Overview(rows).total
    <3>1. \A f \in rows : f.thread \in Threads
      BY <2>2, <2>4 DEF WithMessages
    <3>2. \A f, g \in rows : f.thread = g.thread => f = g
      BY <2>0, <2>4 DEF MartInv
    <3>3. (wrote \ unsaved) \in SUBSET {f.thread : f \in rows}
      BY <2>6
    <3>4. Cardinality(wrote \ unsaved) <= Cardinality(rows)
      BY <3>1, <3>2, <3>3, RowsCounted
    <3> QED BY <3>4, CountsRows
  <2> QED BY <2>6, <2>7, <2>8
<1> QED BY <1>1, WholeInvHolds, PTL

(***************************************************************************)
(* The invariant of what days, results and facts are made of.              *)
(***************************************************************************)
BuiltInv ==
  /\ setup.etl \in Policies
  /\ \A t \in DOMAIN days :
       days[t] = BuildConversationDay(source[t], scan.found[t], job.window, setup.etl)

ResultInv ==
  \A t \in DOMAIN results :
    \E answer \in Answers(setup.mode, days[t]) : results[t] = NormalizedResult(days[t], answer)

StaffRows(t) == {s \in staffMart : s.run = job.id /\ s.thread = t}

(* The facts of the run, and those of its staff, conversation by           *)
(* conversation.                                                           *)
FactsInv ==
  \A f \in mart : f.run = job.id =>
    /\ f.thread \in Usable(results)
    /\ f = BuildFactThreadDay(job, f.thread, days[f.thread], results[f.thread])
    /\ StaffRows(f.thread)
         = BuildFactStaffThreadDays(job, f.thread, days[f.thread], results[f.thread])

MadeInv == BuiltInv /\ ResultInv /\ FactsInv

LEMMA InitMade == Init => MadeInv
<1> SUFFICES ASSUME Init PROVE MadeInv
  OBVIOUS
<1> PICK world \in Worlds :
      /\ setup = [etl |-> world.etl, mode |-> world.mode]
      /\ job = [id |-> 1, stage |-> "none", day |-> 0, full |-> FALSE, eligibility |-> "none",
                window |-> [start |-> 0, end |-> 0], caps |-> world.caps]
      /\ days = Nothing /\ results = Nothing /\ mart = world.earlier.mart
  BY Zenon DEF Init
<1>1. world.etl \in Policies /\ \A f \in mart : f.run # 1
  BY DayConstants DEF Former
<1>2. DOMAIN Nothing = {} /\ job.id = 1 /\ setup.etl = world.etl
  BY DEF Nothing
<1> QED BY <1>1, <1>2 DEF MadeInv, BuiltInv, ResultInv, FactsInv

(* What a fact is made of: the number and the day of its run.              *)
LEMMA FactsStay ==
  ASSUME NEW run, NEW other, other.id = run.id, other.day = run.day, NEW t, NEW day, NEW result
  PROVE  /\ BuildFactThreadDay(other, t, day, result) = BuildFactThreadDay(run, t, day, result)
         /\ BuildFactStaffThreadDays(other, t, day, result)
              = BuildFactStaffThreadDays(run, t, day, result)
BY DEF BuildFactThreadDay, BuildFactStaffThreadDays

(* Steps that leave days, results and facts alone.                         *)
LEMMA MadeStays ==
  ASSUME MadeInv, UNCHANGED <<setup, days, results, mart, staffMart>>, job'.id = job.id,
         \/ days = Nothing /\ \A f \in mart : f.run # job.id
         \/ source' = source /\ scan' = scan /\ job'.window = job.window /\ job'.day = job.day
  PROVE  MadeInv'
<1>0. DOMAIN Nothing = {}
  BY DEF Nothing
<1>1. BuiltInv'
  BY <1>0 DEF MadeInv, BuiltInv
<1>2. ResultInv'
  BY DEF MadeInv, ResultInv
<1>3. FactsInv'
  <2>1. CASE \A f \in mart : f.run # job.id
    BY <2>1 DEF FactsInv
  <2>2. CASE job'.day = job.day
    <3> SUFFICES ASSUME NEW f \in mart, f.run = job.id
                 PROVE  /\ f.thread \in Usable(results)'
                        /\ f = BuildFactThreadDay(job', f.thread, days[f.thread], results[f.thread])
                        /\ StaffRows(f.thread)'
                             = BuildFactStaffThreadDays(job', f.thread, days[f.thread], results[f.thread])
      BY DEF FactsInv
    <3>1. /\ f.thread \in Usable(results)
          /\ f = BuildFactThreadDay(job, f.thread, days[f.thread], results[f.thread])
          /\ StaffRows(f.thread)
               = BuildFactStaffThreadDays(job, f.thread, days[f.thread], results[f.thread])
      BY DEF MadeInv, FactsInv
    <3>2. StaffRows(f.thread)' = StaffRows(f.thread) /\ Usable(results)' = Usable(results)
      BY DEF StaffRows, Usable
    <3> QED BY <2>2, <3>1, <3>2, FactsStay
  <2> QED BY <2>1, <2>2
<1> QED BY <1>1, <1>2, <1>3 DEF MadeInv

(* The facts of a run that has not been written yet.                       *)
LEMMA NoFactsYet ==
  ASSUME FullInv, job.stage \notin Written
  PROVE  \A f \in mart : f.run # job.id
BY DEF FullInv, DayInv, PipelineInv, MartInv

LEMMA LoadedMade ==
  ASSUME FullInv, MadeInv, LoadDays
  PROVE  MadeInv'
<1>0. job \in JobRecords
  BY DEF FullInv, DayInv, PipelineInv, JobTyped
<1>1. PICK saved \in SUBSET WithMessages, stage \in {"loaded", "failed"} :
        /\ job.stage = "extracted" /\ job'.stage = stage /\ job'.window = job.window
        /\ job'.id = job.id
        /\ days' = DaysOf(saved) /\ unsaved' = WithMessages \ saved
        /\ UNCHANGED <<source, scan, setup, results, board, mart, staffMart, view>>
  BY <1>0, LoadingDoes
<1>2. results = Nothing /\ DOMAIN Nothing = {}
  BY <1>1 DEF FullInv, LoadInv, Unloaded, Nothing
<1>3. \A f \in mart : f.run # job.id
  BY <1>1, NoFactsYet DEF Written
<1>4. BuiltInv'
  BY <1>1 DEF MadeInv, BuiltInv, DaysOf
<1> QED BY <1>1, <1>2, <1>3, <1>4 DEF MadeInv, ResultInv, FactsInv

LEMMA AnalysedMade ==
  ASSUME FullInv, MadeInv, Analyse
  PROVE  MadeInv'
<1>1. /\ job.stage = "loaded" /\ job'.window = job.window /\ job'.id = job.id
      /\ results' \in Results(setup.mode, days)
      /\ UNCHANGED <<source, scan, setup, days, mart, staffMart>>
  <2> PICK stage : stage = IF \E t \in DOMAIN results' : results'[t].status = "failed"
                           THEN "failed" ELSE "analysed"
    OBVIOUS
  <2>1. /\ job.stage = "loaded" /\ job' = [job EXCEPT !.stage = stage]
        /\ results' \in Results(setup.mode, days)
        /\ UNCHANGED <<source, scan, setup, days, dashboardVars>>
    BY DEF Analyse
  <2> QED BY <2>1 DEF dashboardVars, FullInv, DayInv, PipelineInv, JobTyped, JobRecords
<1>2. \A f \in mart : f.run # job.id
  BY <1>1, NoFactsYet DEF Written
<1>3. BuiltInv'
  BY <1>1 DEF MadeInv, BuiltInv
<1>4. ResultInv'
  <2>1. /\ DOMAIN results' = DOMAIN days
        /\ \A t \in DOMAIN days : \E answer \in Answers(setup.mode, days[t]) :
             results'[t] = NormalizedResult(days[t], answer)
    BY <1>1 DEF Results
  <2> QED BY <1>1, <2>1 DEF ResultInv
<1> QED BY <1>1, <1>2, <1>3, <1>4 DEF MadeInv, FactsInv

(* The rows of the staff of one conversation.                              *)
LEMMA StaffRowsOf ==
  ASSUME NEW t \in Usable(results)
  PROVE  {s \in StaffFacts(job, days, results) : s.thread = t}
           = BuildFactStaffThreadDays(job, t, days[t], results[t])
<1>1. \A u \in Usable(results) :
        \A s \in BuildFactStaffThreadDays(job, u, days[u], results[u]) : s.thread = u
  BY DEF BuildFactStaffThreadDays
<1> QED BY <1>1 DEF StaffFacts

LEMMA MaterializedMade ==
  ASSUME FullInv, MadeInv, Materialize
  PROVE  MadeInv'
<1> PICK facts : facts = ThreadFacts(job, days, results)
  OBVIOUS
<1> PICK staffFacts : staffFacts = StaffFacts(job, days, results)
  OBVIOUS
<1>1. /\ job'.window = job.window /\ job'.id = job.id /\ job'.day = job.day
      /\ mart' = {f \in mart : f.run # job.id} \cup facts
      /\ staffMart' = {f \in staffMart : f.run # job.id} \cup staffFacts
      /\ UNCHANGED <<source, scan, setup, days, results>>
  <2>1. /\ job' = [job EXCEPT !.stage = "materialized"]
        /\ mart' = {f \in mart : f.run # job.id} \cup facts
        /\ staffMart' = {f \in staffMart : f.run # job.id} \cup staffFacts
        /\ UNCHANGED <<source, scan, setup, days, results>>
    BY Zenon DEF Materialize, pipelineVars
  <2> QED BY <2>1 DEF FullInv, DayInv, PipelineInv, JobTyped, JobRecords
<1>2. BuiltInv' /\ ResultInv'
  BY <1>1 DEF MadeInv, BuiltInv, ResultInv
<1>3. ASSUME NEW f \in mart', f.run = job.id
      PROVE  /\ f.thread \in Usable(results)'
             /\ f = BuildFactThreadDay(job', f.thread, days[f.thread], results[f.thread])
             /\ StaffRows(f.thread)'
                  = BuildFactStaffThreadDays(job', f.thread, days[f.thread], results[f.thread])
  <2>1. f \in facts
    BY <1>1, <1>3
  <2>2. /\ f.thread \in Usable(results)
        /\ f = BuildFactThreadDay(job, f.thread, days[f.thread], results[f.thread])
    BY <2>1, FactOf
  <2>3. StaffRows(f.thread)' = {s \in staffFacts : s.thread = f.thread}
    <3>1. \A s \in staffFacts : s.run = job.id
      BY StaffFactOf
    <3> QED BY <1>1, <3>1 DEF StaffRows
  <2>4. {s \in staffFacts : s.thread = f.thread}
          = BuildFactStaffThreadDays(job, f.thread, days[f.thread], results[f.thread])
    BY <2>2, StaffRowsOf
  <2>5. Usable(results)' = Usable(results)
    BY <1>1 DEF Usable
  <2> QED BY <1>1, <2>2, <2>3, <2>4, <2>5, FactsStay
<1>4. FactsInv'
  BY <1>1, <1>3 DEF FactsInv
<1> QED BY <1>2, <1>4 DEF MadeInv

AllInv == FullInv /\ MadeInv

LEMMA AllInvStep ==
  ASSUME AllInv, [Next]_vars
  PROVE  AllInv'
<1>0. FullInv /\ MadeInv /\ job \in JobRecords
  BY DEF AllInv, FullInv, DayInv, PipelineInv, JobTyped
<1>1. FullInv'
  BY <1>0, FullInvStep
<1>2. MadeInv'
  <2>1. CASE UNCHANGED vars
    BY <1>0, <2>1, MadeStays DEF vars, extractionVars, dashboardVars, pipelineVars
  <2>2. ASSUME NEW request \in Requests, PlanJob(request) PROVE MadeInv'
    <3>1. /\ UNCHANGED <<setup, days, results, mart, staffMart>> /\ job'.id = job.id
          /\ job.stage = "none"
      BY <1>0, <2>2 DEF PlanJob, dashboardVars, JobRecords
    <3>2. days = Nothing /\ \A f \in mart : f.run # job.id
      BY <1>0, <3>1, NoFactsYet DEF FullInv, LoadInv, Unloaded, Written
    <3> QED BY <1>0, <3>1, <3>2, MadeStays
  <2>3. CASE ScanStep /\ UNCHANGED <<dashboardVars, pipelineVars>>
    <3>1. UNCHANGED <<setup, days, results, mart, staffMart>> /\ job'.id = job.id
          /\ job.stage \in {"queued", "listing", "paging"}
      BY <1>0, <2>3, ScanSteps DEF dashboardVars, pipelineVars, JobRecords
    <3>2. days = Nothing /\ \A f \in mart : f.run # job.id
      BY <1>0, <3>1, NoFactsYet DEF FullInv, LoadInv, Unloaded, Written
    <3> QED BY <1>0, <3>1, <3>2, MadeStays
  <2>4. CASE LoadDays \/ Analyse \/ Materialize
    BY <1>0, <2>4, LoadedMade, AnalysedMade, MaterializedMade
  <2>5. CASE Publish
    <3>1. UNCHANGED <<source, scan, setup, days, results, mart, staffMart>> /\ job'.id = job.id
          /\ job'.window = job.window /\ job'.day = job.day
      BY <1>0, <2>5 DEF Publish, pipelineVars, JobRecords
    <3> QED BY <1>0, <3>1, MadeStays
  <2>6. CASE Tick
    BY <1>0, <2>6, MadeStays DEF Tick, dashboardVars, pipelineVars
  <2>7. CASE (ViewStep \/ \E ask \in Asks : Look(ask)) /\ UNCHANGED <<extractionVars, pipelineVars>>
    <3>1. UNCHANGED <<mart, staffMart>>
      BY <2>7 DEF ViewStep, ListSnapshots, ResolveSlice, ListFactThreadDays,
                  ListFactStaffThreadDays, Look, OpenView
    <3> QED BY <1>0, <2>7, <3>1, MadeStays DEF extractionVars, pipelineVars
  <2> QED BY <2>1, <2>2, <2>3, <2>4, <2>5, <2>6, <2>7 DEF Next
<1> QED BY <1>1, <1>2 DEF AllInv

LEMMA AllInvHolds == Spec => []AllInv
<1>1. Init => AllInv
  BY InitFullInv, InitMade DEF AllInv
<1> QED BY <1>1, AllInvStep, PTL DEF Spec

(***************************************************************************)
(* The messages of a day.                                                  *)
(***************************************************************************)
(* The messages of a day are the sorted ones with their roles, those of    *)
(* the opening block marked.                                               *)
MadeOf(m, seq) ==
  /\ seq \in Seq(Messages) /\ Len(m) = Len(seq) /\ DOMAIN m = 1 .. Len(seq)
  /\ \A i \in DOMAIN m :
       /\ m[i].at = seq[i].at /\ m[i].kind = seq[i].kind
       /\ m[i].role = SenderRole(seq[i].kind)
       /\ m[i].opening = (i <= OpeningEnd(seq))
       /\ seq[i].kind \in Kinds /\ seq[i].at \in Nat

LEMMA TransformedMade ==
  ASSUME NEW seq \in Seq(Messages)
  PROVE  MadeOf(Transformed(seq), seq)
<1> DEFINE Made(i) == [id |-> seq[i].id, at |-> seq[i].at, kind |-> seq[i].kind,
                       role |-> SenderRole(seq[i].kind), opening |-> i <= OpeningEnd(seq)]
<1> PICK n \in Nat : n = Len(seq)
  OBVIOUS
<1> PICK m : m = Transformed(seq)
  OBVIOUS
<1>1. m = [i \in DOMAIN seq |-> Made(i)]
  BY Zenon DEF Transformed
<1>2. \A i : /\ Made(i).at = seq[i].at /\ Made(i).kind = seq[i].kind
             /\ Made(i).role = SenderRole(seq[i].kind)
             /\ Made(i).opening = (i <= OpeningEnd(seq))
  <2>1. \A a, b, c, d, e :
           /\ [id |-> a, at |-> b, kind |-> c, role |-> d, opening |-> e].at = b
           /\ [id |-> a, at |-> b, kind |-> c, role |-> d, opening |-> e].kind = c
           /\ [id |-> a, at |-> b, kind |-> c, role |-> d, opening |-> e].role = d
           /\ [id |-> a, at |-> b, kind |-> c, role |-> d, opening |-> e].opening = e
    OBVIOUS
  <2> QED BY <2>1, Zenon
<1>3. \A i \in DOMAIN seq : seq[i].kind \in Kinds /\ seq[i].at \in Nat
  <2>1. \A i \in DOMAIN seq : seq[i] \in Messages
    OBVIOUS
  <2> QED BY <2>1 DEF Messages
<1> HIDE DEF Made
<1>4. DOMAIN m = 1 .. n /\ DOMAIN seq = 1 .. n
  BY <1>1
<1>5. Len(m) = n
  <2> PICK S : S = {m[i] : i \in 1 .. n}
    OBVIOUS
  <2>1. m = [i \in 1 .. n |-> m[i]]
    BY <1>1, <1>4
  <2>2. m \in [1 .. n -> S]
    BY <2>1
  <2> QED BY <2>2, FunctionAsSequence
<1>6. \A i \in DOMAIN m :
        /\ m[i].at = seq[i].at /\ m[i].kind = seq[i].kind
        /\ m[i].role = SenderRole(seq[i].kind)
        /\ m[i].opening = (i <= OpeningEnd(seq))
  BY <1>1, <1>2, <1>4
<1> QED BY <1>3, <1>4, <1>5, <1>6 DEF MadeOf

(* What a built day is made of.                                            *)
LEMMA DayFields ==
  ASSUME NEW conversation, NEW found, NEW window, NEW etl,
         NEW seq, seq = SortMessages(found), NEW m, m = Transformed(seq),
         NEW day, day = BuildConversationDay(conversation, found, window, etl)
  PROVE  /\ day.messages = m
         /\ day.first = FirstResponse(Waits(m)) /\ day.average = AverageResponse(Waits(m))
         /\ day.staff = StaffStats(m)
         /\ day.revisit = Explicit("journey", ObservedTags(conversation), OpeningBlock(seq), etl)
         /\ day.need = Explicit("need", ObservedTags(conversation), OpeningBlock(seq), etl)
         /\ day.outcome = Explicit("outcome", ObservedTags(conversation), OpeningBlock(seq), etl)
<1>1. \A a, b, c, d, e, f, g, h, i :
        LET r == [messages |-> a, revisit |-> b, need |-> c, outcome |-> d, journey |-> e,
                  first |-> f, average |-> g, staff |-> h, isNew |-> i]
        IN /\ r.messages = a /\ r.revisit = b /\ r.need = c /\ r.outcome = d
           /\ r.first = f /\ r.average = g /\ r.staff = h
  OBVIOUS
<1> QED BY <1>1, Zenon DEF BuildConversationDay

LEMMA DaysAreMade ==
  ASSUME AllInv, NEW t \in DOMAIN days
  PROVE  \E seq :
           /\ MadeOf(days[t].messages, seq)
           /\ days[t].first = FirstResponse(Waits(days[t].messages))
           /\ days[t].average = AverageResponse(Waits(days[t].messages))
           /\ days[t].staff = StaffStats(days[t].messages)
           /\ days[t].revisit = Explicit("journey", ObservedTags(source[t]), OpeningBlock(seq), setup.etl)
           /\ days[t].need = Explicit("need", ObservedTags(source[t]), OpeningBlock(seq), setup.etl)
           /\ days[t].outcome = Explicit("outcome", ObservedTags(source[t]), OpeningBlock(seq), setup.etl)
<1> PICK seq : seq = SortMessages(scan.found[t])
  OBVIOUS
<1> PICK m : m = Transformed(seq)
  OBVIOUS
<1>1. t \in Threads /\ ScanInv
  BY DEF AllInv, FullInv, LoadInv
<1>2. seq \in Seq(Messages)
  <2>1. seq \in Seq(scan.found[t]) /\ scan.found[t] \in SUBSET Messages
    BY <1>1, FoundIsSet, MessagesInOrder
  <2> QED BY <2>1
<1>3. MadeOf(m, seq)
  BY <1>2, TransformedMade
<1>4. days[t] = BuildConversationDay(source[t], scan.found[t], job.window, setup.etl)
  BY DEF AllInv, MadeInv, BuiltInv
<1>5. /\ days[t].messages = m
      /\ days[t].first = FirstResponse(Waits(m)) /\ days[t].average = AverageResponse(Waits(m))
      /\ days[t].staff = StaffStats(m)
      /\ days[t].revisit = Explicit("journey", ObservedTags(source[t]), OpeningBlock(seq), setup.etl)
      /\ days[t].need = Explicit("need", ObservedTags(source[t]), OpeningBlock(seq), setup.etl)
      /\ days[t].outcome = Explicit("outcome", ObservedTags(source[t]), OpeningBlock(seq), setup.etl)
  <2> PICK day, conversation : day = days[t] /\ conversation = source[t]
    OBVIOUS
  <2>1. day = BuildConversationDay(conversation, scan.found[t], job.window, setup.etl)
    BY <1>4
  <2> QED BY <2>1, DayFields
<1> QED BY <1>3, <1>5

LEMMA MadeIsDay ==
  ASSUME NEW m, NEW seq, MadeOf(m, seq)
  PROVE  IsDay(m)
BY DEF MadeOf, IsDay

(* The first and the average response time of a day are those of the waits *)
(* its customers really had, from the first message after the staff fell   *)
(* silent to their next one: what one pass over the messages with a pending*)
(* time (buildResponseMetrics) comes to.                                   *)
THEOREM ResponsesReal == Spec => []ResponseTimesAreReal
<1>1. AllInv => ResponseTimesAreReal
  <2> SUFFICES ASSUME AllInv PROVE ResponseTimesAreReal
    OBVIOUS
  <2> DEFINE Cust(m) == {i \in DOMAIN m : m[i].role = "customer"}
             Staff(m) == {i \in DOMAIN m : m[i].role = "staff_via_pancake"}
             Btw(S, i, j) == {k \in S : i < k /\ k < j}
             Op(m, i) == \A k \in Cust(m) : k < i => Btw(Staff(m), k, i) # {}
             Ws(m) == {w \in Cust(m) \X Staff(m) :
                         w[1] < w[2] /\ Op(m, w[1]) /\ Btw(Staff(m), w[1], w[2]) = {}}
             Length(m, w) == m[w[2]].at - m[w[1]].at
             Real(t, m, waits) ==
               IF waits = {} THEN days[t].first = NoTime /\ days[t].average = NoTime
               ELSE /\ \E w \in waits : /\ \A o \in waits : w[1] <= o[1]
                                       /\ days[t].first = Length(m, w)
                    /\ days[t].average
                         = SumFunction([w \in waits |-> Length(m, w)]) \div Cardinality(waits)
  <2>1. ResponseTimesAreReal <=> \A t \in DOMAIN days : Real(t, days[t].messages, Ws(days[t].messages))
    BY Zenon DEF ResponseTimesAreReal
  <2>2. \A m : Ws(m) = RealWaits(m)
    <3>1. \A m : Cust(m) = Customers(m) /\ Staff(m) = StaffMessages(m)
      BY DEF Customers, StaffMessages
    <3>2. \A S, i, j : Btw(S, i, j) = {} <=> ~ \E k \in S : i < k /\ k < j
      OBVIOUS
    <3> HIDE DEF Cust, Staff, Btw
    <3> QED BY <3>1, <3>2 DEF RealWaits, Opens
  <2>3. ASSUME NEW t \in DOMAIN days PROVE Real(t, days[t].messages, RealWaits(days[t].messages))
    <3> PICK m : m = days[t].messages
      OBVIOUS
    <3>1. /\ IsDay(m) /\ days[t].first = FirstResponse(Waits(m))
          /\ days[t].average = AverageResponse(Waits(m))
      BY DaysAreMade, MadeIsDay
    <3>2. [w \in RealWaits(m) |-> Length(m, w)] = Lengths(m)
      BY Zenon DEF Lengths
    <3>3. \A w \in RealWaits(m) : Lengths(m)[w] = Length(m, w)
      BY DEF Lengths
    <3> HIDE DEF Length
    <3> QED BY <3>1, <3>2, <3>3, ResponsesOfWaits
  <2> HIDE DEF Ws, Real
  <2> QED BY <2>1, <2>2, <2>3
<1> QED BY <1>1, AllInvHolds, PTL

(***************************************************************************)
(* The opening block.                                                      *)
(***************************************************************************)
Said(seq) == {i \in DOMAIN seq : IsMeaningful(seq, i)}

(* Nothing is said in the opening block, and what follows it is.           *)
LEMMA OpeningEnds ==
  ASSUME NEW seq \in Seq(Messages)
  PROVE  /\ Said(seq) = {} => OpeningEnd(seq) = Len(seq)
         /\ Said(seq) # {} => OpeningEnd(seq) + 1 \in Said(seq)
         /\ \A i \in Said(seq) : OpeningEnd(seq) < i
         /\ OpeningEnd(seq) \in 0 .. Len(seq)
<1> PICK n \in Nat : n = Len(seq)
  OBVIOUS
<1>1. Said(seq) \in SUBSET Nat /\ Said(seq) \subseteq 1 .. n
  BY DEF Said
<1>2. OpeningEnd(seq) = IF Said(seq) = {} THEN Len(seq)
                        ELSE (CHOOSE i \in Said(seq) : \A j \in Said(seq) : i <= j) - 1
  BY Zenon DEF OpeningEnd, Said
<1>3. CASE Said(seq) = {}
  BY <1>2, <1>3
<1>4. CASE Said(seq) # {}
  <2>1. \E i \in Said(seq) : \A j \in Said(seq) : i <= j
    BY <1>1, <1>4, LeastExists
  <2>2. PICK i : i = CHOOSE k \in Said(seq) : \A j \in Said(seq) : k <= j
    OBVIOUS
  <2>3. i \in Said(seq) /\ \A j \in Said(seq) : i <= j
    BY <2>1, <2>2, Zenon
  <2>4. OpeningEnd(seq) = i - 1
    BY <1>2, <1>4, <2>2
  <2> QED BY <1>1, <1>4, <2>3, <2>4
<1> QED BY <1>3, <1>4

(* What is meaningful, said of the messages of the day.                    *)
LEMMA SaidOfDay ==
  ASSUME NEW m, NEW seq, MadeOf(m, seq)
  PROVE  /\ DOMAIN seq = DOMAIN m /\ DOMAIN m \subseteq Nat
         /\ Said(seq) = {i \in DOMAIN m :
              /\ m[i].role \in HumanRoles /\ m[i].kind.text # Blank
              /\ \A j \in DOMAIN m : m[i].kind.text \notin m[j].kind.buttons}
<1>1. DOMAIN seq = DOMAIN m /\ DOMAIN m \subseteq Nat
  BY DEF MadeOf
<1>2. \A i \in DOMAIN m : m[i].kind = seq[i].kind /\ m[i].role = SenderRole(seq[i].kind)
  BY DEF MadeOf
<1>3. \A text : text \in ButtonTitles(seq) <=> \E j \in DOMAIN m : text \in m[j].kind.buttons
  BY <1>1, <1>2 DEF ButtonTitles
<1>4. \A i \in DOMAIN m :
        i \in Said(seq) <=> /\ m[i].role \in HumanRoles /\ m[i].kind.text # Blank
                           /\ m[i].kind.text \notin ButtonTitles(seq)
  BY <1>1, <1>2 DEF Said, IsMeaningful
<1>5. Said(seq) \subseteq DOMAIN m
  BY <1>1 DEF Said
<1> QED BY <1>1, <1>3, <1>4, <1>5

(* The transcript of a day is empty when nothing was said.                 *)
LEMMA TranscriptOfDay ==
  ASSUME NEW day, NEW seq, MadeOf(day.messages, seq)
  PROVE  /\ Transcript(day) = {} <=> Said(seq) = {}
         /\ \A i \in Said(seq) : OpeningEnd(seq) + 1 \in Said(seq)
                                 /\ day.messages[OpeningEnd(seq) + 1] \in Transcript(day)
<1> PICK m : m = day.messages
  OBVIOUS
<1> PICK end : end = OpeningEnd(seq)
  OBVIOUS
<1>1. /\ seq \in Seq(Messages) /\ DOMAIN m = 1 .. Len(seq)
      /\ \A i \in DOMAIN m : m[i].opening = (i <= end)
  BY DEF MadeOf
<1>2. /\ Said(seq) = {} => end = Len(seq)
      /\ Said(seq) # {} => end + 1 \in Said(seq)
      /\ end \in 0 .. Len(seq)
  BY <1>1, OpeningEnds
<1>3. Said(seq) \subseteq DOMAIN m
  BY SaidOfDay
<1>4. \A i \in DOMAIN m : m[i] \in Transcript(day) <=> ~m[i].opening
  BY DEF Transcript, Range
<1>5. Transcript(day) # {} => \E i \in DOMAIN m : m[i] \in Transcript(day)
  BY DEF Transcript, Range
<1>6. \A i \in DOMAIN m : m[i] \in Transcript(day) <=> end < i
  <2>1. \A i \in DOMAIN m : ~m[i].opening <=> ~(i <= end)
    BY <1>1, Zenon
  <2>2. \A i \in DOMAIN m : ~(i <= end) <=> end < i
    BY <1>1, <1>2
  <2> QED BY <1>4, <2>1, <2>2
<1> QED BY <1>1, <1>2, <1>3, <1>5, <1>6

(* The deterministic answer is never rejected; its status and its risk are *)
(* what the result says.                                                   *)
LEMMA DeterministicResult ==
  ASSUME NEW day
  PROVE  LET transcript == Transcript(day)
             result == NormalizedResult(day, DeterministicAnswer(day))
         IN /\ result.status = IF transcript = {} THEN "unknown" ELSE "succeeded"
            /\ By("customer", transcript) # {} /\ By("staff_via_pancake", transcript) = {}
                 => result.risk = "high"
<1> PICK transcript : transcript = Transcript(day)
  OBVIOUS
<1>0. PICK answer : answer = DeterministicAnswer(day)
  OBVIOUS
<1>1. /\ answer.status = IF transcript = {} THEN "unknown" ELSE "succeeded"
      /\ answer.need = DeterministicNeed(day, transcript)
      /\ By("customer", transcript) # {} /\ By("staff_via_pancake", transcript) = {}
           => answer.risk = "high"
  BY <1>0 DEF DeterministicAnswer
<1>2. answer # NoAnswer
  <2>1. NoAnswer.status = "none"
    BY DEF NoAnswer
  <2> QED BY <1>1, <2>1
<1>3. answer.need # "revisit"
  BY <1>1 DEF DeterministicNeed, Code
<1>4. ~Rejected(answer)
  BY <1>2, <1>3 DEF Rejected
<1>5. NormalizedResult(day, answer).status = answer.status
      /\ NormalizedResult(day, answer).risk = Canonical(answer.risk, Risks, RiskAlias)
  BY <1>4 DEF NormalizedResult
<1>6. Canonical("high", Risks, RiskAlias) = "high"
  BY DEF Canonical, Risks
<1> QED BY <1>0, <1>1, <1>5, <1>6

(* The deterministic service calls a day "unknown" exactly when nobody said*)
(* anything beyond pressing buttons, and a conversation left unanswered of *)
(* high risk; neither validation nor the canonical codes change that.      *)
THEOREM SilenceUnknown == Spec => []SilenceIsUnknown
<1>1. AllInv => SilenceIsUnknown
  <2> DEFINE Pressed(m) == UNION {m[i].kind.buttons : i \in DOMAIN m}
             SaidIn(m) == {i \in DOMAIN m : /\ m[i].role \in HumanRoles
                                           /\ m[i].kind.text \notin Pressed(m) \cup {Blank}}
             Silent(t, m, said) ==
               /\ (results[t].status = "unknown") <=> (said = {})
               /\ (\A i \in said : m[i].role = "customer") /\ said # {}
                    /\ (\A i \in DOMAIN m : m[i].role # "staff_via_pancake")
                    => results[t].risk = "high"
  <2> SUFFICES ASSUME AllInv, setup.mode = "deterministic_dev", NEW t \in DOMAIN results
               PROVE  Silent(t, days[t].messages, SaidIn(days[t].messages))
    BY Zenon DEF SilenceIsUnknown
  <2> PICK day : day = days[t]
    OBVIOUS
  <2> PICK m : m = day.messages
    OBVIOUS
  <2> PICK said : said = SaidIn(m)
    OBVIOUS
  <2>1. t \in DOMAIN days
    BY DEF AllInv, FullInv, LoadInv, Nothing
  <2>2. PICK seq : MadeOf(m, seq)
    BY <2>1, DaysAreMade
  <2>3. said = Said(seq)
    BY <2>2, SaidOfDay
  <2> HIDE DEF SaidIn, Silent
  <2>4. results[t] = NormalizedResult(day, DeterministicAnswer(day))
    BY DEF AllInv, MadeInv, ResultInv, Answers
  <2>5. PICK transcript : transcript = Transcript(day)
    OBVIOUS
  <2>6. /\ results[t].status = IF transcript = {} THEN "unknown" ELSE "succeeded"
        /\ By("customer", transcript) # {} /\ By("staff_via_pancake", transcript) = {}
             => results[t].risk = "high"
    BY <2>4, <2>5, DeterministicResult
  <2>7. transcript = {} <=> said = {}
    BY <2>2, <2>3, <2>5, TranscriptOfDay
  <2>8. ASSUME \A i \in said : m[i].role = "customer", said # {},
               \A i \in DOMAIN m : m[i].role # "staff_via_pancake"
        PROVE  results[t].risk = "high"
    <3>1. PICK i \in said : m[i] \in transcript
      BY <2>2, <2>3, <2>5, <2>8, TranscriptOfDay
    <3>2. By("customer", transcript) # {}
      BY <2>8, <3>1 DEF By
    <3>3. \A x \in transcript : \E j \in DOMAIN m : x = m[j]
      BY <2>5 DEF Transcript, Range
    <3>4. By("staff_via_pancake", transcript) = {}
      BY <2>8, <3>3 DEF By
    <3> QED BY <2>6, <3>2, <3>4
  <2>9. Silent(t, m, said)
    BY <2>6, <2>7, <2>8 DEF Silent
  <2> QED BY <2>9
<1> QED BY <1>1, AllInvHolds, PTL

(***************************************************************************)
(* Signals.                                                                *)
(***************************************************************************)
LEMMA GreatestExists ==
  ASSUME NEW n \in Nat, NEW S \in SUBSET (1 .. n), S # {}
  PROVE  \E i \in S : \A j \in S : j <= i
<1> DEFINE Above == {k \in Nat : \A j \in S : j <= k}
<1>1. n \in Above
  OBVIOUS
<1>2. PICK k \in Above : \A a \in Above : k <= a
  <2>1. Above \in SUBSET Nat
    OBVIOUS
  <2> HIDE DEF Above
  <2> QED BY <1>1, <2>1, LeastExists
<1>3. PICK i \in S : TRUE
  OBVIOUS
<1>4. k >= 1 /\ k - 1 \in Nat
  BY <1>2, <1>3
<1>5. k - 1 \notin Above
  BY <1>2, <1>4
<1>6. PICK j \in S : ~(j <= k - 1)
  BY <1>4, <1>5
<1> QED BY <1>2, <1>6

(* The entry that speaks for a tag is one of the mapping.                  *)
LEMMA EntryIs ==
  ASSUME NEW mapping \in Seq(Entries), NEW tag
  PROVE  \/ EntryOf(tag, mapping) = <<>>
         \/ \E i \in DOMAIN mapping : EntryOf(tag, mapping) = <<mapping[i]>>
<1> DEFINE ById == {i \in DOMAIN mapping : mapping[i].tag # 0 /\ mapping[i].tag = tag.id}
           ByText == {i \in DOMAIN mapping : mapping[i].text # Blank /\ mapping[i].text = tag.text}
           Latest(S) == IF S = {} THEN <<>> ELSE <<mapping[CHOOSE i \in S : \A j \in S : j <= i]>>
<1>1. EntryOf(tag, mapping) = IF Latest(ById) # <<>> THEN Latest(ById) ELSE Latest(ByText)
  BY Zenon DEF EntryOf, LastWhere
<1>2. ASSUME NEW S \in SUBSET DOMAIN mapping, S # {}
      PROVE  \E i \in DOMAIN mapping : Latest(S) = <<mapping[i]>>
  <2> PICK n \in Nat : n = Len(mapping)
    OBVIOUS
  <2>1. S \in SUBSET (1 .. n)
    OBVIOUS
  <2>2. \E i \in S : \A j \in S : j <= i
    BY <1>2, <2>1, GreatestExists
  <2>3. PICK i : i = CHOOSE k \in S : \A j \in S : j <= k
    OBVIOUS
  <2>4. i \in S
    BY <2>2, <2>3, Zenon
  <2> QED BY <1>2, <2>3, <2>4
<1>3. ById \in SUBSET DOMAIN mapping /\ ByText \in SUBSET DOMAIN mapping
  OBVIOUS
<1>4. \A S : S = {} => Latest(S) = <<>>
  OBVIOUS
<1> HIDE DEF Latest, ById, ByText
<1> QED BY <1>1, <1>2, <1>3, <1>4

LEMMA FirstTagIs ==
  ASSUME NEW T \in SUBSET Tags, T # {}
  PROVE  FirstTag(T) \in T
<1> DEFINE numbers == {t.id : t \in T}
<1>1. \A t \in T : t.id \in Nat
  BY DEF Tags
<1>2. numbers \in SUBSET Nat /\ numbers # {}
  BY <1>1
<1>3. PICK n \in numbers : \A k \in numbers : n <= k
  <2> HIDE DEF numbers
  <2> QED BY <1>2, LeastExists
<1>4. PICK t \in T : t.id = n
  OBVIOUS
<1>5. \A o \in T : ~TagBefore(o, t)
  <2>1. \A o \in T : t.id <= o.id
    BY <1>3, <1>4
  <2> QED BY <1>1, <2>1 DEF TagBefore
<1> QED BY <1>5, Zenon DEF FirstTag

(* What counts as a code of a role.                                        *)
Counts(role, code) == code # Blank /\ (role = "journey" => code = "revisit")

(* A tag speaks for a role with a code.                                    *)
SpeaksFor(tag, mapping, role, code) ==
  \E e \in Range(EntryOf(tag, mapping)) : e.role = role /\ e.code = code

LEMMA EntrySpeaks ==
  ASSUME NEW mapping \in Seq(Entries), NEW tag, NEW role, NEW code, role # "noise"
  PROVE  /\ SpeaksFor(tag, mapping, role, code) <=>
              RoleOf(tag, mapping) = role /\ EntryOf(tag, mapping)[1].code = code
                /\ EntryOf(tag, mapping) # <<>>
         /\ SpeaksFor(tag, mapping, role, code) => code \in {e.code : e \in Range(mapping)}
<1>1. CASE EntryOf(tag, mapping) = <<>>
  <2>1. Range(EntryOf(tag, mapping)) = {}
    BY <1>1 DEF Range
  <2> QED BY <1>1, <2>1 DEF SpeaksFor
<1>2. ASSUME NEW i \in DOMAIN mapping, EntryOf(tag, mapping) = <<mapping[i]>>
      PROVE  /\ SpeaksFor(tag, mapping, role, code) <=>
                  RoleOf(tag, mapping) = role /\ EntryOf(tag, mapping)[1].code = code
                    /\ EntryOf(tag, mapping) # <<>>
             /\ SpeaksFor(tag, mapping, role, code) => code \in {e.code : e \in Range(mapping)}
  <2> PICK e : e = mapping[i]
    OBVIOUS
  <2> PICK entry : entry = EntryOf(tag, mapping)
    OBVIOUS
  <2>1. entry = <<e>>
    BY <1>2
  <2>2. Range(entry) = {e} /\ entry # <<>> /\ entry[1] = e
    BY <2>1 DEF Range
  <2>3. RoleOf(tag, mapping) = e.role
    BY <2>2 DEF RoleOf
  <2>4. e \in Range(mapping)
    BY DEF Range
  <2> QED BY <2>2, <2>3, <2>4 DEF SpeaksFor
<1> QED BY <1>1, <1>2, EntryIs

(* The signal of a role is the code of a tag that speaks for it, if any    *)
(* does with a code that counts.                                           *)
LEMMA TagSignalIs ==
  ASSUME NEW mapping \in Seq(Entries), NEW tags \in SUBSET Tags,
         NEW role \in {"journey", "need", "outcome"}, NEW code, code = TagSignal(role, tags, mapping)
  PROVE  \/ Counts(role, code) /\ \E tag \in tags : SpeaksFor(tag, mapping, role, code)
         \/ code = Blank /\ \A tag \in tags : \A c : SpeaksFor(tag, mapping, role, c) => ~Counts(role, c)
<1> DEFINE speaking == {t \in Bucket(role, tags, mapping) : Counts(role, EntryOf(t, mapping)[1].code)}
<1>0. role # "noise"
  OBVIOUS
<1>1. code = IF speaking = {} THEN Blank ELSE EntryOf(FirstTag(speaking), mapping)[1].code
  BY Zenon DEF TagSignal, FirstCode, Counts
<1>2. speaking \in SUBSET Tags /\ speaking \in SUBSET tags
  BY DEF Bucket
<1>3. \A t \in speaking : RoleOf(t, mapping) = role /\ EntryOf(t, mapping) # <<>>
  BY <1>0 DEF Bucket, RoleOf
<1>4. CASE speaking = {}
  <2>1. ASSUME NEW tag \in tags, NEW c, SpeaksFor(tag, mapping, role, c)
        PROVE  ~Counts(role, c)
    <3>1. RoleOf(tag, mapping) = role /\ EntryOf(tag, mapping)[1].code = c
      BY <1>0, <2>1, EntrySpeaks
    <3>2. tag \in Bucket(role, tags, mapping)
      BY <3>1 DEF Bucket
    <3> QED BY <1>4, <3>1, <3>2
  <2> QED BY <1>1, <1>4, <2>1
<1>5. CASE speaking # {}
  <2> PICK tag : tag = FirstTag(speaking)
    OBVIOUS
  <2>1. tag \in speaking
    <3> HIDE DEF speaking
    <3> QED BY <1>2, <1>5, FirstTagIs
  <2>2. Counts(role, code) /\ code = EntryOf(tag, mapping)[1].code
    BY <1>1, <1>5, <2>1
  <2>3. SpeaksFor(tag, mapping, role, code)
    BY <1>0, <1>3, <2>1, <2>2, EntrySpeaks
  <2>4. tag \in tags
    BY <1>2, <2>1
  <2> QED BY <2>2, <2>3, <2>4
<1> QED BY <1>4, <1>5

(* The first rule of a role that a message of a kind matches.              *)
LEMMA RuleIs ==
  ASSUME NEW rules \in Seq(Rules), NEW role, NEW kind
  PROVE  \/ RuleOf(role, kind, rules) = <<>>
         \/ \E i \in DOMAIN rules : /\ RuleOf(role, kind, rules) = <<rules[i]>>
                                    /\ rules[i].role = role /\ RuleMatches(rules[i], kind)
<1> DEFINE hits == {i \in DOMAIN rules : rules[i].role = role /\ RuleMatches(rules[i], kind)}
<1>1. RuleOf(role, kind, rules)
        = IF hits = {} THEN <<>> ELSE <<rules[CHOOSE i \in hits : \A j \in hits : i <= j]>>
  BY Zenon DEF RuleOf, FirstWhere
<1>2. CASE hits = {}
  BY <1>1, <1>2
<1>3. CASE hits # {}
  <2>1. \E i \in hits : \A j \in hits : i <= j
    <3>1. hits \in SUBSET Nat
      OBVIOUS
    <3> HIDE DEF hits
    <3> QED BY <1>3, <3>1, LeastExists
  <2>2. PICK i : i = CHOOSE k \in hits : \A j \in hits : k <= j
    OBVIOUS
  <2>3. i \in hits
    BY <2>1, <2>2, Zenon
  <2>4. RuleOf(role, kind, rules) = <<rules[i]>>
    BY <1>1, <1>3, <2>2
  <2> QED BY <2>3, <2>4
<1> QED BY <1>2, <1>3

(* A message of the opening block matches a rule of a role with a code.    *)
FromOpening(seq, rules, role, code) ==
  \E i \in DOMAIN seq, r \in Range(rules) :
    /\ i <= OpeningEnd(seq) /\ r.role = role /\ r.code = code
    /\ RuleMatches(r, seq[i].kind)

(* The code of the opening block is that of such a rule.                   *)
LEMMA OpeningCodeIs ==
  ASSUME NEW seq \in Seq(Messages), NEW rules \in Seq(Rules), NEW role,
         NEW code, code = OpeningCode(role, OpeningBlock(seq), rules), code # Blank
  PROVE  FromOpening(seq, rules, role, code)
<1> PICK opening : opening = OpeningBlock(seq)
  OBVIOUS
<1>1. /\ DOMAIN opening = 1 .. OpeningEnd(seq) /\ 1 .. OpeningEnd(seq) \subseteq DOMAIN seq
      /\ \A i \in DOMAIN opening : opening[i] = seq[i]
  <2> PICK end : end = OpeningEnd(seq)
    OBVIOUS
  <2>1. end \in 0 .. Len(seq)
    BY OpeningEnds
  <2>2. opening = SubSeq(seq, 1, end)
    BY DEF OpeningBlock
  <2> QED BY <2>1, <2>2
<1> DEFINE hits == {i \in DOMAIN opening : RuleOf(role, opening[i].kind, rules) # <<>>}
           least == CHOOSE i \in hits : \A j \in hits : i <= j
<1>0. code = OpeningCode(role, opening, rules)
  OBVIOUS
<1>2. OpeningCode(role, opening, rules)
        = IF (IF hits = {} THEN <<>> ELSE <<opening[least]>>) = <<>> THEN Blank
          ELSE RuleOf(role, (IF hits = {} THEN <<>> ELSE <<opening[least]>>)[1].kind, rules)[1].code
  BY Zenon DEF OpeningCode, FirstWhere
<1>3. hits # {}
  BY <1>0, <1>2
<1>4. \E i \in hits : \A j \in hits : i <= j
  <2>1. hits \in SUBSET Nat
    BY <1>1
  <2> HIDE DEF hits
  <2> QED BY <1>3, <2>1, LeastExists
<1>5. PICK i : i = least
  OBVIOUS
<1>6. i \in hits
  <2> HIDE DEF hits
  <2> QED BY <1>4, <1>5, Zenon
<1>7. code = RuleOf(role, opening[i].kind, rules)[1].code
  <2> PICK chosen : chosen = <<opening[i]>>
    OBVIOUS
  <2>1. chosen # <<>> /\ chosen[1] = opening[i]
    OBVIOUS
  <2> HIDE DEF hits, least
  <2> QED BY <1>0, <1>2, <1>3, <1>5, <2>1
<1>8. RuleOf(role, opening[i].kind, rules) # <<>> /\ i \in DOMAIN opening
  BY <1>6
<1>9. PICK k \in DOMAIN rules :
        /\ RuleOf(role, opening[i].kind, rules) = <<rules[k]>>
        /\ rules[k].role = role /\ RuleMatches(rules[k], opening[i].kind)
  BY <1>8, RuleIs
<1>10. rules[k] \in Range(rules) /\ rules[k].code = code
  BY <1>7, <1>9 DEF Range
<1>11. i \in DOMAIN seq /\ i <= OpeningEnd(seq) /\ opening[i] = seq[i]
  BY <1>1, <1>8
<1> QED BY <1>9, <1>10, <1>11 DEF FromOpening

(* An explicit signal: from a tag, or else from the opening block.         *)
LEMMA ExplicitIs ==
  ASSUME NEW seq \in Seq(Messages), NEW tags \in SUBSET Tags, NEW etl \in Policies,
         NEW role \in {"journey", "need", "outcome"},
         NEW code, code = Explicit(role, tags, OpeningBlock(seq), etl)
  PROVE  \/ Counts(role, code) /\ \E tag \in tags : SpeaksFor(tag, etl.mapping, role, code)
         \/ /\ \A tag \in tags : \A c : SpeaksFor(tag, etl.mapping, role, c) => ~Counts(role, c)
            /\ code # Blank => FromOpening(seq, etl.rules, role, code)
<1> PICK fromTags : fromTags = TagSignal(role, tags, etl.mapping)
  OBVIOUS
<1> PICK fromRules : fromRules = OpeningCode(role, OpeningBlock(seq), etl.rules)
  OBVIOUS
<1>1. etl.mapping \in Seq(Entries) /\ etl.rules \in Seq(Rules)
  BY DEF Policies
<1>2. code = IF fromTags # Blank THEN fromTags ELSE fromRules
  BY DEF Explicit, OrElse
<1>3. \/ Counts(role, fromTags) /\ \E tag \in tags : SpeaksFor(tag, etl.mapping, role, fromTags)
      \/ fromTags = Blank
         /\ \A tag \in tags : \A c : SpeaksFor(tag, etl.mapping, role, c) => ~Counts(role, c)
  BY <1>1, TagSignalIs
<1>4. CASE fromTags # Blank
  BY <1>2, <1>3, <1>4
<1>5. CASE fromTags = Blank
  <2>1. fromRules = code /\ ~Counts(role, fromTags)
    BY <1>2, <1>5 DEF Counts
  <2>2. code # Blank => FromOpening(seq, etl.rules, role, code)
    BY <1>1, <2>1, OpeningCodeIs
  <2> QED BY <1>3, <2>1, <2>2
<1> QED BY <1>4, <1>5

(* Every explicit signal of a day has its source, a tag the mapping puts in*)
(* the role or an opening rule matched before the conversation of the      *)
(* humans begins; and a day has no signal of a role only when no tag has a *)
(* code for it.                                                            *)
THEOREM SignalsExplained == Spec => []SignalsAreExplained
<1>1. AllInv => SignalsAreExplained
  <2> DEFINE TagsOf(t) == source[t].tags \cup source[t].tagHistory
             Codes == {e.code : e \in Range(setup.etl.mapping)} \ {Blank}
             Human(m, i) == /\ m[i].role \in HumanRoles /\ m[i].kind.text # Blank
                            /\ \A j \in DOMAIN m : m[i].kind.text \notin m[j].kind.buttons
             Chosen(m, role, code) ==
               \E i \in DOMAIN m, r \in Range(setup.etl.rules) :
                 /\ r.role = role /\ r.code = code
                 /\ r.texts \cap ({m[i].kind.text} \cup m[i].kind.buttons) # {}
                 /\ \A j \in 1..i : ~Human(m, j)
             SilentTags(t, role, counting) ==
               \A tag \in TagsOf(t), c \in counting : ~Speaks(tag, role, c)
             Explained(t, role, code, counting) ==
               IF code = Blank THEN SilentTags(t, role, counting)
               ELSE \/ \E tag \in TagsOf(t) : code \in counting /\ Speaks(tag, role, code)
                    \/ Chosen(days[t].messages, role, code)
  <2> SUFFICES ASSUME AllInv, NEW t \in DOMAIN days
               PROVE  /\ Explained(t, "journey", days[t].revisit, Codes \cap {"revisit"})
                      /\ Explained(t, "need", days[t].need, Codes)
                      /\ Explained(t, "outcome", days[t].outcome, Codes)
    BY Zenon DEF SignalsAreExplained
  <2> PICK m : m = days[t].messages
    OBVIOUS
  <2>0. m = days[t].messages
    OBVIOUS
  <2> PICK tags : tags = ObservedTags(source[t])
    OBVIOUS
  <2> PICK etl : etl = setup.etl
    OBVIOUS
  <2>1. PICK seq :
          /\ MadeOf(m, seq)
          /\ days[t].revisit = Explicit("journey", tags, OpeningBlock(seq), etl)
          /\ days[t].need = Explicit("need", tags, OpeningBlock(seq), etl)
          /\ days[t].outcome = Explicit("outcome", tags, OpeningBlock(seq), etl)
    BY DaysAreMade
  <2>2. /\ tags \in SUBSET Tags /\ tags = TagsOf(t) /\ etl \in Policies
        /\ etl.mapping \in Seq(Entries) /\ seq \in Seq(Messages)
    <3>1. t \in Threads /\ ScanInv /\ etl \in Policies
      BY DEF AllInv, FullInv, LoadInv, MadeInv, BuiltInv
    <3>2. source[t] \in Conversations
      BY <3>1 DEF ScanInv, SourceInv, Listed
    <3> QED BY <2>1, <3>1, <3>2 DEF ObservedTags, Conversations, Policies, MadeOf
  <2>3. \A tag, role, c : Speaks(tag, role, c) <=> SpeaksFor(tag, etl.mapping, role, c)
    BY DEF Speaks, SpeaksFor
  <2>4. ASSUME NEW role, NEW code, FromOpening(seq, etl.rules, role, code)
        PROVE  Chosen(m, role, code)
    <3>1. PICK i \in DOMAIN seq, r \in Range(etl.rules) :
            /\ i <= OpeningEnd(seq) /\ r.role = role /\ r.code = code
            /\ RuleMatches(r, seq[i].kind)
      BY <2>4 DEF FromOpening
    <3>2. i \in DOMAIN m /\ m[i].kind = seq[i].kind /\ DOMAIN m = 1 .. Len(seq) /\ Len(seq) \in Nat
      BY <2>1, <2>2, SaidOfDay DEF MadeOf
    <3>3. r.texts \cap ({m[i].kind.text} \cup m[i].kind.buttons) # {}
      BY <3>1, <3>2 DEF RuleMatches
    <3>4. ASSUME NEW j \in 1 .. i PROVE ~Human(m, j)
      <4>1. j \in DOMAIN m /\ j <= i
        BY <3>2
      <4>2. OpeningEnd(seq) \in Int /\ i \in Int /\ j \in Int /\ i <= OpeningEnd(seq)
        BY <2>2, <3>1, <3>2, OpeningEnds
      <4>3. j \notin Said(seq)
        BY <2>2, <4>1, <4>2, OpeningEnds
      <4> QED BY <2>1, <4>1, <4>3, SaidOfDay
    <3> HIDE DEF Human
    <3> QED BY <3>1, <3>2, <3>3, <3>4
  <2> HIDE DEF Chosen
  <2>5. ASSUME NEW role \in {"journey", "need", "outcome"}, NEW code,
               code = Explicit(role, tags, OpeningBlock(seq), etl),
               NEW counting, \A c : c \in counting <=> c \in Codes /\ (role = "journey" => c = "revisit")
        PROVE  Explained(t, role, code, counting)
    <3>0. Explained(t, role, code, counting)
            <=> IF code = Blank THEN SilentTags(t, role, counting)
                ELSE \/ \E tag \in TagsOf(t) : code \in counting /\ Speaks(tag, role, code)
                     \/ Chosen(m, role, code)
      BY <2>0
    <3>1. \/ Counts(role, code) /\ \E tag \in tags : SpeaksFor(tag, etl.mapping, role, code)
          \/ /\ \A tag \in tags : \A c : SpeaksFor(tag, etl.mapping, role, c) => ~Counts(role, c)
             /\ code # Blank => FromOpening(seq, etl.rules, role, code)
      <4>1. seq \in Seq(Messages) /\ tags \in SUBSET Tags /\ etl \in Policies
        BY <2>2
      <4>2. /\ role \in {"journey", "need", "outcome"}
            /\ code = Explicit(role, tags, OpeningBlock(seq), etl)
        BY <2>5
      <4> QED BY <4>1, <4>2, ExplicitIs, Zenon
    <3>2. CASE Counts(role, code) /\ \E tag \in tags : SpeaksFor(tag, etl.mapping, role, code)
      <4>1. PICK tag \in tags : SpeaksFor(tag, etl.mapping, role, code)
        BY <3>2
      <4>2. code \in {e.code : e \in Range(etl.mapping)}
        BY <2>2, <4>1, EntrySpeaks
      <4>3. code \in counting
        BY <2>5, <3>2, <4>2 DEF Counts
      <4>4. code # Blank
        BY <3>2 DEF Counts
      <4> QED BY <2>2, <2>3, <3>0, <4>1, <4>3, <4>4
    <3>3. CASE /\ \A tag \in tags : \A c : SpeaksFor(tag, etl.mapping, role, c) => ~Counts(role, c)
               /\ code # Blank => FromOpening(seq, etl.rules, role, code)
      <4>1. code # Blank => Chosen(m, role, code)
        BY <2>4, <3>3
      <4>2. \A c \in counting : Counts(role, c)
        BY <2>5 DEF Counts
      <4>3. SilentTags(t, role, counting)
        BY <2>2, <2>3, <3>3, <4>2
      <4> QED BY <3>0, <4>1, <4>3
    <3> QED BY <3>1, <3>2, <3>3
  <2> HIDE DEF Explained, Codes
  <2>6. Explained(t, "journey", days[t].revisit, Codes \cap {"revisit"})
    BY <2>1, <2>5
  <2>7. Explained(t, "need", days[t].need, Codes) /\ Explained(t, "outcome", days[t].outcome, Codes)
    BY <2>1, <2>5
  <2> QED BY <2>6, <2>7
<1> QED BY <1>1, AllInvHolds, PTL

(***************************************************************************)
(* The facts of the staff.                                                 *)
(***************************************************************************)
OwnMessages(m, name) == {i \in StaffMessages(m) : m[i].kind.staff = name}

Names(m) == {m[i].kind.staff : i \in StaffMessages(m)}

(* Whoever writes as staff has a name.                                     *)
LEMMA StaffIsNamed ==
  ASSUME NEW m, NEW seq, MadeOf(m, seq)
  PROVE  /\ \A i \in StaffMessages(m) : i \in Nat /\ i \in DOMAIN m /\ m[i].kind.staff \in Nat
         /\ IsFiniteSet(StaffMessages(m)) /\ Names(m) \in SUBSET Nat /\ IsFiniteSet(Names(m))
<1> PICK n \in Nat : n = Len(seq)
  <2>1. seq \in Seq(Messages)
    BY DEF MadeOf
  <2> QED BY <2>1
<1>1. DOMAIN m = 1 .. n /\ StaffMessages(m) \subseteq DOMAIN m
  BY DEF MadeOf, StaffMessages
<1>2. ASSUME NEW i \in StaffMessages(m) PROVE m[i].kind.staff \in Nat
  <2> PICK kind : kind = m[i].kind
    OBVIOUS
  <2>1. kind \in Kinds /\ SenderRole(kind) = "staff_via_pancake"
    BY <1>1 DEF MadeOf, StaffMessages
  <2>2. kind.from \in {"customer", "page", "nobody"} /\ kind.staff \in Nat \cup {NoStaff}
        /\ kind.auto \in BOOLEAN
    BY <2>1 DEF Kinds
  <2>3. kind.staff # NoStaff
    BY <2>1, <2>2 DEF SenderRole
  <2> QED BY <2>2, <2>3
<1>3. IsFiniteSet(StaffMessages(m))
  <2>1. IsFiniteSet(1 .. n)
    BY FS_Interval
  <2> QED BY <1>1, <2>1, FS_Subset
<1>4. Names(m) \in SUBSET Nat
  BY <1>2 DEF Names
<1>5. IsFiniteSet(Names(m))
  <2> DEFINE name == [i \in StaffMessages(m) |-> m[i].kind.staff]
  <2>1. name \in Surjection(StaffMessages(m), Names(m))
    BY DEF Surjection, Names
  <2> QED BY <1>3, <2>1, FS_Surjection
<1> QED BY <1>1, <1>2, <1>3, <1>4, <1>5

LEMMA StatsOfStaff ==
  ASSUME NEW m, NEW seq, MadeOf(m, seq)
  PROVE  /\ DOMAIN StaffStats(m) = Names(m)
         /\ \A name \in Names(m) : /\ StaffStats(m)[name].messages = Cardinality(OwnMessages(m, name))
                                   /\ StaffStats(m)[name].firstAt \in Nat
<1> DEFINE Stats(name) == [messages |-> Cardinality(OwnMessages(m, name)),
                           firstAt |-> m[Min(OwnMessages(m, name))].at]
<1>1. StaffStats(m) = [name \in Names(m) |-> Stats(name)]
  BY Zenon DEF StaffStats, Names, OwnMessages
<1>2. ASSUME NEW name \in Names(m) PROVE m[Min(OwnMessages(m, name))].at \in Nat
  <2> PICK own : own = OwnMessages(m, name)
    OBVIOUS
  <2>1. own # {} /\ own \in SUBSET Nat /\ own \subseteq DOMAIN m
    BY StaffIsNamed DEF OwnMessages, Names
  <2>2. Min(own) \in own
    <3>1. \E x \in own : \A y \in own : x <= y
      BY <2>1, LeastExists
    <3> QED BY <3>1, Zenon DEF Min
  <2> QED BY <2>1, <2>2 DEF MadeOf
<1>3. \A a, b : [messages |-> a, firstAt |-> b].messages = a /\ [messages |-> a, firstAt |-> b].firstAt = b
  OBVIOUS
<1> QED BY <1>1, <1>2, <1>3

(* Somebody wrote first.                                                   *)
LEMMA OwnerIs ==
  ASSUME NEW day, NEW names \in SUBSET Nat, names # {}, DOMAIN day.staff = names,
         \A s \in names : day.staff[s].firstAt \in Nat
  PROVE  FirstResponseOwner(names, day) \in names
<1> DEFINE times == {day.staff[s].firstAt : s \in names}
<1>1. times \in SUBSET Nat /\ times # {}
  OBVIOUS
<1>2. PICK at \in times : \A o \in times : at <= o
  <2> HIDE DEF times
  <2> QED BY <1>1, LeastExists
<1> DEFINE early == {s \in names : day.staff[s].firstAt = at}
<1>3. early \in SUBSET Nat /\ early # {}
  OBVIOUS
<1>4. PICK s \in early : \A o \in early : s <= o
  <2> HIDE DEF early
  <2> QED BY <1>3, LeastExists
<1>5. s \in names /\ \A o \in names :
        \/ day.staff[s].firstAt < day.staff[o].firstAt
        \/ day.staff[s].firstAt = day.staff[o].firstAt /\ s <= o
  <2> SUFFICES ASSUME NEW o \in names
               PROVE  \/ day.staff[s].firstAt < day.staff[o].firstAt
                      \/ day.staff[s].firstAt = day.staff[o].firstAt /\ s <= o
    OBVIOUS
  <2>1. day.staff[o].firstAt \in Nat /\ day.staff[s].firstAt = at /\ at <= day.staff[o].firstAt
    BY <1>2
  <2> QED BY <1>4, <2>1
<1>6. names \cap DOMAIN day.staff = names
  OBVIOUS
<1> HIDE DEF early, times
<1>7. (CHOOSE u \in names : \A o \in names :
        \/ day.staff[u].firstAt < day.staff[o].firstAt
        \/ day.staff[u].firstAt = day.staff[o].firstAt /\ u <= o) \in names
  BY <1>5, Zenon
<1> QED BY <1>6, <1>7 DEF FirstResponseOwner

(* A result assesses nobody who did not take part, and costs something.    *)
LEMMA ResultOfDay ==
  ASSUME NEW mode, NEW day, NEW answer \in Answers(mode, day),
         NEW result, result = NormalizedResult(day, answer)
  PROVE  /\ \A a \in result.staff : a.staff \in DOMAIN day.staff
         /\ result.cost \in Nat
<1>1. CASE Rejected(answer)
  BY <1>1 DEF NormalizedResult, FailedResult
<1>2. CASE ~Rejected(answer)
  <2>1. result.staff = StaffAssessments(day, answer.staff) /\ result.cost = Max({0, answer.cost})
    BY <1>2 DEF NormalizedResult
  <2>2. \A a \in StaffAssessments(day, answer.staff) : a.staff \in DOMAIN day.staff
    BY DEF StaffAssessments
  <2>3. answer.cost \in Int
    <3>1. CASE answer \in ProviderAnswers
      BY <1>2, <3>1, AnswersSucceed DEF Rejected
    <3>2. CASE answer = DeterministicAnswer(day)
      BY <3>2 DEF DeterministicAnswer
    <3> QED BY <3>1, <3>2 DEF Answers
  <2>4. ASSUME NEW c \in Int PROVE Max({0, c}) \in Nat
    <3> DEFINE larger == IF c > 0 THEN c ELSE 0
    <3>1. larger \in {0, c} /\ \A y \in {0, c} : larger >= y
      OBVIOUS
    <3>2. Max({0, c}) \in {0, c} /\ \A y \in {0, c} : Max({0, c}) >= y
      <4> HIDE DEF larger
      <4> QED BY <3>1, Zenon DEF Max
    <3> QED BY <3>2
  <2> QED BY <2>1, <2>2, <2>3, <2>4
<1> QED BY <1>1, <1>2

(* Equal whole shares lose less than one each.                             *)
LEMMA SharesOf ==
  ASSUME NEW c \in Nat, NEW n \in Nat, n # 0
  PROVE  c \div n \in Int /\ (c \div n) * n <= c /\ c - (c \div n) * n < n
OBVIOUS

(* The fact of one of them.                                                *)
StaffRow(run, t, day, result, s) ==
  [run |-> run.id, day |-> run.day, thread |-> t, staff |-> s,
   need |-> result.need, risk |-> result.risk,
   quality |-> QualityOf(s, result),
   messages |-> IF s \in DOMAIN day.staff THEN day.staff[s].messages ELSE 0,
   first |-> IF s = FirstResponseOwner(StaffNames(day, result), day) THEN day.first ELSE NoTime,
   cost |-> StaffCost(result.cost, Cardinality(StaffNames(day, result)))]

LEMMA RowFields ==
  ASSUME NEW run, NEW t, NEW day, NEW result, NEW s, NEW row, row = StaffRow(run, t, day, result, s)
  PROVE  /\ row.staff = s
         /\ row.messages = IF s \in DOMAIN day.staff THEN day.staff[s].messages ELSE 0
         /\ row.first = IF s = FirstResponseOwner(StaffNames(day, result), day) THEN day.first ELSE NoTime
         /\ row.cost = StaffCost(result.cost, Cardinality(StaffNames(day, result)))
<1>1. \A a, b, c, d, e, f, g, h, i, j :
        LET r == [run |-> a, day |-> b, thread |-> c, staff |-> d, need |-> e, risk |-> f,
                  quality |-> g, messages |-> h, first |-> i, cost |-> j]
        IN r.staff = d /\ r.messages = h /\ r.first = i /\ r.cost = j
  OBVIOUS
<1> QED BY <1>1, Zenon DEF StaffRow

(* Facts that carry names of their own are as many as the names.           *)
LEMMA RowsAreNames ==
  ASSUME NEW names, IsFiniteSet(names), NEW row, NEW rows, rows = {row[s] : s \in names},
         \A s \in names : row[s].staff = s
  PROVE  IsFiniteSet(rows) /\ Cardinality(rows) = Cardinality(names)
<1> DEFINE back == [r \in rows |-> r.staff]
           to == [s \in names |-> row[s]]
<1>1. to \in [names -> rows] /\ (\A s \in names : to[s] = row[s])
      /\ \A r \in rows : \E s \in names : to[s] = r
  OBVIOUS
<1> HIDE DEF to
<1>2. \A s, u \in names : to[s] = to[u] => s = u
  BY <1>1
<1>3. to \in Bijection(names, rows)
  BY <1>1, <1>2, Fun_IsBij
<1>4. ExistsBijection(names, rows)
  BY <1>3 DEF ExistsBijection
<1> QED BY <1>4, FS_Bijection

(* The rows of those who wrote, and the messages they count.               *)
RowsOf(m, own, row) ==
  /\ IsFiniteSet(StaffMessages(m)) /\ IsFiniteSet(own)
  /\ own = {row[s] : s \in Names(m)}
  /\ \A s \in Names(m) : /\ row[s].staff = s
                         /\ row[s].messages = Cardinality(OwnMessages(m, s))

SentBy(own) == SumFunction([s \in own |-> s.messages])

(* They count every message of the staff once.                             *)
LEMMA RowsCountMessages ==
  ASSUME NEW m, NEW own, NEW row, RowsOf(m, own, row)
  PROVE  SentBy(own) = Cardinality(StaffMessages(m))
<1>c. /\ IsFiniteSet(StaffMessages(m)) /\ IsFiniteSet(own)
       /\ own = {row[s] : s \in Names(m)}
       /\ \A s \in Names(m) : /\ row[s].staff = s
                              /\ row[s].messages = Cardinality(OwnMessages(m, s))
  BY DEF RowsOf
<1>0. PICK wrote : wrote = StaffMessages(m)
  OBVIOUS
<1>a. PICK key : key = [i \in wrote |-> row[m[i].kind.staff]]
  OBVIOUS
<1>b. PICK sent : sent = [s \in own |-> s.messages]
  OBVIOUS
<1>1. DOMAIN sent = own /\ \A s \in own : sent[s] = s.messages
  BY <1>b
<1>2. \A i \in wrote : m[i].kind.staff \in Names(m) /\ key[i] = row[m[i].kind.staff]
  BY <1>0, <1>a DEF Names
<1>3. \A i \in wrote : key[i] \in own
  BY <1>c, <1>2
<1>4. ASSUME NEW k \in own PROVE sent[k] = Cardinality(Part(wrote, key, k))
  <2>0. PICK s \in Names(m) : k = row[s]
    BY <1>c
  <2>1. \A i \in wrote : key[i] = k <=> m[i].kind.staff = s
    BY <2>0, <1>c, <1>2
  <2>2. {i \in wrote : key[i] = k} = {i \in wrote : m[i].kind.staff = s}
    BY <2>1
  <2>3. OwnMessages(m, s) = {i \in wrote : m[i].kind.staff = s}
    BY <1>0, Zenon DEF OwnMessages
  <2>4. sent[k] = k.messages /\ k.messages = row[s].messages
    BY <1>1, <2>0
  <2>5. row[s].messages = Cardinality(OwnMessages(m, s))
    BY <2>0, <1>c
  <2>6. Part(wrote, key, k) = {i \in wrote : key[i] = k}
    BY Zenon DEF Part
  <2> QED BY <2>2, <2>3, <2>4, <2>5, <2>6, Zenon
<1>5. IsFiniteSet(wrote) /\ IsFiniteSet(own)
  BY <1>0, <1>c, Zenon
<1>6. SumFunctionOnSet(sent, own) = Cardinality(wrote)
  BY <1>3, <1>4, <1>5, SumOfParts
<1>7. SumFunction(sent) = Cardinality(wrote)
  BY <1>1, <1>6, Zenon DEF SumFunction
<1> QED BY <1>0, <1>b, <1>7, Zenon DEF SentBy

(* The staff facts of a conversation are those of the people who wrote that*)
(* day, count each of their messages once, share out its cost up to the    *)
(* remainder of the division, and credit one of them with its first response.*)
THEOREM StaffFactsSound == Spec => []StaffFactsAddUp
<1>1. AllInv => StaffFactsAddUp
  <2> DEFINE Adds(f, m, wrote, own) ==
        LET spent == SumFunction([s \in own |-> s.cost])
        IN /\ {s.staff : s \in own} = {m[i].kind.staff : i \in wrote}
           /\ SumFunction([s \in own |-> s.messages]) = Cardinality(wrote)
           /\ own # {} => spent <= f.cost /\ f.cost - spent < Cardinality(own)
           /\ Cardinality({s \in own : s.first # NoTime}) = IF f.first = NoTime THEN 0 ELSE 1
      Wrote(m) == {i \in DOMAIN m : m[i].role = "staff_via_pancake"}
  <2> SUFFICES ASSUME AllInv, NEW f \in mart, f.run = job.id
               PROVE  Adds(f, days[f.thread].messages, Wrote(days[f.thread].messages),
                           {s \in staffMart : s.run = f.run /\ s.thread = f.thread})
    BY Zenon DEF StaffFactsAddUp
  <2> PICK t : t = f.thread
    OBVIOUS
  <2> PICK day : day = days[t]
    OBVIOUS
  <2> PICK result : result = results[t]
    OBVIOUS
  <2> PICK m : m = day.messages
    OBVIOUS
  <2> PICK wrote : wrote = StaffMessages(m)
    OBVIOUS
  <2> PICK own : own = StaffRows(t)
    OBVIOUS
  <2> PICK names : names = Names(m)
    OBVIOUS
  <2> PICK owner : owner = FirstResponseOwner(names, day)
    OBVIOUS
  <2> PICK share : share = StaffCost(result.cost, Cardinality(names))
    OBVIOUS
  <2>0. wrote = Wrote(m) /\ own = {s \in staffMart : s.run = f.run /\ s.thread = f.thread}
    BY DEF StaffMessages, StaffRows
  <2> HIDE DEF Wrote
  <2>1. /\ t \in DOMAIN results /\ own = BuildFactStaffThreadDays(job, t, day, result)
        /\ f = BuildFactThreadDay(job, t, day, result)
    BY DEF AllInv, MadeInv, FactsInv, Usable
  <2>2. t \in DOMAIN days
    BY <2>1 DEF AllInv, FullInv, LoadInv, Nothing
  <2>3. PICK seq : /\ MadeOf(m, seq) /\ day.staff = StaffStats(m)
                   /\ day.first = FirstResponse(Waits(m))
    BY <2>2, DaysAreMade
  <2>4. f.cost = result.cost /\ f.first = day.first
    BY <2>1 DEF BuildFactThreadDay
  <2>5. /\ \A i \in wrote : i \in Nat /\ i \in DOMAIN m /\ m[i].kind.staff \in Nat
        /\ IsFiniteSet(wrote) /\ names \in SUBSET Nat /\ IsFiniteSet(names)
    BY <2>3, StaffIsNamed
  <2>6. /\ DOMAIN day.staff = names
        /\ \A s \in names : /\ day.staff[s].messages = Cardinality(OwnMessages(m, s))
                            /\ day.staff[s].firstAt \in Nat
    BY <2>3, StatsOfStaff
  <2>7. result.cost \in Nat /\ StaffNames(day, result) = names
    <3>1. PICK answer \in Answers(setup.mode, day) : result = NormalizedResult(day, answer)
      BY <2>1 DEF AllInv, MadeInv, ResultInv
    <3>2. result.cost \in Nat /\ \A a \in result.staff : a.staff \in names
      BY <2>6, <3>1, ResultOfDay
    <3> QED BY <2>6, <3>2 DEF StaffNames
  <2> DEFINE row == [s \in names |-> StaffRow(job, t, day, result, s)]
  <2>8. own = {row[s] : s \in names}
    <3>1. own = {StaffRow(job, t, day, result, s) : s \in StaffNames(day, result)}
      BY <2>1, Zenon DEF BuildFactStaffThreadDays, StaffRow
    <3> QED BY <2>7, <3>1
  <2>9. \A s \in names : /\ row[s].staff = s /\ row[s].messages = Cardinality(OwnMessages(m, s))
                        /\ row[s].first = (IF s = owner THEN day.first ELSE NoTime)
                        /\ row[s].cost = share
    <3> SUFFICES ASSUME NEW s \in names
                 PROVE  /\ row[s].staff = s /\ row[s].messages = Cardinality(OwnMessages(m, s))
                        /\ row[s].first = (IF s = owner THEN day.first ELSE NoTime)
                        /\ row[s].cost = share
      OBVIOUS
    <3>1. row[s] = StaffRow(job, t, day, result, s)
      OBVIOUS
    <3> HIDE DEF row
    <3> QED BY <2>6, <2>7, <3>1, RowFields
  <2> HIDE DEF row
  <2>10. IsFiniteSet(own) /\ Cardinality(own) = Cardinality(names)
    BY <2>5, <2>8, <2>9, RowsAreNames
  <2>11. {s.staff : s \in own} = {m[i].kind.staff : i \in wrote}
    <3>1. {s.staff : s \in own} = names
      BY <2>8, <2>9
    <3> QED BY <3>1 DEF Names
  <2>12. SumFunction([s \in own |-> s.messages]) = Cardinality(wrote)
    <3>1. own = {row[s] : s \in Names(m)}
      BY <2>8
    <3>2. \A s \in Names(m) : row[s].staff = s /\ row[s].messages = Cardinality(OwnMessages(m, s))
      BY <2>9
    <3>3. IsFiniteSet(StaffMessages(m)) /\ IsFiniteSet(own)
      BY <2>5, <2>10
    <3>4. RowsOf(m, own, row)
      BY <3>1, <3>2, <3>3 DEF RowsOf
    <3>5. SentBy(own) = Cardinality(StaffMessages(m))
      BY <3>4, RowsCountMessages, Zenon
    <3> QED BY <3>5 DEF SentBy
  <2>13. ASSUME own # {}
         PROVE  /\ SumFunction([s \in own |-> s.cost]) <= f.cost
                /\ f.cost - SumFunction([s \in own |-> s.cost]) < Cardinality(own)
    <3> DEFINE costs == [s \in own |-> s.cost]
    <3> PICK n : n = Cardinality(own)
      OBVIOUS
    <3>1. n \in Nat /\ n # 0
      BY <2>10, <2>13, FS_CardinalityType, FS_EmptySet
    <3>2. share = result.cost \div n
      BY <2>10, <3>1 DEF StaffCost
    <3>3. DOMAIN costs = own /\ \A s \in own : costs[s] = share
      BY <2>8, <2>9
    <3>4. share \in Int /\ share * n <= result.cost /\ result.cost - share * n < n
      BY <2>7, <3>1, <3>2, SharesOf
    <3> HIDE DEF costs
    <3>5. SumFunctionOnSet(costs, own) = share * n
      BY <2>10, <3>3, <3>4, SumOfShares
    <3>6. SumFunction(costs) = share * n
      BY <3>3, <3>5 DEF SumFunction
    <3> QED BY <2>4, <3>4, <3>6 DEF costs
  <2>14. Cardinality({s \in own : s.first # NoTime}) = IF f.first = NoTime THEN 0 ELSE 1
    <3> PICK credited : credited = {s \in own : s.first # NoTime}
      OBVIOUS
    <3>1. CASE day.first = NoTime
      <4>1. credited = {}
        BY <2>8, <2>9, <3>1
      <4> QED BY <2>4, <3>1, <4>1, FS_EmptySet
    <3>2. CASE day.first # NoTime
      <4>1. RealWaits(m) # {}
        BY <2>3, <3>2, MadeIsDay, ResponsesOfWaits
      <4>2. names # {}
        <5>1. PICK w : w \in RealWaits(m)
          BY <4>1
        <5>2. w[2] \in StaffMessages(m)
          BY <5>1 DEF RealWaits
        <5>3. m[w[2]].kind.staff \in Names(m)
          BY <5>2, Zenon DEF Names
        <5> QED BY <5>3
      <4>3. owner \in names
        BY <2>5, <2>6, <4>2, OwnerIs
      <4>4. credited = {row[owner]}
        BY <2>8, <2>9, <3>2, <4>3
      <4>5. Cardinality({row[owner]}) = 1
        BY FS_Singleton, Zenon
      <4>6. Cardinality(credited) = 1
        BY <4>4, <4>5
      <4>7. f.first # NoTime
        BY <2>4, <3>2
      <4> QED BY <4>6, <4>7
    <3> QED BY <3>1, <3>2
  <2>15. Adds(f, m, wrote, own)
    BY <2>11, <2>12, <2>13, <2>14
  <2> HIDE DEF Adds
  <2> QED BY <2>0, <2>15
<1> QED BY <1>1, AllInvHolds, PTL
================================================================================
