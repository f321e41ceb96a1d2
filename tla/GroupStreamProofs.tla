------------------------- MODULE GroupStreamProofs --------------------------
(***************************************************************************)
(* Proofs about GroupStream, for any players, any ring and any number of   *)
(* events, fetches and outages.                                            *)
(***************************************************************************)
EXTENDS GroupStream, FiniteSetTheorems, SequenceTheorems, TLAPS

-----------------------------------------------------------------------------
(***************************************************************************)
(* Numbers in order.                                                       *)
(***************************************************************************)

\* Counting the numbers up to it gives each number of a finite set its rank.
LEMMA RankedExists ==
    ASSUME NEW S \in SUBSET Nat, IsFiniteSet(S), NEW k \in 1 .. Cardinality(S)
    PROVE  Ranked(S, k) \in S /\ Cardinality({m \in S : m <= Ranked(S, k)}) = k
<1> DEFINE UpTo(n) == {m \in S : m <= n}
           rank == [n \in S |-> Cardinality(UpTo(n))]
<1>1. Cardinality(S) \in Nat BY FS_CardinalityType
<1>2. ASSUME NEW n \in S PROVE IsFiniteSet(UpTo(n)) /\ rank[n] \in 1 .. Cardinality(S)
  <2>1. UpTo(n) \in SUBSET S /\ n \in UpTo(n) OBVIOUS
  <2> HIDE DEF UpTo
  <2>2. IsFiniteSet(UpTo(n)) /\ Cardinality(UpTo(n)) <= Cardinality(S) BY <2>1, FS_Subset
  <2>3. Cardinality(UpTo(n)) \in Nat /\ Cardinality(UpTo(n)) # 0
    BY <2>1, <2>2, FS_CardinalityType, FS_EmptySet
  <2> QED BY <1>1, <2>2, <2>3
<1>3. ASSUME NEW n \in S, NEW o \in S, n < o PROVE rank[n] # rank[o]
  <2>1. UpTo(n) \in SUBSET UpTo(o) /\ o \in UpTo(o) /\ o \notin UpTo(n)
    <3>1. n \in Nat /\ o \in Nat OBVIOUS
    <3>2. \A m \in UpTo(n) : m \in UpTo(o) BY <1>3, <3>1
    <3>3. o \in UpTo(o) /\ o \notin UpTo(n) BY <1>3, <3>1
    <3> HIDE DEF UpTo
    <3> QED BY <3>2, <3>3
  <2> HIDE DEF UpTo
  <2>2. Cardinality(UpTo(n)) # Cardinality(UpTo(o)) BY <1>2, <2>1, FS_Subset
  <2> QED BY <2>2
<1>4. rank \in Injection(S, 1 .. Cardinality(S))
  <2>1. rank \in [S -> 1 .. Cardinality(S)] BY <1>2
  <2>2. \A n, o \in S : rank[n] = rank[o] => n = o BY <1>3
  <2> QED BY <2>1, <2>2 DEF Injection, IsInjective
<1>5. IsFiniteSet(1 .. Cardinality(S)) /\ Cardinality(1 .. Cardinality(S)) = Cardinality(S)
  BY <1>1, FS_Interval
<1>6. rank \in Surjection(S, 1 .. Cardinality(S)) BY <1>4, <1>5, FS_Injection
<1>7. \E n \in S : rank[n] = k BY <1>6 DEF Surjection
<1>8. \E n \in S : Cardinality({m \in S : m <= n}) = k BY <1>7
<1> QED BY <1>8 DEF Ranked

\* A finite set of numbers has its greatest.
LEMMA MaxExists ==
    ASSUME NEW S \in SUBSET Nat, IsFiniteSet(S), S # {}
    PROVE  Max(S) \in S /\ \A x \in S : Max(S) >= x
<1> DEFINE n == Ranked(S, Cardinality(S))
           upTo == {m \in S : m <= n}
<1>1. Cardinality(S) \in Nat /\ Cardinality(S) # 0 BY FS_CardinalityType, FS_EmptySet
<1>2. n \in S /\ Cardinality(upTo) = Cardinality(S) BY <1>1, RankedExists
<1>3. upTo = S
  <2>1. upTo \in SUBSET S OBVIOUS
  <2> HIDE DEF upTo
  <2> QED BY <1>2, <2>1, FS_Subset
<1>4. \A x \in S : n >= x BY <1>2, <1>3
<1> QED BY <1>2, <1>4 DEF Max

\* The rank within an interval is the place in it.
LEMMA RankedInterval ==
    ASSUME NEW a \in Nat, NEW b \in Nat, NEW k \in 1 .. b - a
    PROVE  Cardinality(a + 1 .. b) = b - a /\ Ranked(a + 1 .. b, k) = a + k
<1> DEFINE S == a + 1 .. b
           n == Ranked(S, k)
<1>1. IsFiniteSet(S) /\ Cardinality(S) = b - a
  <2>1. a + 1 \in Int /\ b \in Int /\ ~(a + 1 > b) /\ b - (a + 1) + 1 = b - a OBVIOUS
  <2> QED BY <2>1, FS_Interval
<1>2. n \in S /\ Cardinality({m \in S : m <= n}) = k
  <2>1. S \in SUBSET Nat OBVIOUS
  <2> HIDE DEF S
  <2> QED BY <1>1, <2>1, RankedExists
<1> HIDE DEF n
<1>3. {m \in S : m <= n} = a + 1 .. n BY <1>2
<1>4. Cardinality(a + 1 .. n) = n - a
  <2>1. a + 1 \in Int /\ n \in Int /\ ~(a + 1 > n) /\ n - (a + 1) + 1 = n - a BY <1>2
  <2> QED BY <2>1, FS_Interval
<1>5. n = a + k
  <2>1. Cardinality({m \in S : m <= n}) = n - a BY <1>3, <1>4
  <2>2. n \in Int BY <1>2
  <2> QED BY <1>2, <2>1, <2>2
<1> QED BY <1>1, <1>5 DEF n

\* The events after a up to b are one for each number, in order.
Between(a, b) == [k \in 1 .. b - a |-> Event(a + k)]

LEMMA EventsOfInterval ==
    ASSUME NEW a \in Nat, NEW b \in Nat, a <= b
    PROVE  Events(a + 1 .. b) = Between(a, b)
<1>1. Cardinality(a + 1 .. b) = b - a
  <2>1. CASE a = b
    <3>1. a + 1 .. b = {} BY <2>1
    <3> QED BY <2>1, <3>1, FS_EmptySet
  <2>2. CASE a < b
    <3>1. 1 \in 1 .. b - a BY <2>2
    <3> QED BY <3>1, RankedInterval
  <2> QED BY <2>1, <2>2
<1>2. \A k \in 1 .. b - a : Ranked(a + 1 .. b, k) = a + k BY RankedInterval
<1> QED BY <1>1, <1>2 DEF Events, Between

-----------------------------------------------------------------------------
(***************************************************************************)
(* What a player will show once everything on its way has come.            *)
(***************************************************************************)

\* What can be on a screen when these events are written: nothing, or one of
\* them of the kind.
Marks(events, kind) == {0} \cup {n \in DOMAIN events : events[n] = kind}

Screens(events) == [joined : BOOLEAN, ready : BOOLEAN, open : BOOLEAN, retrying : BOOLEAN,
                    queue : Marks(events, "queue"), playback : Marks(events, "playback"),
                    seq : 0 .. Len(events)]
Snapshots(events) == [type : {"group.snapshot"}, seq : 0 .. Len(events),
                      queue : Marks(events, "queue"), playback : Marks(events, "playback")]
Fetches(events) == [id : Nat, read : {FALSE}] \cup
                   [id : Nat, read : {TRUE}, queue : Marks(events, "queue"),
                    playback : Marks(events, "playback")]

Sent(events) == {Event(n) : n \in DOMAIN events} \cup Snapshots(events) \cup {Required}
Asked == {Subscribe} \cup {Resync(n) : n \in Nat}

\* The position of a player after the first i messages of its box.
At(box, screen, i) == IF i = 0 THEN screen.seq ELSE box[i].seq
AtLast(box, screen) == At(box, screen, Len(box))

\* An event is the next one or one of before, and a snapshot follows the
\* announcement of one.
InStep(box, screen) ==
    \A i \in DOMAIN box :
        /\ box[i].type = "event" => /\ i > 1 => box[i - 1] # Required
                                    /\ box[i].seq <= At(box, screen, i - 1) + 1
        /\ box[i] = Required => i < Len(box) /\ box[i + 1].type = "group.snapshot"

EndsHighest(box, screen) ==
    \A i \in 0 .. Len(box) : i = 0 \/ box[i] # Required => At(box, screen, i) <= AtLast(box, screen)

\* A replay is asked for from a position that the player has or will have.
AsksBehind(asks, box, screen) ==
    \A i \in DOMAIN asks : asks[i] # Subscribe => asks[i].from <= AtLast(box, screen)

Field(r, kind) == IF kind = "queue" THEN r.queue ELSE r.playback
Sets(events, m, kind) ==
    m.type = "group.snapshot" \/ (m.type = "event" /\ events[m.seq] = kind)
Brings(m, kind) == IF m.type = "event" THEN m.seq ELSE Field(m, kind)

\* Where a player is to be trusted: where it stands, unless a late fetch spoilt
\* it, and at every snapshot.
Starts(box, settled) ==
    {i \in 0 .. Len(box) : IF i = 0 THEN settled ELSE box[i].type = "group.snapshot"}

Shows(events, box, screen, kind, n, i) ==
    IF i = 0 THEN Field(screen, kind) >= n
    ELSE Sets(events, box[i], kind) /\ Brings(box[i], kind) >= n

\* From the place s on the player comes to show n or what came after it, and
\* nothing behind takes that back.
Holds(events, box, screen, kind, n, s) ==
    \E i \in s .. Len(box) :
        /\ Shows(events, box, screen, kind, n, i)
        /\ \A j \in i + 1 .. Len(box) : Sets(events, box[j], kind) => Brings(box[j], kind) >= n

Screened == {"queue", "playback"}

Upholds(events, relayed, box, screen, settled) ==
    \A kind \in Screened : \A n \in relayed : events[n] = kind =>
        \A s \in Starts(box, settled) : Holds(events, box, screen, kind, n, s)

\* The player of this screen and box is behind in nothing that was relayed.
Follows(events, relayed, box, screen, asks, settled) ==
    /\ InStep(box, screen)
    /\ EndsHighest(box, screen)
    /\ AsksBehind(asks, box, screen)
    /\ \A n \in relayed : n <= AtLast(box, screen)
    /\ Upholds(events, relayed, box, screen, settled)

LEMMA MessageCases ==
    ASSUME NEW L \in Seq(Kinds), NEW m \in Sent(L)
    PROVE  \/ m = Required /\ m.type = "resync.required"
           \/ m # Required /\ m.type = "event" /\ m.seq \in DOMAIN L /\ m = Event(m.seq)
           \/ /\ m # Required /\ m.type = "group.snapshot" /\ m.seq \in 0 .. Len(L)
              /\ m.queue \in Marks(L, "queue") /\ m.playback \in Marks(L, "playback")
<1>1. CASE m = Required BY <1>1 DEF Required
<1>2. ASSUME NEW n \in DOMAIN L, m = Event(n)
      PROVE  m # Required /\ m.type = "event" /\ m.seq = n
  BY <1>2 DEF Event, Required
<1>3. CASE m \in Snapshots(L) BY <1>3 DEF Snapshots, Required
<1> QED BY <1>1, <1>2, <1>3 DEF Sent

LEMMA MarksBounds ==
    ASSUME NEW L \in Seq(Kinds), NEW kind, NEW n \in Marks(L, kind)
    PROVE  n \in 0 .. Len(L)
BY DEF Marks

\* When events are added, whatever was sent, shown or fetched still may be.
LEMMA Grown ==
    ASSUME NEW L \in Seq(Kinds), NEW L2 \in Seq(Kinds), Len(L) <= Len(L2),
           \A n \in DOMAIN L : L2[n] = L[n]
    PROVE  /\ DOMAIN L \subseteq DOMAIN L2 /\ \A kind : Marks(L, kind) \subseteq Marks(L2, kind)
           /\ Screens(L) \subseteq Screens(L2) /\ Sent(L) \subseteq Sent(L2)
           /\ Fetches(L) \subseteq Fetches(L2) /\ Seq(Sent(L)) \subseteq Seq(Sent(L2))
<1>1. DOMAIN L \subseteq DOMAIN L2 /\ 0 .. Len(L) \subseteq 0 .. Len(L2) OBVIOUS
<1>2. \A kind : Marks(L, kind) \subseteq Marks(L2, kind) BY <1>1 DEF Marks
<1>3. Screens(L) \subseteq Screens(L2) BY <1>1, <1>2 DEF Screens
<1>4. Snapshots(L) \subseteq Snapshots(L2) BY <1>1, <1>2 DEF Snapshots
<1>5. Sent(L) \subseteq Sent(L2) BY <1>1, <1>4 DEF Sent
<1>6. Fetches(L) \subseteq Fetches(L2) BY <1>2 DEF Fetches
<1>7. Seq(Sent(L)) \subseteq Seq(Sent(L2)) BY <1>5, SeqMonotonic
<1> QED BY <1>1, <1>2, <1>3, <1>5, <1>6, <1>7

LEMMA AskCases ==
    ASSUME NEW ask \in Asked
    PROVE  \/ ask = Subscribe
           \/ ask # Subscribe /\ ask.from \in Nat /\ ask = Resync(ask.from)
BY DEF Asked, Subscribe, Resync

\* The positions of a box are numbers of events, and its last message has one.
LEMMA Positions ==
    ASSUME NEW L \in Seq(Kinds), NEW box \in Seq(Sent(L)), NEW screen \in Screens(L),
           InStep(box, screen)
    PROVE  /\ screen.seq \in 0 .. Len(L)
           /\ \A i \in DOMAIN box : box[i] # Required => box[i].seq \in 0 .. Len(L)
           /\ Len(box) > 0 => box[Len(box)] # Required
           /\ AtLast(box, screen) \in 0 .. Len(L)
<1>1. screen.seq \in 0 .. Len(L) BY DEF Screens
<1>2. \A i \in DOMAIN box : box[i] # Required => box[i].seq \in 0 .. Len(L)
  <2> TAKE i \in DOMAIN box
  <2>1. box[i] \in Sent(L) OBVIOUS
  <2> QED BY <2>1, MessageCases
<1>3. Len(box) > 0 => box[Len(box)] # Required BY DEF InStep
<1> QED BY <1>1, <1>2, <1>3 DEF AtLast, At

\* A player that follows goes on to when the events after a, where it is or will
\* be, up to b are sent to it, and when others are written.
LEMMA EventsFollow ==
    ASSUME NEW L \in Seq(Kinds), NEW L2 \in Seq(Kinds), Len(L) <= Len(L2),
           \A n \in DOMAIN L : L2[n] = L[n],
           NEW R \in SUBSET DOMAIN L, NEW R2 \in SUBSET DOMAIN L2,
           NEW box \in Seq(Sent(L)), NEW screen \in Screens(L), NEW asks \in Seq(Asked),
           NEW settled \in BOOLEAN, Follows(L, R, box, screen, asks, settled),
           NEW b \in 0 .. Len(L2), NEW a \in 0 .. b,
           a <= AtLast(box, screen), AtLast(box, screen) <= b,
           \A n \in R2 : n \in R \/ (a < n /\ n <= b)
    PROVE  Follows(L2, R2, box \o Between(a, b), screen, asks, settled)
<1> DEFINE batch == Between(a, b)
           N     == Len(box)
           all   == box \o batch
<1>1. /\ batch \in Seq({Event(n) : n \in DOMAIN L2}) /\ Len(batch) = b - a
      /\ \A k \in 1 .. b - a : batch[k] = Event(a + k)
  BY DEF Between
<1>2. box \in Seq(Sent(L2)) /\ batch \in Seq(Sent(L2))
  <2>1. {Event(n) : n \in DOMAIN L2} \subseteq Sent(L2) BY DEF Sent
  <2>2. Seq(Sent(L)) \subseteq Seq(Sent(L2)) BY Grown
  <2> QED BY <1>1, <2>1, <2>2, SeqMonotonic
<1> HIDE DEF batch
<1>3. /\ Len(all) = N + b - a /\ N \in Nat /\ b \in Nat /\ a \in Nat /\ a <= b
      /\ all \in Seq(Sent(L2)) /\ DOMAIN all = 1 .. Len(all)
      /\ \A j \in 1 .. N : all[j] = box[j]
      /\ \A j \in N + 1 .. Len(all) : all[j] = Event(a + j - N)
  <2>1. /\ all \in Seq(Sent(L2)) /\ Len(all) = Len(box) + Len(batch)
        /\ \A j \in 1 .. Len(box) + Len(batch) :
               all[j] = IF j <= Len(box) THEN box[j] ELSE batch[j - Len(box)]
    BY <1>2, ConcatProperties
  <2> HIDE DEF all
  <2>2. N \in Nat /\ b \in Nat /\ a \in Nat /\ a <= b OBVIOUS
  <2>3. \A j \in N + 1 .. Len(all) : all[j] = Event(a + j - N)
    <3> TAKE j \in N + 1 .. Len(all)
    <3>1. j - N \in 1 .. b - a /\ ~(j <= N) /\ j \in 1 .. Len(box) + Len(batch)
      BY <1>1, <2>1, <2>2
    <3>2. a + (j - N) = a + j - N BY <2>2
    <3> QED BY <1>1, <2>1, <3>1, <3>2
  <2>4. Len(all) = N + b - a BY <1>1, <2>1, <2>2
  <2>5. \A j \in 1 .. N : all[j] = box[j]
    <3> TAKE j \in 1 .. N
    <3>1. j \in 1 .. Len(box) + Len(batch) /\ j <= Len(box)
      BY <1>1, <2>2
    <3> QED BY <2>1, <3>1
  <2>6. DOMAIN all = 1 .. Len(all) BY <2>1
  <2> QED BY <2>1, <2>2, <2>3, <2>4, <2>5, <2>6
<1> HIDE DEF all
<1>4. \A j \in N + 1 .. Len(all) : /\ all[j].type = "event" /\ all[j].seq = a + j - N
                                   /\ all[j] # Required
  <2> TAKE j \in N + 1 .. Len(all)
  <2>1. all[j] = Event(a + j - N) BY <1>3
  <2> QED BY <2>1 DEF Event, Required
<1>5. \A j \in 0 .. N : At(all, screen, j) = At(box, screen, j) BY <1>3 DEF At
<1>6. /\ screen.seq \in 0 .. Len(L) /\ AtLast(box, screen) \in 0 .. Len(L)
      /\ \A i \in DOMAIN box : box[i] # Required => box[i].seq \in 0 .. Len(L)
      /\ N > 0 => box[N] # Required
  BY Positions DEF Follows
<1>7. /\ AtLast(all, screen) \in Nat /\ AtLast(box, screen) <= AtLast(all, screen)
      /\ a < b => AtLast(all, screen) = b
  <2>1. CASE a = b BY <1>3, <1>5, <1>6, <2>1 DEF AtLast
  <2>2. CASE a < b
    <3>1. Len(all) \in N + 1 .. Len(all) BY <1>3, <2>2
    <3>2. a + Len(all) - N = b /\ Len(all) # 0 BY <1>3, <2>2
    <3>3. all[Len(all)].seq = b BY <1>4, <3>1, <3>2
    <3> QED BY <1>3, <1>6, <3>2, <3>3 DEF AtLast, At
  <2> QED BY <2>1, <2>2
<1>8. InStep(all, screen)
  <2> SUFFICES ASSUME NEW j \in 1 .. Len(all)
               PROVE  /\ all[j].type = "event" => /\ j > 1 => all[j - 1] # Required
                                                  /\ all[j].seq <= At(all, screen, j - 1) + 1
                      /\ all[j] = Required => j < Len(all) /\ all[j + 1].type = "group.snapshot"
    BY <1>3 DEF InStep
  <2>1. CASE j <= N
    <3>1. j \in DOMAIN box /\ all[j] = box[j] /\ j - 1 \in 0 .. N BY <1>3, <2>1
    <3>2. j > 1 => all[j - 1] = box[j - 1] BY <1>3, <3>1
    <3>3. j < N => all[j + 1] = box[j + 1]
      <4>1. j < N => j + 1 \in 1 .. N BY <1>3
      <4> QED BY <1>3, <4>1
    <3>4. At(all, screen, j - 1) = At(box, screen, j - 1) BY <1>5, <3>1
    <3>5. /\ box[j].type = "event" => /\ j > 1 => box[j - 1] # Required
                                      /\ box[j].seq <= At(box, screen, j - 1) + 1
          /\ box[j] = Required => j < N /\ box[j + 1].type = "group.snapshot"
      BY <3>1 DEF Follows, InStep
    <3>6. j < N => j < Len(all) BY <1>3
    <3>7. ASSUME all[j].type = "event" PROVE j > 1 => all[j - 1] # Required
      BY <3>1, <3>2, <3>5, <3>7
    <3>8. ASSUME all[j].type = "event" PROVE all[j].seq <= At(all, screen, j - 1) + 1
      BY <3>1, <3>4, <3>5, <3>8
    <3>9. ASSUME all[j] = Required PROVE j < Len(all) /\ all[j + 1].type = "group.snapshot"
      BY <3>1, <3>3, <3>5, <3>6, <3>9
    <3> QED BY <3>7, <3>8, <3>9
  <2>2. CASE j = N + 1
    <3>1. all[j].seq = a + 1 /\ all[j] # Required BY <1>3, <1>4, <2>2
    <3>2. At(all, screen, j - 1) = AtLast(box, screen) BY <1>3, <1>5, <2>2 DEF AtLast
    <3>3. j > 1 => all[j - 1] # Required BY <1>3, <1>6, <2>2
    <3> QED BY <1>6, <3>1, <3>2, <3>3
  <2>3. CASE j > N + 1
    <3>1. j \in N + 1 .. Len(all) /\ j - 1 \in N + 1 .. Len(all) /\ j - 1 # 0 BY <1>3, <2>3
    <3>2. all[j].seq = a + j - N /\ all[j - 1].seq = a + (j - 1) - N
      BY <1>4, <3>1
    <3>3. all[j] # Required /\ all[j - 1] # Required BY <1>4, <3>1
    <3> QED BY <1>3, <3>1, <3>2, <3>3 DEF At
  <2>4. j <= N \/ j = N + 1 \/ j > N + 1
    <3>1. j \in Int /\ N \in Int BY <1>3
    <3> QED BY <3>1
  <2> QED BY <2>1, <2>2, <2>3, <2>4
<1>9. EndsHighest(all, screen)
  <2> SUFFICES ASSUME NEW j \in 0 .. Len(all), j = 0 \/ all[j] # Required
               PROVE  At(all, screen, j) <= AtLast(all, screen)
    BY DEF EndsHighest
  <2>1. CASE j <= N
    <3>1. j \in 0 .. N /\ (j > 0 => all[j] = box[j]) BY <1>3, <2>1
    <3>2. At(box, screen, j) <= AtLast(box, screen) BY <3>1 DEF Follows, EndsHighest
    <3>3. At(box, screen, j) \in Nat
      <4>1. CASE j = 0 BY <1>6, <4>1 DEF At
      <4>2. CASE j # 0
        <5>1. j \in DOMAIN box /\ box[j] # Required BY <1>3, <3>1, <4>2
        <5> QED BY <1>6, <4>2, <5>1 DEF At
      <4> QED BY <4>1, <4>2
    <3> QED BY <1>5, <1>6, <1>7, <3>1, <3>2, <3>3
  <2>2. CASE j > N
    <3>1. j \in N + 1 .. Len(all) /\ j # 0 BY <1>3, <2>2
    <3>2. At(all, screen, j) = a + j - N BY <1>4, <3>1 DEF At
    <3> QED BY <1>3, <1>7, <3>1, <3>2
  <2> QED BY <1>3, <2>1, <2>2
<1>10. AsksBehind(asks, all, screen)
  <2> SUFFICES ASSUME NEW j \in DOMAIN asks, asks[j] # Subscribe
               PROVE  asks[j].from <= AtLast(all, screen)
    BY DEF AsksBehind
  <2>1. asks[j] \in Asked OBVIOUS
  <2>2. asks[j].from \in Nat BY <2>1, AskCases
  <2>3. asks[j].from <= AtLast(box, screen) BY DEF Follows, AsksBehind
  <2> QED BY <1>6, <1>7, <2>2, <2>3
<1>11. \A n \in R2 : n <= AtLast(all, screen)
  <2> TAKE n \in R2
  <2>1. n \in 1 .. Len(L2) OBVIOUS
  <2>2. CASE a < n /\ n <= b BY <1>3, <1>7, <2>1, <2>2
  <2>3. CASE n \in R BY <1>6, <1>7, <2>1, <2>3 DEF Follows
  <2> QED BY <2>2, <2>3
<1>12. Upholds(L2, R2, all, screen, settled)
  <2> SUFFICES ASSUME NEW kind \in Screened, NEW n \in R2, L2[n] = kind,
                      NEW s \in Starts(all, settled)
               PROVE  Holds(L2, all, screen, kind, n, s)
    BY DEF Upholds
  <2>1. n \in 1 .. Len(L2) OBVIOUS
  <2>2. s \in 0 .. N /\ s \in Starts(box, settled)
    <3>1. s \in 0 .. Len(all) /\ (s = 0 => settled) /\ (s # 0 => all[s].type = "group.snapshot")
      BY DEF Starts
    <3>2. ASSUME s > N PROVE FALSE
      <4>1. s \in N + 1 .. Len(all) /\ s # 0 BY <1>3, <3>1, <3>2
      <4> QED BY <1>4, <3>1, <4>1
    <3> QED BY <1>3, <3>1, <3>2 DEF Starts
  <2>3. \A j \in N + 1 .. Len(all) : Brings(all[j], kind) = a + j - N BY <1>4 DEF Brings
  <2>4. CASE a < n /\ n <= b
    <3> DEFINE i == N + n - a
    <3>1. i \in N + 1 .. Len(all) /\ i \in s .. Len(all) /\ i # 0 /\ a + i - N = n
      BY <1>3, <2>1, <2>2, <2>4
    <3> HIDE DEF i
    <3>2. Shows(L2, all, screen, kind, n, i) BY <1>4, <2>1, <2>3, <3>1 DEF Shows, Sets
    <3>3. \A j \in i + 1 .. Len(all) : Brings(all[j], kind) >= n
      <4> TAKE j \in i + 1 .. Len(all)
      <4>1. j \in N + 1 .. Len(all) /\ a + j - N >= n BY <1>3, <2>1, <3>1
      <4> QED BY <2>3, <4>1
    <3> QED BY <3>1, <3>2, <3>3 DEF Holds
  <2>5. CASE ~(a < n /\ n <= b)
    <3>1. n \in R /\ n \in DOMAIN L /\ L[n] = kind /\ n <= a
      BY <1>3, <1>6, <2>1, <2>5 DEF Follows
    <3>2. PICK i \in s .. N :
              /\ Shows(L, box, screen, kind, n, i)
              /\ \A j \in i + 1 .. N : Sets(L, box[j], kind) => Brings(box[j], kind) >= n
      BY <2>2, <3>1 DEF Follows, Upholds, Holds
    <3>3. ASSUME NEW j \in 1 .. N
          PROVE  all[j] = box[j] /\ (Sets(L2, all[j], kind) <=> Sets(L, box[j], kind))
      <4>1. all[j] = box[j] /\ box[j] \in Sent(L) BY <1>3, ElementOfSeq
      <4> QED BY <4>1, MessageCases DEF Sets
    <3>4. Shows(L2, all, screen, kind, n, i) BY <2>2, <3>2, <3>3 DEF Shows
    <3>5. ASSUME NEW j \in i + 1 .. Len(all), Sets(L2, all[j], kind)
          PROVE  Brings(all[j], kind) >= n
      <4>1. CASE j <= N
        <5>1. j \in 1 .. N /\ j \in i + 1 .. N BY <2>2, <3>2, <4>1
        <5> QED BY <3>2, <3>3, <3>5, <5>1
      <4>2. CASE j > N
        <5>1. j \in N + 1 .. Len(all) BY <1>3, <2>2, <4>2
        <5>2. a + j - N >= n BY <1>3, <2>1, <3>1, <5>1
        <5> QED BY <2>3, <5>1, <5>2
      <4> QED BY <1>3, <2>2, <3>2, <4>1, <4>2
    <3>6. i \in s .. Len(all) BY <1>3, <2>2, <3>2
    <3> QED BY <3>4, <3>5, <3>6 DEF Holds
  <2> QED BY <1>3, <2>1, <2>4, <2>5
<1>13. Follows(L2, R2, all, screen, asks, settled)
  BY <1>8, <1>9, <1>10, <1>11, <1>12 DEF Follows
<1> QED BY <1>13 DEF all, batch

\* A player still follows when it is asked to show less, shows more, or is not
\* to be trusted until the next snapshot.
LEMMA FollowsStill ==
    ASSUME NEW L \in Seq(Kinds), NEW R \in SUBSET DOMAIN L, NEW R2 \in SUBSET R,
           NEW box \in Seq(Sent(L)), NEW screen \in Screens(L), NEW screen2 \in Screens(L),
           NEW asks, NEW asks2, NEW settled \in BOOLEAN, NEW settled2 \in BOOLEAN,
           Follows(L, R, box, screen, asks, settled), AsksBehind(asks2, box, screen),
           screen2.seq = screen.seq,
           settled2 => /\ settled
                       /\ screen2.queue >= screen.queue /\ screen2.playback >= screen.playback
    PROVE  Follows(L, R2, box, screen2, asks2, settled2)
<1>1. \A i : At(box, screen2, i) = At(box, screen, i) BY DEF At
<1>2. AtLast(box, screen2) = AtLast(box, screen) BY <1>1 DEF AtLast
<1>3. InStep(box, screen2) BY <1>1 DEF Follows, InStep
<1>4. EndsHighest(box, screen2) BY <1>1, <1>2 DEF Follows, EndsHighest
<1>5. AsksBehind(asks2, box, screen2) BY <1>2 DEF AsksBehind
<1>6. \A n \in R2 : n <= AtLast(box, screen2) BY <1>2 DEF Follows
<1>7. Upholds(L, R2, box, screen2, settled2)
  <2> SUFFICES ASSUME NEW kind \in Screened, NEW n \in R2, L[n] = kind,
                      NEW s \in Starts(box, settled2)
               PROVE  Holds(L, box, screen2, kind, n, s)
    BY DEF Upholds
  <2>1. s \in Starts(box, settled) /\ s \in 0 .. Len(box) /\ (s = 0 => settled2) BY DEF Starts
  <2>2. PICK i \in s .. Len(box) :
            /\ Shows(L, box, screen, kind, n, i)
            /\ \A j \in i + 1 .. Len(box) : Sets(L, box[j], kind) => Brings(box[j], kind) >= n
    BY <2>1 DEF Follows, Upholds, Holds
  <2>3. Shows(L, box, screen2, kind, n, i)
    <3>1. CASE i = 0
      <4>1. s = 0 BY <2>1, <2>2, <3>1
      <4>2. Field(screen2, kind) >= Field(screen, kind) BY <2>1, <4>1 DEF Field, Screened
      <4>3. Field(screen2, kind) \in Nat /\ Field(screen, kind) \in Nat
        BY MarksBounds DEF Field, Screens, Screened
      <4>4. n \in Nat /\ Field(screen, kind) >= n BY <2>2, <3>1 DEF Shows
      <4> QED BY <3>1, <4>2, <4>3, <4>4 DEF Shows
    <3>2. CASE i # 0 BY <2>2, <3>2 DEF Shows
    <3> QED BY <3>1, <3>2
  <2> QED BY <2>2, <2>3 DEF Holds
<1> QED BY <1>3, <1>4, <1>5, <1>6, <1>7 DEF Follows

\* A snapshot, announced or not, brings a player whose box is in step to all
\* that was written.
LEMMA SnapshotFollows ==
    ASSUME NEW L \in Seq(Kinds), NEW box \in Seq(Sent(L)), NEW screen \in Screens(L),
           NEW asks, NEW settled \in BOOLEAN, InStep(box, screen),
           \A i \in DOMAIN asks : asks[i] # Subscribe => asks[i].from <= Len(L),
           NEW snap \in Snapshots(L), NEW news \in {<<snap>>, <<Required, snap>>}, snap.seq = Len(L),
           \A kind \in Screened : \A n \in Marks(L, kind) : Field(snap, kind) >= n
    PROVE  Follows(L, DOMAIN L, box \o news, screen, asks, settled)
<1> DEFINE N   == Len(box)
           M   == N + Len(news)
           all == box \o news
<1>1. /\ N \in Nat /\ M \in N + 1 .. N + 2 /\ Len(all) = M /\ M # 0
      /\ all \in Seq(Sent(L)) /\ DOMAIN all = 1 .. M
      /\ \A j \in 1 .. N : all[j] = box[j]
      /\ all[M] = snap
      /\ \A j \in N + 1 .. M - 1 : all[j] = Required
  <2>1. snap \in Sent(L) /\ Required \in Sent(L) BY DEF Sent
  <2>2. /\ news \in Seq(Sent(L)) /\ Len(news) \in 1 .. 2 /\ news[Len(news)] = snap
        /\ \A k \in 1 .. Len(news) - 1 : news[k] = Required
    <3>1. CASE news = <<snap>>
      <4>1. Len(news) = 1 BY <3>1
      <4> QED BY <2>1, <3>1, <4>1
    <3>2. CASE news = <<Required, snap>>
      <4>1. Len(news) = 2 /\ news[1] = Required /\ news[2] = snap BY <3>2
      <4>2. news \in Seq(Sent(L)) BY <2>1, <3>2
      <4> QED BY <4>1, <4>2
    <3> QED BY <3>1, <3>2
  <2>3. /\ all \in Seq(Sent(L)) /\ Len(all) = N + Len(news)
        /\ \A j \in 1 .. N + Len(news) : all[j] = IF j <= N THEN box[j] ELSE news[j - N]
    BY <2>2, ConcatProperties
  <2> HIDE DEF all
  <2>4. N \in Nat /\ M - N = Len(news) OBVIOUS
  <2>5. all[M] = snap
    <3>1. M \in 1 .. N + Len(news) /\ ~(M <= N) BY <2>2, <2>4
    <3> QED BY <2>2, <2>3, <2>4, <3>1
  <2>6. \A j \in N + 1 .. M - 1 : all[j] = Required
    <3> TAKE j \in N + 1 .. M - 1
    <3>1. j \in 1 .. N + Len(news) /\ ~(j <= N) /\ j - N \in 1 .. Len(news) - 1 BY <2>2, <2>4
    <3> QED BY <2>2, <2>3, <3>1
  <2>7. \A j \in 1 .. N : all[j] = box[j] BY <2>2, <2>3, <2>4
  <2>8. M \in N + 1 .. N + 2 /\ M # 0 BY <2>2, <2>4
  <2>9. Len(all) = M /\ DOMAIN all = 1 .. M BY <2>3
  <2> QED BY <2>3, <2>4, <2>5, <2>6, <2>7, <2>8, <2>9
<1> HIDE DEF all, M
<1>2. snap # Required /\ snap.type = "group.snapshot" /\ Len(L) \in Nat
  BY DEF Snapshots, Required
<1>3. Required.type = "resync.required" BY DEF Required
<1>4. /\ screen.seq \in 0 .. Len(L)
      /\ \A i \in DOMAIN box : box[i] # Required => box[i].seq \in 0 .. Len(L)
      /\ N > 0 => box[N] # Required
  BY Positions
<1>5. AtLast(all, screen) = Len(L) BY <1>1, <1>2 DEF AtLast, At
<1>6. InStep(all, screen)
  <2> SUFFICES ASSUME NEW j \in 1 .. M
               PROVE  /\ all[j].type = "event" => /\ j > 1 => all[j - 1] # Required
                                                  /\ all[j].seq <= At(all, screen, j - 1) + 1
                      /\ all[j] = Required => j < Len(all) /\ all[j + 1].type = "group.snapshot"
    BY <1>1 DEF InStep
  <2>1. CASE j <= N
    <3>1. j \in DOMAIN box /\ all[j] = box[j]
      <4>1. M \in Int /\ j \in Int /\ 1 <= j BY <1>1
      <4>2. j \in 1 .. N BY <1>1, <2>1, <4>1
      <4>3. \A i \in 1 .. N : all[i] = box[i] BY <1>1
      <4>4. DOMAIN box = 1 .. N OBVIOUS
      <4> QED BY <4>2, <4>3, <4>4
    <3>2. j > 1 => all[j - 1] = box[j - 1]
      <4>1. j > 1 => j - 1 \in 1 .. N BY <1>1, <2>1
      <4> QED BY <1>1, <4>1
    <3>3. j < N => all[j + 1] = box[j + 1]
      <4>1. j < N => j + 1 \in 1 .. N BY <1>1
      <4> QED BY <1>1, <4>1
    <3>4. At(all, screen, j - 1) = At(box, screen, j - 1) BY <3>1, <3>2 DEF At
    <3>5. /\ box[j].type = "event" => /\ j > 1 => box[j - 1] # Required
                                      /\ box[j].seq <= At(box, screen, j - 1) + 1
          /\ box[j] = Required => j < N /\ box[j + 1].type = "group.snapshot"
      BY <3>1 DEF InStep
    <3>6. j < N => j < Len(all) BY <1>1
    <3>7. ASSUME all[j].type = "event" PROVE j > 1 => all[j - 1] # Required
      BY <3>1, <3>2, <3>5, <3>7
    <3>8. ASSUME all[j].type = "event" PROVE all[j].seq <= At(all, screen, j - 1) + 1
      BY <3>1, <3>4, <3>5, <3>8
    <3>9. ASSUME all[j] = Required PROVE j < Len(all) /\ all[j + 1].type = "group.snapshot"
      BY <3>1, <3>3, <3>5, <3>6, <3>9
    <3> QED BY <3>7, <3>8, <3>9
  <2>2. CASE j = M BY <1>1, <1>2, <2>2
  <2>3. CASE N < j /\ j < M
    <3>1. all[j] = Required /\ j + 1 = M /\ j < Len(all) BY <1>1, <2>3
    <3> QED BY <1>1, <1>2, <1>3, <3>1
  <2> QED BY <1>1, <2>1, <2>2, <2>3
<1>7. EndsHighest(all, screen)
  <2> SUFFICES ASSUME NEW j \in 0 .. M, j = 0 \/ all[j] # Required
               PROVE  At(all, screen, j) <= Len(L)
    BY <1>1, <1>5 DEF EndsHighest
  <2>1. CASE j = 0 BY <1>2, <1>4, <2>1 DEF At
  <2>2. CASE j \in 1 .. N
    <3>1. box[j].seq \in 0 .. Len(L) BY <1>1, <1>4, <2>2
    <3> QED BY <1>1, <1>2, <2>2, <3>1 DEF At
  <2>3. CASE j = M BY <1>1, <1>2, <2>3 DEF At
  <2>4. CASE j \in N + 1 .. M - 1 BY <1>1, <2>4
  <2> QED BY <1>1, <2>1, <2>2, <2>3, <2>4
<1>8. AsksBehind(asks, all, screen) BY <1>5 DEF AsksBehind
<1>9. \A n \in DOMAIN L : n <= AtLast(all, screen) BY <1>2, <1>5
<1>10. Upholds(L, DOMAIN L, all, screen, settled)
  <2> SUFFICES ASSUME NEW kind \in Screened, NEW n \in DOMAIN L, L[n] = kind,
                      NEW s \in Starts(all, settled)
               PROVE  Holds(L, all, screen, kind, n, s)
    BY DEF Upholds
  <2>1. M \in s .. Len(all) /\ Len(all) = M BY <1>1 DEF Starts
  <2>2. Field(snap, kind) >= n BY DEF Marks
  <2>3. Shows(L, all, screen, kind, n, M)
    BY <1>1, <1>2, <2>2 DEF Shows, Sets, Brings
  <2>4. M + 1 .. Len(all) = {} BY <1>1
  <2> QED BY <2>1, <2>3, <2>4 DEF Holds
<1>11. Follows(L, DOMAIN L, all, screen, asks, settled)
  BY <1>6, <1>7, <1>8, <1>9, <1>10 DEF Follows
<1> QED BY <1>11 DEF all

\* A player that follows still does when it has received the first message: it
\* shows that, moves to its position, asks for a replay if it was told to, and
\* can be trusted again if that was a snapshot.
LEMMA ReceiveFollows ==
    ASSUME NEW L \in Seq(Kinds), NEW R \in SUBSET DOMAIN L,
           NEW box \in Seq(Sent(L)), box # <<>>,
           NEW screen \in Screens(L), NEW screen2 \in Screens(L),
           NEW asks \in Seq(Asked), NEW settled \in BOOLEAN, NEW settled2 \in BOOLEAN,
           Follows(L, R, box, screen, asks, settled),
           screen2.seq = IF box[1] = Required THEN screen.seq ELSE box[1].seq,
           \A kind \in Screened :
               Field(screen2, kind) = IF Sets(L, box[1], kind) THEN Brings(box[1], kind)
                                      ELSE Field(screen, kind),
           settled2 => settled \/ box[1].type = "group.snapshot"
    PROVE  Follows(L, R, Tail(box), screen2,
                   IF box[1] = Required THEN Append(asks, Resync(screen.seq)) ELSE asks, settled2)
<1> DEFINE rest  == Tail(box)
           N     == Len(box)
           asks2 == IF box[1] = Required THEN Append(asks, Resync(screen.seq)) ELSE asks
<1>1. /\ N \in Nat /\ N >= 1 /\ Len(rest) = N - 1 /\ DOMAIN rest = 1 .. N - 1
      /\ \A j \in 1 .. N - 1 : rest[j] = box[j + 1]
      /\ rest \in Seq(Sent(L)) /\ box[1] \in Sent(L)
  BY EmptySeq, HeadTailProperties
<1> HIDE DEF rest
<1>2. /\ screen.seq \in 0 .. Len(L)
      /\ \A i \in DOMAIN box : box[i] # Required => box[i].seq \in 0 .. Len(L)
      /\ AtLast(box, screen) \in 0 .. Len(L)
  BY Positions DEF Follows
<1>3. box[1] = Required => N >= 2 /\ box[2].type = "group.snapshot"
  BY <1>1 DEF Follows, InStep
<1>4. \A j \in 1 .. N - 1 : At(rest, screen2, j) = At(box, screen, j + 1)
  BY <1>1 DEF At
<1>5. At(rest, screen2, 0) = IF box[1] = Required THEN screen.seq ELSE At(box, screen, 1)
  BY DEF At
<1>6. AtLast(rest, screen2) = AtLast(box, screen)
  <2>1. CASE N = 1
    <3>1. box[1] # Required /\ Len(rest) = 0 BY <1>1, <1>3, <2>1
    <3> QED BY <1>5, <2>1, <3>1 DEF AtLast
  <2>2. CASE N >= 2
    <3>1. N - 1 \in 1 .. N - 1 /\ (N - 1) + 1 = N BY <1>1, <2>2
    <3> QED BY <1>1, <1>4, <3>1 DEF AtLast
  <2> QED BY <1>1, <2>1, <2>2
<1>7. InStep(rest, screen2)
  <2> SUFFICES ASSUME NEW j \in 1 .. N - 1
               PROVE  /\ rest[j].type = "event" => /\ j > 1 => rest[j - 1] # Required
                                                   /\ rest[j].seq <= At(rest, screen2, j - 1) + 1
                      /\ rest[j] = Required => j < N - 1 /\ rest[j + 1].type = "group.snapshot"
    BY <1>1 DEF InStep
  <2>1. /\ rest[j] = box[j + 1] /\ j + 1 \in DOMAIN box /\ (j + 1) - 1 = j /\ j + 1 > 1
        /\ j >= 1 /\ j \in Nat
    BY <1>1
  <2>2. /\ box[j + 1].type = "event" => box[j] # Required /\ box[j + 1].seq <= At(box, screen, j) + 1
        /\ box[j + 1] = Required => j + 1 < N /\ box[j + 1 + 1].type = "group.snapshot"
    BY <2>1 DEF Follows, InStep
  <2>3. j > 1 => rest[j - 1] = box[j]
    <3>1. j > 1 => j - 1 \in 1 .. N - 1 /\ (j - 1) + 1 = j BY <1>1, <2>1
    <3> QED BY <1>1, <3>1
  <2>4. j + 1 < N => j < N - 1 /\ rest[j + 1] = box[j + 1 + 1]
    <3>1. j + 1 < N => j < N - 1 /\ j + 1 \in 1 .. N - 1 BY <1>1, <2>1
    <3> QED BY <1>1, <3>1
  <2>5. box[j] # Required => At(rest, screen2, j - 1) = At(box, screen, j)
    <3>1. CASE j = 1 BY <1>5, <3>1
    <3>2. CASE j > 1
      <4>1. j - 1 \in 1 .. N - 1 /\ (j - 1) + 1 = j BY <1>1, <2>1, <3>2
      <4> QED BY <1>4, <4>1
    <3> QED BY <2>1, <3>1, <3>2
  <2>6. ASSUME rest[j].type = "event" PROVE j > 1 => rest[j - 1] # Required
    BY <2>1, <2>2, <2>3, <2>6
  <2>7. ASSUME rest[j].type = "event" PROVE rest[j].seq <= At(rest, screen2, j - 1) + 1
    BY <2>1, <2>2, <2>5, <2>7
  <2>8. ASSUME rest[j] = Required PROVE j < N - 1 /\ rest[j + 1].type = "group.snapshot"
    BY <2>1, <2>2, <2>4, <2>8
  <2> QED BY <2>6, <2>7, <2>8
<1>8. EndsHighest(rest, screen2)
  <2> SUFFICES ASSUME NEW j \in 0 .. N - 1, j = 0 \/ rest[j] # Required
               PROVE  At(rest, screen2, j) <= AtLast(box, screen)
    BY <1>1, <1>6 DEF EndsHighest
  <2>1. CASE j = 0
    <3>1. At(box, screen, 0) = screen.seq BY DEF At
    <3>2. 0 \in 0 .. N /\ 1 \in 0 .. N BY <1>1
    <3> QED BY <1>5, <2>1, <3>1, <3>2 DEF Follows, EndsHighest
  <2>2. CASE j # 0
    <3>1. j \in 1 .. N - 1 /\ j + 1 \in 0 .. N BY <1>1, <2>2
    <3>2. box[j + 1] # Required BY <1>1, <2>2, <3>1
    <3> QED BY <1>4, <3>1, <3>2 DEF Follows, EndsHighest
  <2> QED BY <2>1, <2>2
<1>9. AsksBehind(asks2, rest, screen2)
  <2>1. screen.seq <= AtLast(box, screen)
    <3>1. 0 \in 0 .. N /\ At(box, screen, 0) = screen.seq BY <1>1 DEF At
    <3> QED BY <3>1 DEF Follows, EndsHighest
  <2>2. AsksBehind(asks, rest, screen2) BY <1>6 DEF Follows, AsksBehind
  <2>3. CASE box[1] = Required
    <3>1. DOMAIN Append(asks, Resync(screen.seq)) = 1 .. Len(asks) + 1
      BY AppendProperties
    <3>2. \A i \in 1 .. Len(asks) : Append(asks, Resync(screen.seq))[i] = asks[i] OBVIOUS
    <3>3. Append(asks, Resync(screen.seq))[Len(asks) + 1] = Resync(screen.seq) OBVIOUS
    <3>4. Resync(screen.seq).from <= AtLast(rest, screen2) BY <1>6, <2>1 DEF Resync
    <3>5. DOMAIN asks = 1 .. Len(asks) OBVIOUS
    <3>6. \A i \in 1 .. Len(asks) + 1 : i \in 1 .. Len(asks) \/ i = Len(asks) + 1 OBVIOUS
    <3> QED BY <2>2, <2>3, <3>1, <3>2, <3>3, <3>4, <3>5, <3>6 DEF AsksBehind
  <2> QED BY <2>2, <2>3
<1> HIDE DEF asks2
<1>10. \A n \in R : n <= AtLast(rest, screen2) BY <1>6 DEF Follows
<1>11. Upholds(L, R, rest, screen2, settled2)
  <2> SUFFICES ASSUME NEW kind \in Screened, NEW n \in R, L[n] = kind,
                      NEW s \in Starts(rest, settled2)
               PROVE  Holds(L, rest, screen2, kind, n, s)
    BY DEF Upholds
  <2>1. s \in 0 .. N - 1 BY <1>1 DEF Starts
  <2> DEFINE t == IF s = 0 /\ settled THEN 0 ELSE s + 1
  <2>2. t \in Starts(box, settled) /\ t \in 0 .. N /\ (s > 0 => t = s + 1)
    <3>1. CASE s = 0
      <4>1. settled2 BY <3>1 DEF Starts
      <4> QED BY <1>1, <3>1, <4>1 DEF Starts
    <3>2. CASE s > 0
      <4>1. rest[s].type = "group.snapshot" /\ rest[s] = box[s + 1] /\ s + 1 \in 1 .. N
        BY <1>1, <2>1, <3>2 DEF Starts
      <4> QED BY <1>1, <3>2, <4>1 DEF Starts
    <3> QED BY <2>1, <3>1, <3>2
  <2>3. t >= s BY <2>1
  <2> HIDE DEF t
  <2>4. PICK i \in t .. N :
            /\ Shows(L, box, screen, kind, n, i)
            /\ \A j \in i + 1 .. N : Sets(L, box[j], kind) => Brings(box[j], kind) >= n
    BY <2>2 DEF Follows, Upholds, Holds
  <2>5. ASSUME NEW k \in 0 .. N - 1, i <= k + 1
        PROVE  \A j \in k + 1 .. N - 1 : Sets(L, rest[j], kind) => Brings(rest[j], kind) >= n
    <3> TAKE j \in k + 1 .. N - 1
    <3>1. j \in 1 .. N - 1 /\ j + 1 \in i + 1 .. N BY <1>1, <2>2, <2>4, <2>5
    <3> QED BY <1>1, <2>4, <3>1
  <2>6. CASE i > 1
    <3>1. i - 1 \in 1 .. N - 1 /\ i - 1 \in s .. N - 1 /\ i - 1 \in 0 .. N - 1 /\ (i - 1) + 1 = i
      BY <1>1, <2>1, <2>2, <2>3, <2>4, <2>6
    <3>2. rest[i - 1] = box[i] /\ i - 1 # 0 /\ i # 0 BY <1>1, <2>6, <3>1
    <3>3. Shows(L, rest, screen2, kind, n, i - 1) BY <2>4, <3>2 DEF Shows
    <3>4. \A j \in (i - 1) + 1 .. N - 1 : Sets(L, rest[j], kind) => Brings(rest[j], kind) >= n
      BY <2>5, <3>1
    <3> QED BY <1>1, <3>1, <3>3, <3>4 DEF Holds
  <2>7. CASE i <= 1
    <3>1. s = 0 /\ i \in 0 .. 1 BY <2>1, <2>2, <2>3, <2>4, <2>7
    <3>2. Field(screen2, kind) >= n
      <4>1. CASE i = 1
        <5>1. Sets(L, box[1], kind) /\ Brings(box[1], kind) >= n BY <2>4, <4>1 DEF Shows
        <5> QED BY <5>1
      <4>2. CASE i = 0
        <5>1. Field(screen, kind) >= n BY <2>4, <4>2 DEF Shows
        <5>2. Sets(L, box[1], kind) => Brings(box[1], kind) >= n
          <6>1. 1 \in i + 1 .. N BY <1>1, <4>2
          <6> QED BY <2>4, <6>1
        <5> QED BY <5>1, <5>2
      <4> QED BY <3>1, <4>1, <4>2
    <3>3. Shows(L, rest, screen2, kind, n, 0) BY <3>2 DEF Shows
    <3>4. 0 \in 0 .. N - 1 /\ i <= 0 + 1 /\ 0 \in s .. N - 1 BY <1>1, <3>1
    <3>5. \A j \in 0 + 1 .. N - 1 : Sets(L, rest[j], kind) => Brings(rest[j], kind) >= n
      BY <2>5, <3>4
    <3> QED BY <1>1, <3>3, <3>4, <3>5 DEF Holds
  <2> QED BY <2>1, <2>2, <2>4, <2>6, <2>7
<1>12. Follows(L, R, rest, screen2, asks2, settled2)
  BY <1>7, <1>8, <1>9, <1>10, <1>11 DEF Follows
<1> QED BY <1>12 DEF rest, asks2

-----------------------------------------------------------------------------
(***************************************************************************)
(* The inductive invariant.                                                *)
(***************************************************************************)

Typed ==
    /\ log \in Seq(Kinds) /\ up \in BOOLEAN
    /\ cursor \in (0 .. Len(log)) \cup {Unpolled} /\ mine \subseteq DOMAIN log
    /\ raced \in BOOLEAN /\ late \subseteq Clients
    /\ inbox \in [Clients -> Seq(Sent(log))] /\ outbox \in [Clients -> Seq(Asked)]
    /\ client \in [Clients -> Screens(log)] /\ http \in [Clients -> SUBSET Fetches(log)]
    /\ opens \in [Clients -> Nat]

\* Only an open socket carries messages, and it starts with a subscription.
Wired ==
    /\ subscribed \subseteq Clients
    /\ ~up => subscribed = {} /\ mine = {} /\ cursor = Unpolled
    /\ \A c \in Clients :
        /\ c \in subscribed => client[c].open
        /\ client[c].open => client[c].joined /\ client[c].ready
        /\ client[c].ready => client[c].joined
        /\ ~client[c].open => inbox[c] = <<>> /\ outbox[c] = <<>>
        /\ inbox[c] # <<>> => c \in subscribed
        /\ client[c].open /\ c \notin subscribed => outbox[c] # <<>> /\ outbox[c][1] = Subscribe

\* What waits for the poll is the end of the stream.
Relayed == DOMAIN log \ Unrelayed
Waiting == \E k \in 0 .. Len(log) : Unrelayed = k + 1 .. Len(log)

Unraced ==
    /\ Waiting
    /\ \A c \in subscribed :
           Follows(log, Relayed, inbox[c], client[c], outbox[c], c \notin late)
    /\ \A c \in Clients : AsksBehind(outbox[c], inbox[c], client[c])

StreamInv == Typed /\ Wired /\ (raced \/ Unraced)

LEMMA NewestMark ==
    ASSUME log \in Seq(Kinds), NEW kind
    PROVE  Newest(kind) \in Marks(log, kind) /\ \A n \in Marks(log, kind) : Newest(kind) >= n
<1> DEFINE M == Marks(log, kind)
<1>1. M \in SUBSET (0 .. Len(log)) /\ M # {} BY MarksBounds DEF Marks
<1>2. IsFiniteSet(0 .. Len(log)) /\ 0 .. Len(log) \in SUBSET Nat BY FS_Interval
<1>3. IsFiniteSet(M) /\ M \in SUBSET Nat BY <1>1, <1>2, FS_Subset
<1>4. Max(M) \in M /\ \A x \in M : Max(M) >= x BY <1>1, <1>3, MaxExists
<1> QED BY <1>4 DEF Newest, Marks

LEMMA SnapshotTyped ==
    ASSUME log \in Seq(Kinds)
    PROVE  /\ Snapshot \in Snapshots(log) /\ Snapshot.seq = Len(log)
           /\ \A kind \in Screened : \A n \in Marks(log, kind) : Field(Snapshot, kind) >= n
<1>1. Snapshot.seq = Len(log) /\ Snapshot.queue = Newest("queue")
      /\ Snapshot.playback = Newest("playback")
  BY DEF Snapshot
<1>2. Snapshot \in Snapshots(log) BY NewestMark DEF Snapshot, Snapshots
<1>3. \A kind \in Screened : Field(Snapshot, kind) = Newest(kind)
  BY <1>1 DEF Screened, Field
<1> QED BY <1>1, <1>2, <1>3, NewestMark

LEMMA EventsTyped ==
    ASSUME NEW L \in Seq(Kinds), NEW S \in SUBSET DOMAIN L
    PROVE  Events(S) \in Seq(Sent(L))
<1>1. DOMAIN L = 1 .. Len(L) /\ IsFiniteSet(1 .. Len(L)) /\ 1 .. Len(L) \in SUBSET Nat
  BY FS_Interval
<1>2. IsFiniteSet(S) /\ S \in SUBSET Nat BY <1>1, FS_Subset
<1>3. Cardinality(S) \in Nat BY <1>2, FS_CardinalityType
<1>4. \A k \in 1 .. Cardinality(S) : Event(Ranked(S, k)) \in Sent(L)
  BY <1>2, RankedExists DEF Sent
<1> QED BY <1>3, <1>4 DEF Events

LEMMA DeliveredTyped ==
    ASSUME NEW X, NEW to, NEW boxes \in [Clients -> Seq(X)], NEW messages \in Seq(X),
           NEW sent, sent = Delivered(to, boxes, messages)
    PROVE  /\ sent \in [Clients -> Seq(X)]
           /\ \A c \in Clients : sent[c] = (IF c \in to THEN boxes[c] \o messages ELSE boxes[c])
BY ConcatProperties DEF Delivered

LEMMA UnrelayedTyped ==
    ASSUME Typed
    PROVE  Unrelayed \subseteq DOMAIN log
<1>1. CASE cursor = Unpolled BY <1>1 DEF Unrelayed
<1>2. CASE cursor # Unpolled
  <2>1. cursor \in Nat /\ log \in Seq(Kinds) BY <1>2 DEF Typed
  <2>2. cursor + 1 .. Len(log) \subseteq DOMAIN log BY <2>1
  <2> QED BY <1>2, <2>2 DEF Unrelayed
<1> QED BY <1>1, <1>2

\* What publish does, and what it sends when no event of the worker waits.
LEMMA Publishes ==
    ASSUME Typed, NEW kinds \in Seq(Kinds), NEW to, NEW boxes \in [Clients -> Seq(Sent(log))],
           Publish(kinds, to, boxes)
    PROVE  /\ log' \in Seq(Kinds) /\ Len(log) <= Len(log') /\ \A n \in DOMAIN log : log'[n] = log[n]
           /\ mine' \subseteq DOMAIN log' /\ raced' \in BOOLEAN
           /\ inbox' \in [Clients -> Seq(Sent(log'))]
           /\ \A c \in Clients : inbox'[c] =
                  IF c \in to
                  THEN boxes[c] \o Between(Len(log), Len(log'))
                  ELSE boxes[c]
           /\ \A c \in Clients \ to : inbox'[c] = boxes[c]
<1> DEFINE new == Len(log) + 1 .. Len(log) + Len(kinds)
<1>1. /\ log \in Seq(Kinds) /\ log' = log \o kinds /\ mine \subseteq DOMAIN log
      /\ mine' = mine \cup new /\ raced' = (raced \/ Unrelayed # {})
      /\ inbox' = Delivered(to, boxes, Events(new))
  BY DEF Typed, Publish
<1>2. /\ log' \in Seq(Kinds) /\ Len(log') = Len(log) + Len(kinds)
      /\ Len(log) \in Nat /\ Len(kinds) \in Nat
      /\ \A n \in 1 .. Len(log) : log'[n] = log[n]
  <2>1. /\ log \o kinds \in Seq(Kinds) /\ Len(log \o kinds) = Len(log) + Len(kinds)
        /\ \A i \in 1 .. Len(log) + Len(kinds) :
               (log \o kinds)[i] = IF i <= Len(log) THEN log[i] ELSE kinds[i - Len(log)]
    BY <1>1, ConcatProperties
  <2>2. Len(log) \in Nat /\ Len(kinds) \in Nat BY <1>1
  <2> QED BY <1>1, <2>1, <2>2
<1>3. DOMAIN log = 1 .. Len(log) /\ DOMAIN log' = 1 .. Len(log') BY <1>1, <1>2
<1>4. new \in SUBSET DOMAIN log' BY <1>2, <1>3
<1>5. Events(new) \in Seq(Sent(log')) BY <1>2, <1>4, EventsTyped
<1>6. Events(new) = Between(Len(log), Len(log'))
  BY <1>2, EventsOfInterval
<1>7. boxes \in [Clients -> Seq(Sent(log'))]
  <2>1. Len(log) <= Len(log') /\ \A n \in DOMAIN log : log'[n] = log[n] BY <1>2, <1>3
  <2>2. Seq(Sent(log)) \subseteq Seq(Sent(log')) BY <1>1, <1>2, <2>1, Grown
  <2> QED BY <2>2
<1>8. /\ inbox' \in [Clients -> Seq(Sent(log'))]
      /\ \A c \in Clients : inbox'[c] = IF c \in to THEN boxes[c] \o Events(new) ELSE boxes[c]
  <2> DEFINE X == Sent(log')
             batch == Events(new)
  <2>1. batch \in Seq(X) /\ boxes \in [Clients -> Seq(X)] /\ inbox' = Delivered(to, boxes, batch)
    BY <1>1, <1>5, <1>7
  <2> HIDE DEF X, batch
  <2>2. /\ inbox' \in [Clients -> Seq(X)]
        /\ \A c \in Clients : inbox'[c] = IF c \in to THEN boxes[c] \o batch ELSE boxes[c]
    <3>1. \A c \in Clients : boxes[c] \o batch \in Seq(X) BY <2>1, ConcatProperties
    <3> QED BY <2>1, <3>1 DEF Delivered
  <2> QED BY <2>2 DEF X, batch
<1>9. raced' \in BOOLEAN BY <1>1
<1>10. mine' \subseteq DOMAIN log' /\ Len(log) <= Len(log') BY <1>1, <1>2, <1>3, <1>4
<1> QED BY <1>2, <1>3, <1>6, <1>8, <1>9, <1>10

-----------------------------------------------------------------------------
(***************************************************************************)
(* Types.                                                                  *)
(***************************************************************************)

\* What was held, fetched or sent stays what it was when events are written.
LEMMA Grows ==
    ASSUME Typed, log' \in Seq(Kinds), Len(log) <= Len(log'), \A n \in DOMAIN log : log'[n] = log[n]
    PROVE  /\ inbox \in [Clients -> Seq(Sent(log'))] /\ client \in [Clients -> Screens(log')]
           /\ http \in [Clients -> SUBSET Fetches(log')] /\ mine \subseteq DOMAIN log'
<1>1. /\ Screens(log) \subseteq Screens(log') /\ Fetches(log) \subseteq Fetches(log')
      /\ Seq(Sent(log)) \subseteq Seq(Sent(log')) /\ DOMAIN log \subseteq DOMAIN log'
  BY Grown DEF Typed
<1>2. inbox \in [Clients -> Seq(Sent(log'))] BY <1>1 DEF Typed
<1>3. client \in [Clients -> Screens(log')] BY <1>1 DEF Typed
<1>4. http \in [Clients -> SUBSET Fetches(log')] BY <1>1 DEF Typed
<1> QED BY <1>1, <1>2, <1>3, <1>4 DEF Typed

LEMMA PublicationKinds ==
    /\ \A kinds \in Publications : kinds \in Seq(Kinds)
    /\ <<"notice">> \in Seq(Kinds) /\ <<"queue", "playback">> \in Seq(Kinds)
BY DEF Publications, Kinds

\* The boxes when a snapshot is put into one of them.
LEMMA SnapshotBoxes ==
    ASSUME Typed, NEW c \in Clients, NEW boxes, boxes = Delivered({c}, inbox, <<Snapshot>>)
    PROVE  /\ boxes \in [Clients -> Seq(Sent(log))]
           /\ \A d \in Clients : boxes[d] = IF d = c THEN inbox[d] \o <<Snapshot>> ELSE inbox[d]
<1>1. Snapshot \in Sent(log) BY SnapshotTyped DEF Typed, Sent
<1>2. <<Snapshot>> \in Seq(Sent(log)) BY <1>1
<1>3. \A d \in Clients : boxes[d] = IF d = c THEN inbox[d] \o <<Snapshot>> ELSE inbox[d]
  BY DEF Delivered
<1>4. \A d \in Clients : boxes[d] \in Seq(Sent(log))
  BY <1>2, <1>3, ConcatProperties DEF Typed
<1> QED BY <1>3, <1>4 DEF Delivered

\* What the hub answers to a player that asks for a replay.
LEMMA AnswerTyped ==
    ASSUME Typed, NEW from \in Nat
    PROVE  ResyncAnswer(from) \in Seq(Sent(log))
<1>1. <<Required, Snapshot>> \in Seq(Sent(log))
  <2>1. Required \in Sent(log) /\ Snapshot \in Sent(log) BY SnapshotTyped DEF Typed, Sent
  <2> QED BY <2>1
<1>2. Events(from + 1 .. Len(log)) \in Seq(Sent(log))
  <2>1. log \in Seq(Kinds) /\ from + 1 .. Len(log) \in SUBSET DOMAIN log BY DEF Typed
  <2> QED BY <2>1, EventsTyped
<1> QED BY <1>1, <1>2 DEF ResyncAnswer

\* What is left of the boxes when a socket closes.
LEMMA ClosedBoxes ==
    ASSUME Typed, NEW c \in Clients, Closed(c)
    PROVE  /\ log' \in Seq(Kinds) /\ Len(log) <= Len(log') /\ \A n \in DOMAIN log : log'[n] = log[n]
           /\ mine' \subseteq DOMAIN log' /\ raced' \in BOOLEAN
           /\ inbox' \in [Clients -> Seq(Sent(log'))] /\ outbox' \in [Clients -> Seq(Asked)]
           /\ \A d \in Clients \ subscribed' : inbox'[d] = IF d = c THEN <<>> ELSE inbox[d]
           /\ c \notin subscribed => log' = log /\ raced' = raced /\ mine' = mine
<1> DEFINE boxes == [inbox EXCEPT ![c] = <<>>]
           note  == <<"notice">>
<1>1. boxes \in [Clients -> Seq(Sent(log))] BY EmptySeq DEF Typed
<1>2. \A d \in Clients : boxes[d] = IF d = c THEN <<>> ELSE inbox[d] BY DEF Typed
<1>3. outbox' \in [Clients -> Seq(Asked)] BY EmptySeq DEF Typed, Closed
<1>4. CASE c \in subscribed
  <2>1. Publish(note, subscribed', boxes) /\ note \in Seq(Kinds)
    BY <1>4, PublicationKinds DEF Closed
  <2> HIDE DEF boxes, note
  <2>2. /\ log' \in Seq(Kinds) /\ Len(log) <= Len(log') /\ \A n \in DOMAIN log : log'[n] = log[n]
        /\ mine' \subseteq DOMAIN log' /\ raced' \in BOOLEAN
        /\ inbox' \in [Clients -> Seq(Sent(log'))]
        /\ \A d \in Clients \ subscribed' : inbox'[d] = boxes[d]
    BY <1>1, <2>1, Publishes
  <2> QED BY <1>2, <1>3, <1>4, <2>2
<1>5. CASE c \notin subscribed
  <2>1. inbox' = boxes /\ log' = log /\ mine' = mine /\ raced' = raced BY <1>5 DEF Closed
  <2> QED BY <1>1, <1>2, <1>3, <1>5, <2>1 DEF Typed
<1> QED BY <1>4, <1>5

LEMMA TypedInit == Init => StreamInv
<1> SUFFICES ASSUME Init PROVE StreamInv OBVIOUS
<1>1. log = <<>> /\ Len(log) = 0 /\ DOMAIN log = {} BY DEF Init
<1>2. Away \in Screens(log) BY <1>1 DEF Away, Screens, Marks
<1>3. Typed BY <1>1, <1>2, EmptySeq DEF Init, Typed
<1>4. Wired BY DEF Init, Wired, Away
<1>5. Unrelayed = {} /\ Unrelayed = 0 + 1 .. Len(log) BY <1>1 DEF Init, Unrelayed
<1>6. Waiting BY <1>1, <1>5 DEF Waiting
<1>7. \A c \in Clients : AsksBehind(outbox[c], inbox[c], client[c]) BY DEF Init, AsksBehind
<1> QED BY <1>3, <1>4, <1>6, <1>7 DEF Init, StreamInv, Unraced

LEMMA FetchCases ==
    ASSUME NEW L, NEW f \in Fetches(L)
    PROVE  /\ f.id \in Nat /\ f.read \in BOOLEAN
           /\ f.read => f.queue \in Marks(L, "queue") /\ f.playback \in Marks(L, "playback")
BY DEF Fetches

\* What the player holds when a message is received.
LEMMA ShownIs ==
    ASSUME log \in Seq(Kinds), NEW c \in Clients, client[c] \in Screens(log), NEW m \in Sent(log)
    PROVE  /\ Shown(c, m) \in Screens(log)
           /\ \A f \in {"joined", "ready", "open", "retrying"} : Shown(c, m)[f] = client[c][f]
           /\ Shown(c, m).seq = IF m = Required THEN client[c].seq ELSE m.seq
           /\ \A kind \in Screened :
                  Field(Shown(c, m), kind) =
                      IF Sets(log, m, kind) THEN Brings(m, kind) ELSE Field(client[c], kind)
<1> DEFINE s == client[c]
           S == Shown(c, m)
<1>1. s \in Screens(log) OBVIOUS
<1> HIDE DEF s
<1>2. CASE m # Required /\ m.type = "event" /\ m.seq \in DOMAIN log
  <2> DEFINE q == IF log[m.seq] = "queue" THEN m.seq ELSE s.queue
             p == IF log[m.seq] = "playback" THEN m.seq ELSE s.playback
  <2>1. S = [s EXCEPT !.seq = m.seq, !.queue = q, !.playback = p]
    BY <1>2 DEF Shown, s
  <2>2. q \in Marks(log, "queue") BY <1>1, <1>2 DEF Screens, Marks
  <2>3. p \in Marks(log, "playback") BY <1>1, <1>2 DEF Screens, Marks
  <2>4. m.seq \in 0 .. Len(log) BY <1>2
  <2> HIDE DEF S
  <2>5. S.seq = m.seq /\ S.queue = q /\ S.playback = p BY <1>1, <2>1 DEF Screens
  <2>6. S \in Screens(log) BY <1>1, <2>1, <2>2, <2>3, <2>4 DEF Screens
  <2>7. \A kind \in Screened : Field(S, kind) =
            IF Sets(log, m, kind) THEN Brings(m, kind) ELSE Field(s, kind)
    BY <1>2, <2>5 DEF Screened, Field, Sets, Brings
  <2>8. \A f \in {"joined", "ready", "open", "retrying"} : S[f] = s[f] BY <1>1, <2>1 DEF Screens
  <2> QED BY <1>2, <2>5, <2>6, <2>7, <2>8 DEF s, S
<1>3. CASE m # Required /\ m.type = "group.snapshot" /\ m.seq \in 0 .. Len(log)
           /\ m.queue \in Marks(log, "queue") /\ m.playback \in Marks(log, "playback")
  <2>1. S = [s EXCEPT !.seq = m.seq, !.queue = m.queue, !.playback = m.playback]
    BY <1>3 DEF Shown, s
  <2> HIDE DEF S
  <2>5. S.seq = m.seq /\ S.queue = m.queue /\ S.playback = m.playback BY <1>1, <2>1 DEF Screens
  <2>6. S \in Screens(log) BY <1>1, <1>3, <2>1 DEF Screens
  <2>7. \A kind \in Screened : Field(S, kind) =
            IF Sets(log, m, kind) THEN Brings(m, kind) ELSE Field(s, kind)
    BY <1>3, <2>5 DEF Screened, Field, Sets, Brings
  <2>8. \A f \in {"joined", "ready", "open", "retrying"} : S[f] = s[f] BY <1>1, <2>1 DEF Screens
  <2> QED BY <1>3, <2>5, <2>6, <2>7, <2>8 DEF s, S
<1>4. CASE m = Required /\ m.type = "resync.required"
  <2>1. S = s BY <1>4 DEF Shown, s
  <2> HIDE DEF S
  <2>2. \A kind \in Screened : ~Sets(log, m, kind) BY <1>4 DEF Sets
  <2> QED BY <1>1, <1>4, <2>1, <2>2 DEF s, S
<1> QED BY <1>2, <1>3, <1>4, MessageCases

\* The screen after each of the player's own steps.
LEMMA ArrivesIs ==
    ASSUME Typed, NEW c \in Clients, HttpArrives(c)
    PROVE  \E fetch \in http[c] : \E s \in Screens(log) :
              /\ http' = [http EXCEPT ![c] = @ \ {fetch}]
              /\ client' = [client EXCEPT ![c] = s]
              /\ s.joined = client[c].joined /\ s.open = client[c].open
              /\ client[c].ready => s.ready
              /\ s.ready => client[c].ready \/ client[c].joined
              /\ s.seq = client[c].seq /\ s.queue = fetch.queue /\ s.playback = fetch.playback
              /\ late' = IF client[c].open /\ (\/ s.queue < client[c].queue
                                               \/ s.playback < client[c].playback)
                         THEN late \cup {c} ELSE late
<1>1. PICK fetch \in http[c] :
        /\ fetch.read
        /\ http' = [http EXCEPT ![c] = @ \ {fetch}]
        /\ client' = [client EXCEPT ![c].queue = fetch.queue, ![c].playback = fetch.playback,
                                    ![c].ready = @ \/ client[c].joined]
        /\ late' = IF client[c].open /\ (\/ fetch.queue < client[c].queue
                                         \/ fetch.playback < client[c].playback)
                   THEN late \cup {c} ELSE late
  BY DEF HttpArrives
<1>2. fetch.queue \in Marks(log, "queue") /\ fetch.playback \in Marks(log, "playback")
  <2>1. fetch \in Fetches(log) BY DEF Typed
  <2> QED BY <1>1, <2>1, FetchCases
<1> DEFINE ready == client[c].ready \/ client[c].joined
           s == [client[c] EXCEPT !.queue = fetch.queue, !.playback = fetch.playback,
                                  !.ready = ready]
<1>3. client[c] \in Screens(log) BY DEF Typed
<1>4. client' = [client EXCEPT ![c] = s] BY <1>1 DEF Typed
<1>5. ready \in BOOLEAN /\ (client[c].ready => ready)
      /\ (ready => client[c].ready \/ client[c].joined)
  OBVIOUS
<1> HIDE DEF ready
<1>6. /\ s \in Screens(log) /\ s.joined = client[c].joined /\ s.open = client[c].open
      /\ s.ready = ready /\ s.seq = client[c].seq
      /\ s.queue = fetch.queue /\ s.playback = fetch.playback
  BY <1>2, <1>3, <1>5 DEF Screens
<1> HIDE DEF s
<1> QED BY <1>1, <1>4, <1>5, <1>6

LEMMA FailsIs ==
    ASSUME Typed, NEW c \in Clients, HttpFails(c)
    PROVE  \E s \in Screens(log) :
              /\ client' = [client EXCEPT ![c] = s]
              /\ s.joined = client[c].joined /\ s.open = client[c].open
              /\ client[c].ready => s.ready
              /\ s.ready => client[c].ready \/ client[c].joined
              /\ s.seq = client[c].seq /\ s.queue = client[c].queue
              /\ s.playback = client[c].playback
<1> DEFINE ready == client[c].ready \/ client[c].joined
           s == [client[c] EXCEPT !.ready = ready]
<1>1. client[c] \in Screens(log) BY DEF Typed
<1>2. client' = [client EXCEPT ![c] = s] BY DEF HttpFails, Typed
<1>3. ready \in BOOLEAN /\ (client[c].ready => ready)
      /\ (ready => client[c].ready \/ client[c].joined)
  OBVIOUS
<1> HIDE DEF ready
<1>4. /\ s \in Screens(log) /\ s.joined = client[c].joined /\ s.open = client[c].open
      /\ s.ready = ready /\ s.seq = client[c].seq /\ s.queue = client[c].queue
      /\ s.playback = client[c].playback
  BY <1>1, <1>3 DEF Screens
<1> HIDE DEF s
<1> QED BY <1>2, <1>3, <1>4

LEMMA OpenIs ==
    ASSUME Typed, NEW c \in Clients, Open(c)
    PROVE  \E s \in Screens(log) :
              /\ client' = [client EXCEPT ![c] = s]
              /\ s.joined /\ s.open = client[c].open /\ s.ready = client[c].ready
              /\ s.seq = IF client[c].joined THEN client[c].seq ELSE 0
              /\ s.queue = client[c].queue /\ s.playback = client[c].playback
<1> DEFINE seq == IF client[c].joined THEN client[c].seq ELSE 0
           s   == [client[c] EXCEPT !.joined = TRUE, !.seq = seq]
<1>1. client[c] \in Screens(log) /\ log \in Seq(Kinds) BY DEF Typed
<1>2. client' = [client EXCEPT ![c] = s] BY DEF Open, Typed
<1>3. seq \in 0 .. Len(log) BY <1>1 DEF Screens
<1> HIDE DEF seq
<1>4. /\ s \in Screens(log) /\ s.joined /\ s.open = client[c].open
      /\ s.ready = client[c].ready /\ s.seq = seq /\ s.queue = client[c].queue
      /\ s.playback = client[c].playback
  BY <1>1, <1>3 DEF Screens
<1> HIDE DEF s
<1> QED BY <1>2, <1>4 DEF seq

LEMMA TypedNext ==
    ASSUME Typed, Wired, Next
    PROVE  Typed'
<1>1. ASSUME HubCommits PROVE Typed'
  <2>1. PICK kinds \in Publications : Publish(kinds, subscribed, inbox) BY <1>1 DEF HubCommits
  <2>2. kinds \in Seq(Kinds) BY PublicationKinds
  <2>3. /\ log' \in Seq(Kinds) /\ Len(log) <= Len(log') /\ \A n \in DOMAIN log : log'[n] = log[n]
        /\ mine' \subseteq DOMAIN log' /\ raced' \in BOOLEAN
        /\ inbox' \in [Clients -> Seq(Sent(log'))]
    BY <2>1, <2>2, Publishes DEF Typed
  <2>4. UNCHANGED <<up, cursor, outbox, client, http, late, opens>> BY <1>1 DEF HubCommits
  <2> QED BY <2>3, <2>4, Grows DEF Typed
<1>2. ASSUME WorkerCommits PROVE Typed'
  <2>1. PICK kinds \in Publications : log' = log \o kinds BY <1>2 DEF WorkerCommits, Publications
  <2>2. kinds \in Seq(Kinds) /\ log \in Seq(Kinds) BY PublicationKinds DEF Typed
  <2>3. log' \in Seq(Kinds) /\ Len(log) <= Len(log') /\ \A n \in DOMAIN log : log'[n] = log[n]
    BY <2>1, <2>2
  <2>4. UNCHANGED <<up, cursor, mine, inbox, outbox, client, http, late, opens>>
    BY <1>2 DEF WorkerCommits, wires
  <2>5. raced' \in BOOLEAN BY <1>2 DEF WorkerCommits
  <2> QED BY <2>3, <2>4, <2>5, Grows DEF Typed
<1>3. ASSUME Relay PROVE Typed'
  <2> DEFINE news == {n \in Unrelayed : n >= Oldest}
  <2>1. /\ UNCHANGED <<log, up, outbox, client, http, late, opens>> /\ raced' \in BOOLEAN
        /\ cursor' = Len(log)
    BY <1>3 DEF Relay, counts
  <2>2. cursor' \in Nat /\ log \in Seq(Kinds) BY <2>1 DEF Typed
  <2>3. mine' \subseteq DOMAIN log BY <1>3 DEF Relay, Typed
  <2>4. inbox' \in [Clients -> Seq(Sent(log))]
    <3>1. news \in SUBSET DOMAIN log BY UnrelayedTyped
    <3>2. Events(news) \in Seq(Sent(log)) BY <2>2, <3>1, EventsTyped
    <3>3. CASE cursor = Unpolled BY <1>3, <3>3 DEF Relay, Typed
    <3>4. CASE cursor # Unpolled
      <4>1. inbox' = Delivered(subscribed, inbox, Events(news)) BY <1>3, <3>4 DEF Relay
      <4> HIDE DEF news
      <4>2. \A c \in Clients : inbox[c] \o Events(news) \in Seq(Sent(log))
        BY <3>2, ConcatProperties DEF Typed
      <4> QED BY <4>1, <4>2 DEF Delivered, Typed
    <3> QED BY <3>3, <3>4
  <2> QED BY <2>1, <2>2, <2>3, <2>4 DEF Typed
<1>4. ASSUME Crash PROVE Typed'
  <2>1. /\ UNCHANGED <<log, raced, http, late, opens>> /\ up' = FALSE
        /\ cursor' = Unpolled /\ mine' = {}
        /\ inbox' = [c \in Clients |-> <<>>] /\ outbox' = [c \in Clients |-> <<>>]
    BY <1>4 DEF Crash
  <2>2. client' \in [Clients -> Screens(log)] BY <1>4 DEF Crash, Typed, Screens
  <2> QED BY <2>1, <2>2, EmptySeq DEF Typed
<1>5. ASSUME Restart PROVE Typed'
  BY <1>5 DEF Restart, Typed, wires, counts
<1>6. ASSUME NEW c \in Clients, HttpReads(c) PROVE Typed'
  <2>1. PICK fetch \in http[c] :
            http' = [http EXCEPT ![c] = (@ \ {fetch}) \cup
                      {[id |-> fetch.id, read |-> TRUE,
                        queue |-> Newest("queue"), playback |-> Newest("playback")]}]
    BY <1>6 DEF HttpReads
  <2>2. fetch.id \in Nat
    <3>1. fetch \in Fetches(log) BY DEF Typed
    <3> QED BY <3>1, FetchCases
  <2>3. [id |-> fetch.id, read |-> TRUE,
         queue |-> Newest("queue"), playback |-> Newest("playback")] \in Fetches(log)
    BY <2>2, NewestMark DEF Typed, Fetches
  <2>4. http' \in [Clients -> SUBSET Fetches(log)] BY <2>1, <2>3 DEF Typed
  <2> QED BY <1>6, <2>4 DEF HttpReads, Typed, hub, wires, counts
<1>7. ASSUME NEW c \in Clients, HttpArrives(c) PROVE Typed'
  <2>1. PICK fetch \in http[c], s \in Screens(log) :
            /\ http' = [http EXCEPT ![c] = @ \ {fetch}] /\ client' = [client EXCEPT ![c] = s]
            /\ late' \in {late, late \cup {c}}
    BY <1>7, ArrivesIs
  <2>2. client' \in [Clients -> Screens(log)] BY <2>1 DEF Typed
  <2>3. http' \in [Clients -> SUBSET Fetches(log)] /\ late' \subseteq Clients BY <2>1 DEF Typed
  <2> QED BY <1>7, <2>2, <2>3 DEF HttpArrives, Typed, hub, wires, counts
<1>8. ASSUME NEW c \in Clients, HttpFails(c) PROVE Typed'
  <2>1. client' \in [Clients -> Screens(log)] BY <1>8, FailsIs DEF Typed
  <2>2. http' \in [Clients -> SUBSET Fetches(log)] BY <1>8 DEF HttpFails, Typed
  <2> QED BY <1>8, <2>1, <2>2 DEF HttpFails, Typed, hub, wires, counts
<1>9. ASSUME NEW c \in Clients, Connect(c) PROVE Typed'
  <2>1. client' \in [Clients -> Screens(log)] BY <1>9 DEF Connect, Typed, Screens
  <2>2. Requests(c) \in Seq(Asked)
    <3>1. client[c].seq \in Nat BY DEF Typed, Screens
    <3>2. Subscribe \in Asked /\ Resync(client[c].seq) \in Asked BY <3>1 DEF Asked
    <3> QED BY <3>2 DEF Requests
  <2>3. outbox' \in [Clients -> Seq(Asked)] BY <1>9, <2>2 DEF Connect, Typed
  <2> QED BY <1>9, <2>1, <2>3 DEF Connect, Typed, hub, counts
<1>10. ASSUME NEW c \in Clients, ConnectFails(c) PROVE Typed'
  <2>1. client' \in [Clients -> Screens(log)] BY <1>10 DEF ConnectFails, Typed, Screens
  <2> QED BY <1>10, <2>1 DEF ConnectFails, Typed, hub, wires, counts
<1>11. ASSUME NEW c \in Clients, HubReceives(c) PROVE Typed'
  <2>1. /\ UNCHANGED <<up, cursor, client, http, late, opens>> /\ outbox[c] # <<>>
        /\ outbox' = [outbox EXCEPT ![c] = Tail(@)]
    BY <1>11 DEF HubReceives, counts
  <2>2. outbox[c] \in Seq(Asked) /\ Head(outbox[c]) \in Asked /\ Tail(outbox[c]) \in Seq(Asked)
    BY <2>1, HeadTailProperties, EmptySeq DEF Typed
  <2>3. outbox' \in [Clients -> Seq(Asked)] BY <2>1, <2>2 DEF Typed
  <2>4. CASE HubSubscribes(c)
    <3> DEFINE boxes == Delivered({c}, inbox, <<Snapshot>>)
    <3>1. boxes \in [Clients -> Seq(Sent(log))] BY SnapshotBoxes
    <3>2. Publish(<<"notice">>, subscribed', boxes) BY <2>4 DEF HubSubscribes
    <3> HIDE DEF boxes
    <3>3. /\ log' \in Seq(Kinds) /\ Len(log) <= Len(log') /\ \A n \in DOMAIN log : log'[n] = log[n]
          /\ mine' \subseteq DOMAIN log' /\ raced' \in BOOLEAN
          /\ inbox' \in [Clients -> Seq(Sent(log'))]
      BY <3>1, <3>2, Publishes, PublicationKinds
    <3> QED BY <2>1, <2>3, <3>3, Grows DEF Typed
  <2>5. CASE Head(outbox[c]) # Subscribe /\ HubReplays(c, Head(outbox[c]).from)
    <3>1. Head(outbox[c]).from \in Nat BY <2>2, <2>5, AskCases
    <3> DEFINE answer == ResyncAnswer(Head(outbox[c]).from)
    <3>2. answer \in Seq(Sent(log)) BY <3>1, AnswerTyped
    <3>3. inbox' = Delivered({c}, inbox, answer) /\ UNCHANGED <<log, mine, raced>>
      BY <2>5 DEF HubReplays
    <3> HIDE DEF answer
    <3>4. \A d \in Clients : inbox[d] \o answer \in Seq(Sent(log))
      BY <3>2, ConcatProperties DEF Typed
    <3>5. inbox' \in [Clients -> Seq(Sent(log))] BY <3>3, <3>4 DEF Delivered, Typed
    <3> QED BY <2>1, <2>3, <3>3, <3>5 DEF Typed
  <2> QED BY <1>11, <2>4, <2>5 DEF HubReceives
<1>12. ASSUME NEW c \in Clients, Receive(c) PROVE Typed'
  <2>1. /\ UNCHANGED <<hub, http, counts>> /\ inbox[c] # <<>>
        /\ client' = [client EXCEPT ![c] = Shown(c, Head(inbox[c]))]
        /\ inbox' = [inbox EXCEPT ![c] = Tail(@)]
        /\ late' \subseteq late
        /\ outbox' = outbox \/ outbox' = [outbox EXCEPT ![c] = Append(@, Resync(client[c].seq))]
    BY <1>12 DEF Receive
  <2>2. /\ inbox[c] \in Seq(Sent(log)) /\ Head(inbox[c]) \in Sent(log)
        /\ Tail(inbox[c]) \in Seq(Sent(log))
    BY <2>1, HeadTailProperties, EmptySeq DEF Typed
  <2>3. Shown(c, Head(inbox[c])) \in Screens(log) BY <2>2, ShownIs DEF Typed
  <2>4. client' \in [Clients -> Screens(log)] /\ inbox' \in [Clients -> Seq(Sent(log))]
    BY <2>1, <2>2, <2>3 DEF Typed
  <2>5. Append(outbox[c], Resync(client[c].seq)) \in Seq(Asked)
    <3>1. client[c].seq \in Nat /\ outbox[c] \in Seq(Asked) BY DEF Typed, Screens
    <3>2. Resync(client[c].seq) \in Asked BY <3>1 DEF Asked
    <3> QED BY <3>1, <3>2, AppendProperties
  <2>6. outbox' \in [Clients -> Seq(Asked)] BY <2>1, <2>5 DEF Typed
  <2> QED BY <2>1, <2>4, <2>6 DEF Typed, hub, counts
<1>13. ASSUME NEW c \in Clients, Open(c) PROVE Typed'
  <2>1. opens' \in [Clients -> Nat] BY <1>13 DEF Open, Typed
  <2>2. client' \in [Clients -> Screens(log)] BY <1>13, OpenIs DEF Typed
  <2>3. [id |-> opens'[c], read |-> FALSE] \in Fetches(log) BY <2>1 DEF Fetches
  <2>4. http' \in [Clients -> SUBSET Fetches(log)] BY <1>13, <2>3 DEF Open, Typed
  <2> QED BY <1>13, <2>1, <2>2, <2>4 DEF Open, Typed, hub, wires
<1>14. ASSUME NEW c \in Clients, Drop(c) PROVE Typed'
  <2>1. /\ log' \in Seq(Kinds) /\ Len(log) <= Len(log') /\ \A n \in DOMAIN log : log'[n] = log[n]
        /\ mine' \subseteq DOMAIN log' /\ raced' \in BOOLEAN
        /\ inbox' \in [Clients -> Seq(Sent(log'))] /\ outbox' \in [Clients -> Seq(Asked)]
    BY <1>14, ClosedBoxes DEF Drop
  <2>2. client' = [client EXCEPT ![c].open = FALSE, ![c].retrying = TRUE] BY <1>14 DEF Drop
  <2>3. client \in [Clients -> Screens(log')] /\ http \in [Clients -> SUBSET Fetches(log')]
    BY <2>1, Grows
  <2>4. client' \in [Clients -> Screens(log')] BY <2>2, <2>3 DEF Screens
  <2> QED BY <1>14, <2>1, <2>3, <2>4 DEF Drop, Typed
<1>15. ASSUME NEW c \in Clients, Leave(c) PROVE Typed'
  <2>1. /\ log' \in Seq(Kinds) /\ Len(log) <= Len(log') /\ \A n \in DOMAIN log : log'[n] = log[n]
        /\ mine' \subseteq DOMAIN log' /\ raced' \in BOOLEAN
        /\ inbox' \in [Clients -> Seq(Sent(log'))] /\ outbox' \in [Clients -> Seq(Asked)]
    BY <1>15, ClosedBoxes DEF Leave
  <2>2. client' = [client EXCEPT ![c] = [Away EXCEPT !.seq = client[c].seq]] BY <1>15 DEF Leave
  <2>3. client \in [Clients -> Screens(log')] /\ http \in [Clients -> SUBSET Fetches(log')]
    BY <2>1, Grows
  <2>4. [Away EXCEPT !.seq = client[c].seq] \in Screens(log')
    BY <2>3 DEF Screens, Away, Marks
  <2>5. client' \in [Clients -> Screens(log')] BY <2>2, <2>3, <2>4
  <2> QED BY <1>15, <2>1, <2>3, <2>5 DEF Leave, Typed, counts
<1> QED BY <1>1, <1>2, <1>3, <1>4, <1>5, <1>6, <1>7, <1>8, <1>9, <1>10, <1>11, <1>12, <1>13,
           <1>14, <1>15 DEF Next, ClientStep

-----------------------------------------------------------------------------
(***************************************************************************)
(* Sockets.                                                                *)
(***************************************************************************)

LEMMA WiredNext ==
    ASSUME Typed, Wired, Next
    PROVE  Wired'
<1>1. ASSUME HubCommits PROVE Wired'
  <2>1. PICK kinds \in Publications : Publish(kinds, subscribed, inbox) BY <1>1 DEF HubCommits
  <2>2. kinds \in Seq(Kinds) /\ inbox \in [Clients -> Seq(Sent(log))]
    BY PublicationKinds DEF Typed
  <2>3. \A c \in Clients \ subscribed : inbox'[c] = inbox[c]
    BY <2>1, <2>2, Publishes
  <2> QED BY <1>1, <2>3 DEF HubCommits, Wired
<1>2. ASSUME WorkerCommits PROVE Wired'
  BY <1>2 DEF WorkerCommits, Wired, wires
<1>3. ASSUME Relay PROVE Wired'
  <2>1. UNCHANGED <<up, outbox, client, subscribed>> /\ up BY <1>3 DEF Relay
  <2>2. \A c \in Clients \ subscribed : inbox'[c] = inbox[c]
    BY <1>3 DEF Relay, Delivered, Typed
  <2> QED BY <2>1, <2>2 DEF Wired
<1>4. ASSUME Crash PROVE Wired'
  <2>1. /\ ~up' /\ cursor' = Unpolled /\ mine' = {} /\ subscribed' = {}
        /\ inbox' = [c \in Clients |-> <<>>] /\ outbox' = [c \in Clients |-> <<>>]
    BY <1>4 DEF Crash
  <2>2. ASSUME NEW c \in Clients
        PROVE  ~client'[c].open /\ (client'[c].ready => client'[c].joined)
    <3>1. client[c] \in Screens(log) BY DEF Typed
    <3>2. client'[c] = IF client[c].open
                       THEN [client[c] EXCEPT !.open = FALSE, !.retrying = TRUE] ELSE client[c]
      BY <1>4 DEF Crash
    <3>3. client[c].ready => client[c].joined BY DEF Wired
    <3> QED BY <3>1, <3>2, <3>3 DEF Screens
  <2> QED BY <2>1, <2>2 DEF Wired
<1>5. ASSUME Restart PROVE Wired'
  BY <1>5 DEF Restart, Wired, wires
<1>6. ASSUME NEW c \in Clients, HttpReads(c) PROVE Wired'
  BY <1>6 DEF HttpReads, Wired, hub, wires
<1>7. ASSUME NEW c \in Clients, UNCHANGED <<up, cursor, mine, subscribed, inbox, outbox>>,
             NEW s \in Screens(log), client' = [client EXCEPT ![c] = s],
             s.open = client[c].open, client[c].joined => s.joined,
             client[c].ready => s.ready, s.ready => client[c].ready \/ client[c].joined
      PROVE  Wired'
  <2>1. \A d \in Clients : client'[d] = IF d = c THEN s ELSE client[d] BY <1>7 DEF Typed
  <2> QED BY <1>7, <2>1 DEF Wired
<1>8. ASSUME NEW c \in Clients, HttpArrives(c) PROVE Wired'
  <2>1. UNCHANGED <<up, cursor, mine, subscribed, inbox, outbox>>
    BY <1>8 DEF HttpArrives, hub, wires
  <2> QED BY <1>7, <1>8, <2>1, ArrivesIs
<1>9. ASSUME NEW c \in Clients, HttpFails(c) PROVE Wired'
  <2>1. UNCHANGED <<up, cursor, mine, subscribed, inbox, outbox>>
    BY <1>9 DEF HttpFails, hub, wires
  <2> QED BY <1>7, <1>9, <2>1, FailsIs
<1>10. ASSUME NEW c \in Clients, Open(c) PROVE Wired'
  <2>1. UNCHANGED <<up, cursor, mine, subscribed, inbox, outbox>>
    BY <1>10 DEF Open, hub, wires
  <2> QED BY <1>7, <1>10, <2>1, OpenIs
<1>11. ASSUME NEW c \in Clients, Connect(c) PROVE Wired'
  <2>1. /\ client' = [client EXCEPT ![c].open = TRUE, ![c].retrying = FALSE]
        /\ outbox' = [outbox EXCEPT ![c] = Requests(c)] /\ client[c].ready
        /\ UNCHANGED <<up, cursor, mine, subscribed, inbox>>
    BY <1>11 DEF Connect, hub
  <2>2. client[c] \in Screens(log) BY DEF Typed
  <2>3. /\ client'[c].open /\ client'[c].joined = client[c].joined
        /\ client'[c].ready = client[c].ready
        /\ \A d \in Clients \ {c} : client'[d] = client[d]
    BY <2>1, <2>2 DEF Typed, Screens
  <2>4. /\ outbox'[c] = Requests(c) /\ \A d \in Clients \ {c} : outbox'[d] = outbox[d]
    BY <2>1 DEF Typed
  <2>5. Requests(c) # <<>> /\ Requests(c)[1] = Subscribe BY DEF Requests
  <2> QED BY <2>1, <2>3, <2>4, <2>5 DEF Wired
<1>12. ASSUME NEW c \in Clients, ConnectFails(c) PROVE Wired'
  <2>1. UNCHANGED <<up, cursor, mine, subscribed, inbox, outbox>>
    BY <1>12 DEF ConnectFails, hub, wires
  <2> DEFINE s == [client[c] EXCEPT !.retrying = TRUE]
  <2>2. client[c] \in Screens(log) BY DEF Typed
  <2>3. client' = [client EXCEPT ![c] = s] BY <1>12 DEF ConnectFails
  <2>4. /\ s \in Screens(log) /\ s.open = client[c].open /\ s.joined = client[c].joined
        /\ s.ready = client[c].ready
    BY <2>2 DEF Screens
  <2> HIDE DEF s
  <2> QED BY <1>7, <2>1, <2>3, <2>4
<1>13. ASSUME NEW c \in Clients, HubReceives(c) PROVE Wired'
  <2>1. /\ UNCHANGED <<up, cursor, client>> /\ outbox[c] # <<>> /\ up
        /\ subscribed' = subscribed \cup {c}
        /\ \A d \in Clients \ {c} : outbox'[d] = outbox[d]
    BY <1>13 DEF HubReceives, HubSubscribes, HubReplays, Typed
  <2>2. client[c].open BY <2>1 DEF Wired
  <2>3. \A d \in Clients \ subscribed' : inbox'[d] = inbox[d]
    <3>1. CASE HubSubscribes(c)
      <4> DEFINE boxes == Delivered({c}, inbox, <<Snapshot>>)
                 note  == <<"notice">>
      <4>1. /\ boxes \in [Clients -> Seq(Sent(log))]
            /\ \A d \in Clients \ {c} : boxes[d] = inbox[d]
        BY SnapshotBoxes
      <4>2. Publish(note, subscribed', boxes) /\ note \in Seq(Kinds)
        BY <3>1, PublicationKinds DEF HubSubscribes
      <4> HIDE DEF boxes, note
      <4>3. \A d \in Clients \ subscribed' : inbox'[d] = boxes[d]
        BY <4>1, <4>2, Publishes
      <4> QED BY <2>1, <4>1, <4>3
    <3>2. CASE HubReplays(c, Head(outbox[c]).from)
      BY <2>1, <3>2 DEF HubReplays, Delivered
    <3> QED BY <1>13, <3>1, <3>2 DEF HubReceives
  <2> QED BY <2>1, <2>2, <2>3 DEF Wired
<1>14. ASSUME NEW c \in Clients, Receive(c) PROVE Wired'
  <2>1. /\ UNCHANGED <<hub, http, counts>> /\ inbox[c] # <<>>
        /\ client' = [client EXCEPT ![c] = Shown(c, Head(inbox[c]))]
        /\ inbox' = [inbox EXCEPT ![c] = Tail(@)]
        /\ outbox' = outbox \/ outbox' = [outbox EXCEPT ![c] = Append(@, Resync(client[c].seq))]
    BY <1>14 DEF Receive
  <2>2. c \in subscribed /\ client[c].open BY <2>1 DEF Wired
  <2> DEFINE s == Shown(c, Head(inbox[c]))
  <2>3. s.open = client[c].open /\ s.joined = client[c].joined /\ s.ready = client[c].ready
    <3>1. Head(inbox[c]) \in Sent(log) BY <2>1, HeadTailProperties, EmptySeq DEF Typed
    <3>2. \A f \in {"joined", "ready", "open", "retrying"} : s[f] = client[c][f]
      BY <3>1, ShownIs DEF Typed
    <3> HIDE DEF s
    <3> QED BY <3>2
  <2> HIDE DEF s
  <2>4. \A d \in Clients : client'[d] = IF d = c THEN s ELSE client[d] BY <2>1 DEF s, Typed
  <2>5. \A d \in Clients \ {c} : inbox'[d] = inbox[d] /\ outbox'[d] = outbox[d]
    BY <2>1 DEF Typed
  <2>6. UNCHANGED <<up, cursor, mine, subscribed>> BY <2>1 DEF hub
  <2>7. ~up' => subscribed' = {} /\ mine' = {} /\ cursor' = Unpolled BY <2>6 DEF Wired
  <2>8. ASSUME NEW d \in Clients \ {c}
        PROVE  client'[d] = client[d] /\ inbox'[d] = inbox[d] /\ outbox'[d] = outbox[d]
    BY <2>4, <2>5
  <2>9. client'[c] = s /\ s.open /\ s.joined /\ s.ready BY <2>2, <2>3, <2>4 DEF Wired
  <2> QED BY <2>2, <2>6, <2>7, <2>8, <2>9 DEF Wired
<1>15. ASSUME NEW c \in Clients, Closed(c), UNCHANGED <<up, cursor>>,
              ~client'[c].open, client'[c].ready => client'[c].joined,
              \A d \in Clients \ {c} : client'[d] = client[d]
       PROVE  Wired'
  <2>1. /\ \A d \in Clients \ subscribed' : inbox'[d] = IF d = c THEN <<>> ELSE inbox[d]
        /\ c \notin subscribed => mine' = mine
    BY <1>15, ClosedBoxes
  <2>2. /\ subscribed' = subscribed \ {c} /\ outbox'[c] = <<>>
        /\ \A d \in Clients \ {c} : outbox'[d] = outbox[d]
    BY <1>15 DEF Closed, Typed
  <2>3. ~up' => subscribed' = {} /\ mine' = {} /\ cursor' = Unpolled
    BY <1>15, <2>1, <2>2 DEF Wired
  <2>4. c \notin subscribed' /\ inbox'[c] = <<>> BY <2>1, <2>2
  <2> QED BY <1>15, <2>1, <2>2, <2>3, <2>4 DEF Wired
<1>16. ASSUME NEW c \in Clients, Drop(c) PROVE Wired'
  <2>1. Closed(c) /\ UNCHANGED <<up, cursor>> BY <1>16 DEF Drop
  <2>2. client[c] \in Screens(log) BY DEF Typed
  <2>3. /\ ~client'[c].open /\ client'[c].ready = client[c].ready
        /\ client'[c].joined = client[c].joined
        /\ \A d \in Clients \ {c} : client'[d] = client[d]
    BY <1>16, <2>2 DEF Drop, Typed, Screens
  <2>4. client[c].ready => client[c].joined BY DEF Wired
  <2> QED BY <1>15, <2>1, <2>3, <2>4
<1>17. ASSUME NEW c \in Clients, Leave(c) PROVE Wired'
  <2>1. Closed(c) /\ UNCHANGED <<up, cursor>> BY <1>17 DEF Leave
  <2>2. /\ ~client'[c].open /\ ~client'[c].ready
        /\ \A d \in Clients \ {c} : client'[d] = client[d]
    BY <1>17 DEF Leave, Typed, Away
  <2> QED BY <1>15, <2>1, <2>2
<1> QED BY <1>1, <1>2, <1>3, <1>4, <1>5, <1>6, <1>8, <1>9, <1>10, <1>11, <1>12, <1>13,
           <1>14, <1>16, <1>17 DEF Next, ClientStep

-----------------------------------------------------------------------------
(***************************************************************************)
(* Following.                                                              *)
(***************************************************************************)

LEMMA StillRelayed ==
    ASSUME UNCHANGED <<log, cursor, mine>>
    PROVE  Unrelayed' = Unrelayed /\ Relayed' = Relayed /\ (Waiting => Waiting')
BY DEF Unrelayed, Relayed, Waiting

LEMMA NothingAsked ==
    ASSUME NEW asks, asks = <<>>, NEW box, NEW screen
    PROVE  AsksBehind(asks, box, screen)
BY DEF AsksBehind

\* The hub writes only when nothing of the worker waits, or else it races.
LEMMA PublishRelayed ==
    ASSUME Typed, cursor' = cursor, NEW kinds \in Seq(Kinds), NEW to,
           NEW boxes \in [Clients -> Seq(Sent(log))], Publish(kinds, to, boxes), ~raced'
    PROVE  ~raced /\ Relayed = DOMAIN log /\ Relayed' = DOMAIN log' /\ Waiting'
<1>1. /\ log \in Seq(Kinds) /\ log' = log \o kinds /\ Unrelayed = {} /\ ~raced
      /\ mine' = mine \cup (Len(log) + 1 .. Len(log) + Len(kinds))
  BY DEF Typed, Publish
<1>2. Len(log') = Len(log) + Len(kinds) /\ log' \in Seq(Kinds) BY <1>1
<1>3. Unrelayed' = {}
  <2>1. CASE cursor = Unpolled BY <2>1 DEF Unrelayed
  <2>2. CASE cursor # Unpolled
    <3>1. cursor \in Nat BY <2>2 DEF Typed
    <3>2. \A n \in cursor + 1 .. Len(log) : n \in mine BY <1>1, <2>2 DEF Unrelayed
    <3>3. \A n \in cursor + 1 .. Len(log') : n \in mine' BY <1>1, <1>2, <3>1, <3>2
    <3> QED BY <2>2, <3>3 DEF Unrelayed
  <2> QED BY <2>1, <2>2
<1>4. {} = Len(log') + 1 .. Len(log') /\ Len(log') \in 0 .. Len(log') BY <1>2
<1> QED BY <1>1, <1>3, <1>4 DEF Relayed, Waiting

\* A player that follows all that was written follows what is written next.
LEMMA NewsFollow ==
    ASSUME NEW L \in Seq(Kinds), NEW L2 \in Seq(Kinds), Len(L) <= Len(L2),
           \A n \in DOMAIN L : L2[n] = L[n],
           NEW box \in Seq(Sent(L)), NEW screen \in Screens(L), NEW asks \in Seq(Asked),
           NEW settled \in BOOLEAN, NEW R \in SUBSET DOMAIN L,
           Follows(L, R, box, screen, asks, settled),
           NEW a \in 0 .. Len(L), \A n \in R : n <= a, a # 0 => a \in R
    PROVE  Follows(L2, R \cup (a + 1 .. Len(L2)), box \o Between(a, Len(L2)), screen, asks, settled)
<1> DEFINE b  == Len(L2)
           R2 == R \cup (a + 1 .. b)
<1>1. AtLast(box, screen) \in 0 .. Len(L) BY Positions DEF Follows
<1>2. a <= AtLast(box, screen)
  <2>1. CASE a = 0 BY <1>1, <2>1
  <2>2. CASE a # 0 BY <2>2 DEF Follows
  <2> QED BY <2>1, <2>2
<1>3. b \in 0 .. Len(L2) /\ a \in 0 .. b /\ AtLast(box, screen) <= b BY <1>1
<1>4. R2 \in SUBSET DOMAIN L2 BY <1>3
<1>5. \A n \in R2 : n \in R \/ (a < n /\ n <= b) BY <1>3
<1> HIDE DEF R2
<1>6. Follows(L2, R2, box \o Between(a, b), screen, asks, settled)
  BY <1>2, <1>3, <1>4, <1>5, EventsFollow
<1> QED BY <1>6 DEF R2

\* The subscribers follow what the hub writes.
LEMMA PublishFollows ==
    ASSUME Typed, cursor' = cursor, NEW kinds \in Seq(Kinds), NEW to,
           NEW boxes \in [Clients -> Seq(Sent(log))], Publish(kinds, to, boxes), ~raced',
           NEW c \in Clients, c \in to, NEW screen \in Screens(log), NEW asks \in Seq(Asked),
           NEW settled \in BOOLEAN,
           Follows(log, DOMAIN log, boxes[c], screen, asks, settled)
    PROVE  Follows(log', DOMAIN log', inbox'[c], screen, asks, settled)
<1> DEFINE a   == Len(log)
           b   == Len(log')
           box == boxes[c]
           R   == DOMAIN log
<1>1. log \in Seq(Kinds) BY DEF Typed
<1>2. /\ log' \in Seq(Kinds) /\ Len(log) <= Len(log') /\ \A n \in DOMAIN log : log'[n] = log[n]
      /\ \A d \in Clients :
             inbox'[d] = IF d \in to THEN boxes[d] \o Between(a, b) ELSE boxes[d]
  BY Publishes
<1>3. inbox'[c] = box \o Between(a, b) BY <1>2
<1>4. box \in Seq(Sent(log)) /\ Follows(log, R, box, screen, asks, settled) OBVIOUS
<1>5. /\ a \in 0 .. Len(log) /\ \A n \in R : n <= a
      /\ a # 0 => a \in R
  BY <1>1
<1>6. R \in SUBSET DOMAIN log /\ R \cup (a + 1 .. b) = DOMAIN log'
  <2>1. a \in Nat /\ b \in Nat /\ a <= b /\ R = 1 .. a /\ DOMAIN log' = 1 .. b BY <1>1, <1>2
  <2> HIDE DEF a, b, R
  <2>2. (1 .. a) \cup (a + 1 .. b) = 1 .. b BY <2>1
  <2> QED BY <2>1, <2>2 DEF R
<1> HIDE DEF box, a, R
<1>7. Follows(log', R \cup (a + 1 .. b), box \o Between(a, b), screen, asks, settled)
  BY <1>1, <1>2, <1>4, <1>5, <1>6, NewsFollow
<1> QED BY <1>3, <1>6, <1>7

\* The worker's events wait, and what was relayed stays followed.
LEMMA WorkerFollows ==
    ASSUME NEW L \in Seq(Kinds), NEW L2 \in Seq(Kinds), Len(L) <= Len(L2),
           \A n \in DOMAIN L : L2[n] = L[n], NEW R \in SUBSET DOMAIN L,
           NEW box \in Seq(Sent(L)), NEW screen \in Screens(L), NEW asks \in Seq(Asked),
           NEW settled \in BOOLEAN, Follows(L, R, box, screen, asks, settled)
    PROVE  Follows(L2, R, box, screen, asks, settled)
<1> DEFINE a == AtLast(box, screen)
           none == Between(a, a)
<1>1. a \in 0 .. Len(L) BY Positions DEF Follows
<1>2. a \in 0 .. Len(L2) /\ a \in 0 .. a /\ a <= a BY <1>1
<1>3. DOMAIN L \subseteq DOMAIN L2 OBVIOUS
<1>4. R \in SUBSET DOMAIN L2 /\ \A n \in R : n \in R \/ (a < n /\ n <= a) BY <1>3
<1>5. none = <<>> BY <1>1 DEF Between
<1>6. box \o <<>> = box BY ConcatEmptySeq
<1> HIDE DEF a
<1>7. Follows(L2, R, box \o none, screen, asks, settled)
  BY <1>2, <1>4, EventsFollow DEF a
<1> QED BY <1>5, <1>6, <1>7

LEMMA RelayedTyped ==
    ASSUME Typed
    PROVE  Relayed \in SUBSET DOMAIN log /\ \A d : (d \notin late) \in BOOLEAN
BY DEF Relayed

LEMMA TailAsks ==
    ASSUME NEW asks \in Seq(Asked), asks # <<>>, NEW box, NEW screen,
           AsksBehind(asks, box, screen)
    PROVE  Tail(asks) \in Seq(Asked) /\ AsksBehind(Tail(asks), box, screen)
<1>1. Tail(asks) \in Seq(Asked) /\ Len(Tail(asks)) = Len(asks) - 1
  BY HeadTailProperties, EmptySeq
<1>2. \A i \in 1 .. Len(Tail(asks)) : i + 1 \in 1 .. Len(asks) /\ Tail(asks)[i] = asks[i + 1]
  BY <1>1
<1>3. DOMAIN Tail(asks) = 1 .. Len(Tail(asks)) /\ DOMAIN asks = 1 .. Len(asks) BY <1>1
<1> QED BY <1>1, <1>2, <1>3 DEF AsksBehind

\* The screen's position is all that a request depends on.
LEMMA AsksStill ==
    ASSUME NEW asks, NEW box, NEW screen, NEW screen2, AsksBehind(asks, box, screen),
           screen2.seq = screen.seq
    PROVE  AsksBehind(asks, box, screen2)
BY DEF AsksBehind, AtLast, At

\* What a snapshot brings to a player that is not ahead of the stream.
LEMMA SnapshotSent ==
    ASSUME Typed, NEW box \in Seq(Sent(log)), NEW screen \in Screens(log), NEW asks \in Seq(Asked),
           NEW settled \in BOOLEAN, InStep(box, screen), AsksBehind(asks, box, screen),
           NEW news \in {<<Snapshot>>, <<Required, Snapshot>>}
    PROVE  Follows(log, DOMAIN log, box \o news, screen, asks, settled)
<1> DEFINE snap == Snapshot
<1>1. log \in Seq(Kinds) BY DEF Typed
<1>2. snap \in Snapshots(log) /\ snap.seq = Len(log)
      /\ \A kind \in Screened : \A n \in Marks(log, kind) : Field(snap, kind) >= n
  BY <1>1, SnapshotTyped
<1>3. \A i \in DOMAIN asks : asks[i] # Subscribe => asks[i].from <= Len(log)
  <2>1. AtLast(box, screen) \in 0 .. Len(log) BY <1>1, Positions
  <2> TAKE i \in DOMAIN asks
  <2> HAVE asks[i] # Subscribe
  <2>2. asks[i] \in Asked OBVIOUS
  <2>3. asks[i].from \in Nat /\ asks[i].from <= AtLast(box, screen)
    BY <2>2, AskCases DEF AsksBehind
  <2> QED BY <1>1, <2>1, <2>3
<1>4. news \in {<<snap>>, <<Required, snap>>} OBVIOUS
<1> HIDE DEF snap
<1> QED BY <1>1, <1>2, <1>3, <1>4, SnapshotFollows

\* A replay from where the player is, or will be, leaves it following.
LEMMA ReplayFollows ==
    ASSUME Typed, NEW R \in SUBSET DOMAIN log, NEW box \in Seq(Sent(log)),
           NEW screen \in Screens(log), NEW asks \in Seq(Asked), NEW settled \in BOOLEAN,
           Follows(log, R, box, screen, asks, settled),
           NEW from \in Nat, from <= AtLast(box, screen)
    PROVE  Follows(log, R, box \o ResyncAnswer(from), screen, asks, settled)
<1>1. log \in Seq(Kinds) BY DEF Typed
<1>2. AtLast(box, screen) \in 0 .. Len(log) BY <1>1, Positions DEF Follows
<1>3. CASE ResyncAnswer(from) = <<>>
  <2>1. box \o <<>> = box BY ConcatEmptySeq
  <2> QED BY <1>3, <2>1
<1>4. CASE ResyncAnswer(from) = <<Required, Snapshot>>
  <2> DEFINE all == box \o <<Required, Snapshot>>
  <2>1. InStep(box, screen) /\ AsksBehind(asks, box, screen) BY DEF Follows
  <2>2. Follows(log, DOMAIN log, all, screen, asks, settled) BY <2>1, SnapshotSent
  <2>3. all \in Seq(Sent(log))
    <3>1. Snapshot \in Sent(log) /\ Required \in Sent(log) BY <1>1, SnapshotTyped DEF Sent
    <3>2. <<Required, Snapshot>> \in Seq(Sent(log)) BY <3>1
    <3> QED BY <3>2, ConcatProperties
  <2> HIDE DEF all
  <2>4. AsksBehind(asks, all, screen) BY <2>2 DEF Follows
  <2>5. /\ screen.queue \in Nat /\ screen.playback \in Nat
    BY <1>1, MarksBounds DEF Screens
  <2>6. screen.queue >= screen.queue /\ screen.playback >= screen.playback BY <2>5
  <2>7. DOMAIN log \in SUBSET DOMAIN log /\ R \in SUBSET DOMAIN log OBVIOUS
  <2>8. Follows(log, R, all, screen, asks, settled)
    BY <1>1, <2>2, <2>3, <2>4, <2>6, <2>7, FollowsStill
  <2> QED BY <1>4, <2>8 DEF all
<1>5. CASE from < Len(log) /\ ResyncAnswer(from) = Events(from + 1 .. Len(log))
  <2> DEFINE b == Len(log)
  <2>1. b \in 0 .. Len(log) /\ from \in 0 .. b /\ AtLast(box, screen) <= b /\ from <= b
    BY <1>1, <1>2, <1>5
  <2>2. ResyncAnswer(from) = Between(from, b) BY <1>5, <2>1, EventsOfInterval
  <2>3. Len(log) <= Len(log) /\ \A n \in DOMAIN log : log[n] = log[n] BY <1>1
  <2>4. \A n \in R : n \in R \/ (from < n /\ n <= b) OBVIOUS
  <2> HIDE DEF b
  <2>5. Follows(log, R, box \o Between(from, b), screen, asks, settled)
    BY <1>1, <2>1, <2>3, <2>4, EventsFollow
  <2> QED BY <2>2, <2>5
<1>6. ~(from >= Len(log)) => from < Len(log) BY <1>1
<1> QED BY <1>3, <1>4, <1>5, <1>6 DEF ResyncAnswer

\* The events that the hub sends with publish are followed by all subscribers.
LEMMA PublishAll ==
    ASSUME Typed, Typed', Wired', cursor' = cursor, NEW kinds \in Seq(Kinds),
           NEW boxes \in [Clients -> Seq(Sent(log))], Publish(kinds, subscribed', boxes), ~raced',
           \A d \in subscribed' :
               /\ client'[d] = client[d]
               /\ Follows(log, DOMAIN log, boxes[d], client[d], outbox'[d], d \notin late')
    PROVE  /\ Waiting'
           /\ \A d \in subscribed' :
                  Follows(log', Relayed', inbox'[d], client'[d], outbox'[d], d \notin late')
<1>1. Relayed' = DOMAIN log' /\ Waiting' BY PublishRelayed
<1>2. ASSUME NEW d \in subscribed'
      PROVE  Follows(log', DOMAIN log', inbox'[d], client'[d], outbox'[d], d \notin late')
  <2> DEFINE settled == d \notin late'
             screen  == client[d]
             asks    == outbox'[d]
  <2>1. d \in Clients BY DEF Wired
  <2>2. screen \in Screens(log) /\ asks \in Seq(Asked) BY <2>1 DEF Typed
  <2>3. settled \in BOOLEAN OBVIOUS
  <2>4. Follows(log, DOMAIN log, boxes[d], screen, asks, settled) /\ client'[d] = screen OBVIOUS
  <2> HIDE DEF settled, screen, asks
  <2>5. Follows(log', DOMAIN log', inbox'[d], screen, asks, settled)
    BY <2>1, <2>2, <2>3, <2>4, PublishFollows
  <2> QED BY <2>4, <2>5 DEF settled, asks
<1> QED BY <1>1, <1>2

\* A step of the player that neither receives nor closes the socket.
LEMMA PlayerFollows ==
    ASSUME Typed, Wired, Unraced, Typed', Wired', NEW c \in Clients,
           UNCHANGED <<log, cursor, mine, subscribed, inbox, outbox>>,
           NEW s \in Screens(log), client' = [client EXCEPT ![c] = s],
           client[c].open => s.seq = client[c].seq,
           \A d \in Clients \ {c} : d \in late' <=> d \in late,
           client[c].open /\ c \notin late' =>
               c \notin late /\ s.queue >= client[c].queue /\ s.playback >= client[c].playback
    PROVE  Unraced'
<1>1. Waiting' /\ Relayed' = Relayed BY StillRelayed DEF Unraced
<1>2. \A d \in Clients : client'[d] = IF d = c THEN s ELSE client[d] BY DEF Typed
<1>3. ASSUME NEW d \in subscribed
      PROVE  Follows(log, Relayed, inbox[d], client'[d], outbox[d], d \notin late')
  <2>1. d \in Clients /\ client[d].open BY DEF Wired
  <2>2. Follows(log, Relayed, inbox[d], client[d], outbox[d], d \notin late) BY DEF Unraced
  <2>3. CASE d # c BY <1>2, <2>1, <2>2, <2>3
  <2>4. CASE d = c
    <3> DEFINE box      == inbox[c]
               asks     == outbox[c]
               screen   == client[c]
               settled  == c \notin late
               settled2 == c \notin late'
               R        == Relayed
    <3>1. /\ log \in Seq(Kinds) /\ box \in Seq(Sent(log)) /\ screen \in Screens(log)
          /\ R \in SUBSET DOMAIN log /\ R \in SUBSET R
          /\ settled \in BOOLEAN /\ settled2 \in BOOLEAN
      BY RelayedTyped DEF Typed
    <3>2. Follows(log, R, box, screen, asks, settled) BY <2>2, <2>4
    <3>3. AsksBehind(asks, box, screen) BY <3>2 DEF Follows
    <3>4. s.seq = screen.seq BY <2>1, <2>4
    <3>5. settled2 => settled /\ s.queue >= screen.queue /\ s.playback >= screen.playback
      BY <2>1, <2>4
    <3> HIDE DEF box, asks, screen, settled, settled2, R
    <3>6. Follows(log, R, box, s, asks, settled2)
      BY <3>1, <3>2, <3>3, <3>4, <3>5, FollowsStill
    <3> QED BY <1>2, <2>1, <2>4, <3>6 DEF box, asks, settled2, R
  <2> QED BY <2>3, <2>4
<1>4. ASSUME NEW d \in Clients PROVE AsksBehind(outbox[d], inbox[d], client'[d])
  <2>1. AsksBehind(outbox[d], inbox[d], client[d]) BY DEF Unraced
  <2>2. CASE d # c \/ client[c].open
    <3>1. client'[d].seq = client[d].seq BY <1>2, <2>2
    <3> QED BY <2>1, <3>1, AsksStill
  <2>3. CASE d = c /\ ~client[c].open
    <3>1. outbox[d] = <<>> BY <2>3 DEF Wired
    <3> QED BY <3>1, NothingAsked
  <2> QED BY <2>2, <2>3
<1> QED BY <1>1, <1>3, <1>4 DEF Unraced

\* A closed socket carries nothing, and its end is announced to the others.
LEMMA ClosedFollows ==
    ASSUME Typed, Wired, Unraced, Typed', Wired', NEW c \in Clients,
           Closed(c), ~raced', UNCHANGED <<cursor, late>>,
           \A d \in Clients \ {c} : client'[d] = client[d]
    PROVE  Unraced'
<1> DEFINE boxes == [inbox EXCEPT ![c] = <<>>]
           note  == <<"notice">>
<1>1. /\ subscribed' = subscribed \ {c} /\ outbox'[c] = <<>>
      /\ \A d \in Clients \ {c} : outbox'[d] = outbox[d]
  BY DEF Closed, Typed
<1>2. /\ boxes \in [Clients -> Seq(Sent(log))] /\ \A d \in Clients \ {c} : boxes[d] = inbox[d]
  BY EmptySeq DEF Typed
<1>3. \A d \in Clients \ subscribed' : inbox'[d] = IF d = c THEN <<>> ELSE inbox[d]
  BY ClosedBoxes
<1>4. \A d \in subscribed' :
          d \in Clients /\ d # c /\ d \in subscribed /\ client'[d] = client[d]
          /\ boxes[d] = inbox[d] /\ outbox'[d] = outbox[d] /\ (d \notin late') = (d \notin late)
  BY <1>1, <1>2 DEF Wired
<1>5. \A d \in subscribed' :
          Follows(log, Relayed, boxes[d], client[d], outbox'[d], d \notin late')
  BY <1>4 DEF Unraced
<1>6. /\ Waiting'
      /\ \A d \in subscribed' :
             Follows(log', Relayed', inbox'[d], client'[d], outbox'[d], d \notin late')
  <2>1. CASE c \in subscribed
    <3>1. Publish(note, subscribed', boxes) /\ note \in Seq(Kinds)
      BY <2>1, PublicationKinds DEF Closed
    <3> HIDE DEF boxes, note
    <3>2. Relayed = DOMAIN log BY <1>2, <3>1, PublishRelayed
    <3> QED BY <1>2, <1>4, <1>5, <3>1, <3>2, PublishAll
  <2>2. CASE c \notin subscribed
    <3>1. inbox' = boxes /\ UNCHANGED <<log, mine>> BY <2>2 DEF Closed
    <3>2. Waiting' /\ Relayed' = Relayed BY <3>1, StillRelayed DEF Unraced
    <3> HIDE DEF boxes
    <3> QED BY <1>4, <1>5, <3>1, <3>2
  <2> QED BY <2>1, <2>2
<1>7. ASSUME NEW d \in Clients PROVE AsksBehind(outbox'[d], inbox'[d], client'[d])
  <2>1. CASE d \in subscribed' BY <1>6, <2>1 DEF Follows
  <2>2. CASE d = c BY <1>1, <2>2, NothingAsked
  <2>3. CASE d \notin subscribed' /\ d # c
    <3>1. outbox'[d] = outbox[d] /\ inbox'[d] = inbox[d] /\ client'[d] = client[d]
      BY <1>1, <1>3, <2>3
    <3> QED BY <3>1 DEF Unraced
  <2> QED BY <2>1, <2>2, <2>3
<1> QED BY <1>6, <1>7 DEF Unraced

LEMMA FollowsNext ==
    ASSUME Typed, Wired, Unraced, Typed', Wired', Next, ~raced'
    PROVE  Unraced'
<1>1. ASSUME HubCommits PROVE Unraced'
  <2>1. PICK kinds \in Publications : Publish(kinds, subscribed, inbox) BY <1>1 DEF HubCommits
  <2>2. kinds \in Seq(Kinds) /\ inbox \in [Clients -> Seq(Sent(log))]
    BY PublicationKinds DEF Typed
  <2>3. UNCHANGED <<cursor, subscribed, outbox, client, late>> BY <1>1 DEF HubCommits
  <2>4. Relayed = DOMAIN log BY <2>1, <2>2, <2>3, PublishRelayed
  <2>5. Publish(kinds, subscribed', inbox) BY <2>1, <2>3
  <2>6. \A d \in subscribed' :
            /\ client'[d] = client[d]
            /\ Follows(log, DOMAIN log, inbox[d], client[d], outbox'[d], d \notin late')
    BY <2>3, <2>4 DEF Unraced
  <2>7. /\ Waiting'
        /\ \A d \in subscribed' :
               Follows(log', Relayed', inbox'[d], client'[d], outbox'[d], d \notin late')
    BY <2>2, <2>3, <2>5, <2>6, PublishAll
  <2>8. ASSUME NEW d \in Clients PROVE AsksBehind(outbox'[d], inbox'[d], client'[d])
    <3>1. CASE d \in subscribed' BY <2>7, <3>1 DEF Follows
    <3>2. CASE d \notin subscribed'
      <4>1. inbox'[d] = inbox[d] BY <2>1, <2>2, <2>3, <3>2, Publishes
      <4> QED BY <2>3, <4>1 DEF Unraced
    <3> QED BY <3>1, <3>2
  <2> QED BY <2>7, <2>8 DEF Unraced
<1>2. ASSUME WorkerCommits PROVE Unraced'
  <2>1. PICK kinds \in Publications : log' = log \o kinds BY <1>2 DEF WorkerCommits, Publications
  <2>2. kinds \in Seq(Kinds) /\ log \in Seq(Kinds) BY PublicationKinds DEF Typed
  <2>3. /\ log' \in Seq(Kinds) /\ Len(log) <= Len(log') /\ \A n \in DOMAIN log : log'[n] = log[n]
        /\ Len(log) \in Nat /\ Len(log') \in Nat
        /\ DOMAIN log = 1 .. Len(log) /\ DOMAIN log' = 1 .. Len(log')
    BY <2>1, <2>2
  <2>4. UNCHANGED <<up, cursor, mine, subscribed, inbox, outbox, client, late>>
    BY <1>2 DEF WorkerCommits, wires
  <2>5. \A d \in Clients : AsksBehind(outbox'[d], inbox'[d], client'[d]) BY <2>4 DEF Unraced
  <2>6. CASE cursor = Unpolled
    <3>1. subscribed' = {} BY <1>2, <2>4, <2>6 DEF WorkerCommits, Wired
    <3>2. Unrelayed' = {} BY <2>4, <2>6 DEF Unrelayed
    <3>3. Len(log') \in 0 .. Len(log') /\ {} = Len(log') + 1 .. Len(log') BY <2>3
    <3> QED BY <2>5, <3>1, <3>2, <3>3 DEF Unraced, Waiting
  <2>7. CASE cursor # Unpolled
    <3>1. cursor \in 0 .. Len(log) /\ mine \subseteq DOMAIN log BY <2>7 DEF Typed
    <3>2. PICK k \in 0 .. Len(log) : Unrelayed = k + 1 .. Len(log) BY DEF Unraced, Waiting
    <3>3. (cursor + 1 .. Len(log)) \ mine = k + 1 .. Len(log) BY <2>7, <3>2 DEF Unrelayed
    <3>4. ASSUME NEW n
          PROVE  n \in (cursor + 1 .. Len(log')) \ mine <=> n \in k + 1 .. Len(log')
      <4>1. CASE n \in 1 .. Len(log)
        <5>1. n \in (cursor + 1 .. Len(log)) \ mine <=> n \in k + 1 .. Len(log) BY <3>3
        <5> QED BY <2>3, <3>1, <3>2, <4>1, <5>1
      <4>2. CASE n \notin 1 .. Len(log)
        <5>1. n \notin mine BY <2>3, <3>1, <4>2
        <5> QED BY <2>3, <3>1, <3>2, <4>2, <5>1
      <4> QED BY <4>1, <4>2
    <3>5. Unrelayed' = k + 1 .. Len(log') BY <2>4, <2>7, <3>4 DEF Unrelayed
    <3>6. Waiting' /\ Relayed' = Relayed
      <4>1. k \in 0 .. Len(log') BY <2>3, <3>2
      <4>2. (1 .. Len(log')) \ (k + 1 .. Len(log')) = (1 .. Len(log)) \ (k + 1 .. Len(log))
        BY <2>3, <3>2
      <4> QED BY <2>3, <3>2, <3>5, <4>1, <4>2 DEF Waiting, Relayed
    <3>7. ASSUME NEW d \in subscribed
          PROVE  Follows(log', Relayed, inbox[d], client[d], outbox[d], d \notin late)
      <4> DEFINE R       == Relayed
                 box     == inbox[d]
                 screen  == client[d]
                 asks    == outbox[d]
                 settled == d \notin late
      <4>1. d \in Clients BY DEF Wired
      <4>2. box \in Seq(Sent(log)) /\ screen \in Screens(log) /\ asks \in Seq(Asked)
        BY <4>1 DEF Typed
      <4>3. R \in SUBSET DOMAIN log /\ settled \in BOOLEAN BY RelayedTyped
      <4>4. Follows(log, R, box, screen, asks, settled) BY DEF Unraced
      <4>5. Len(log) <= Len(log') /\ \A n \in DOMAIN log : log'[n] = log[n] BY <2>3
      <4> HIDE DEF R, box, screen, asks, settled
      <4>6. Follows(log', R, box, screen, asks, settled)
        BY <2>2, <2>3, <4>2, <4>3, <4>4, <4>5, WorkerFollows
      <4> QED BY <4>6 DEF R, box, screen, asks, settled
    <3> QED BY <2>4, <2>5, <3>6, <3>7 DEF Unraced
  <2> QED BY <2>6, <2>7
<1>3. ASSUME Relay PROVE Unraced'
  <2>1. /\ UNCHANGED <<log, subscribed, outbox, client, late>> /\ cursor' = Len(log)
        /\ \A n \in Unrelayed : ~(n < Oldest)
    BY <1>3 DEF Relay
  <2>2. /\ log \in Seq(Kinds) /\ Len(log) \in Nat /\ DOMAIN log = 1 .. Len(log)
        /\ Len(log) # Unpolled
    <3>1. log \in Seq(Kinds) /\ Len(log) \in Nat BY DEF Typed
    <3> QED BY <3>1, StreamAssumption
  <2>3. Unrelayed' = {} BY <2>1, <2>2 DEF Unrelayed
  <2>4. Waiting' /\ Relayed' = DOMAIN log
    <3>1. Len(log) \in 0 .. Len(log) /\ {} = Len(log) + 1 .. Len(log) BY <2>2
    <3> QED BY <2>1, <2>3, <3>1 DEF Waiting, Relayed
  <2>5. CASE cursor = Unpolled
    <3>1. inbox' = inbox /\ Unrelayed = {} BY <1>3, <2>5 DEF Relay, Unrelayed
    <3>2. Relayed = DOMAIN log BY <3>1 DEF Relayed
    <3> QED BY <2>1, <2>4, <3>1, <3>2 DEF Unraced
  <2>6. CASE cursor # Unpolled
    <3>1. PICK k \in 0 .. Len(log) : Unrelayed = k + 1 .. Len(log) BY DEF Unraced, Waiting
    <3>2. {n \in Unrelayed : n >= Oldest} = Unrelayed
      <4>1. Oldest \in Int
        <5> DEFINE first == Len(log) - RingSize + 1
        <5>1. first \in Int BY <2>2, StreamAssumption
        <5> HIDE DEF first
        <5>2. \E n \in {1, first} : \A m \in {1, first} : n >= m BY <5>1
        <5>3. Max({1, first}) \in {1, first} BY <5>2 DEF Max
        <5> QED BY <5>1, <5>3 DEF Oldest, first
      <4> QED BY <2>1, <2>2, <3>1, <4>1
    <3>3. Events(Unrelayed) = Between(k, Len(log)) BY <2>2, <3>1, EventsOfInterval
    <3>4. inbox' = Delivered(subscribed, inbox, Between(k, Len(log)))
      BY <1>3, <2>6, <3>2, <3>3 DEF Relay
    <3>5. Relayed = 1 .. k /\ Relayed \cup (k + 1 .. Len(log)) = DOMAIN log
      <4>1. (1 .. Len(log)) \ (k + 1 .. Len(log)) = 1 .. k BY <2>2, <3>1
      <4>2. (1 .. k) \cup (k + 1 .. Len(log)) = 1 .. Len(log) BY <2>2, <3>1
      <4> QED BY <2>2, <3>1, <4>1, <4>2 DEF Relayed
    <3>6. ASSUME NEW d \in subscribed
          PROVE  Follows(log, DOMAIN log, inbox'[d], client[d], outbox[d], d \notin late)
      <4> DEFINE R       == Relayed
                 settled == d \notin late
      <4>1. d \in Clients BY DEF Wired
      <4>2. /\ inbox[d] \in Seq(Sent(log)) /\ client[d] \in Screens(log)
            /\ outbox[d] \in Seq(Asked)
        BY <4>1 DEF Typed
      <4>3. R \in SUBSET DOMAIN log /\ settled \in BOOLEAN BY RelayedTyped
      <4>4. Follows(log, R, inbox[d], client[d], outbox[d], settled) BY DEF Unraced
      <4>5. inbox'[d] = inbox[d] \o Between(k, Len(log)) BY <3>4, <4>1 DEF Delivered
      <4>6. (\A n \in R : n <= k) /\ (k # 0 => k \in R) BY <2>2, <3>1, <3>5
      <4>7. R \cup (k + 1 .. Len(log)) = DOMAIN log BY <3>5
      <4> HIDE DEF R, settled
      <4>8. Len(log) <= Len(log) /\ \A n \in DOMAIN log : log[n] = log[n] BY <2>2
      <4>9. Follows(log, R \cup (k + 1 .. Len(log)), inbox[d] \o Between(k, Len(log)),
                    client[d], outbox[d], settled)
        BY <2>2, <3>1, <4>2, <4>3, <4>4, <4>6, <4>8, NewsFollow
      <4> QED BY <4>5, <4>7, <4>9 DEF settled
    <3>7. ASSUME NEW d \in Clients PROVE AsksBehind(outbox'[d], inbox'[d], client'[d])
      <4>1. CASE d \in subscribed BY <2>1, <3>6, <4>1 DEF Follows
      <4>2. CASE d \notin subscribed
        <5>1. inbox'[d] = inbox[d] BY <3>4, <4>2 DEF Delivered
        <5> QED BY <2>1, <5>1 DEF Unraced
      <4> QED BY <4>1, <4>2
    <3> QED BY <2>1, <2>4, <3>6, <3>7 DEF Unraced
  <2> QED BY <2>5, <2>6
<1>4. ASSUME Crash PROVE Unraced'
  <2>1. cursor' = Unpolled /\ subscribed' = {} /\ outbox' = [c \in Clients |-> <<>>]
    BY <1>4 DEF Crash
  <2>2. log' \in Seq(Kinds) /\ Unrelayed' = {} BY <2>1 DEF Typed, Unrelayed
  <2>3. Len(log') \in 0 .. Len(log') /\ {} = Len(log') + 1 .. Len(log') BY <2>2
  <2>4. \A d \in Clients : AsksBehind(outbox'[d], inbox'[d], client'[d])
    BY <2>1, NothingAsked
  <2> QED BY <2>1, <2>2, <2>3, <2>4 DEF Unraced, Waiting
<1>5. ASSUME UNCHANGED <<log, cursor, mine, subscribed, inbox, outbox, client, late>>
      PROVE  Unraced'
  BY <1>5, StillRelayed DEF Unraced
<1>6. ASSUME Restart PROVE Unraced' BY <1>5, <1>6 DEF Restart, wires
<1>7. ASSUME NEW c \in Clients, HttpReads(c) PROVE Unraced'
  BY <1>5, <1>7 DEF HttpReads, hub, wires
<1>8. ASSUME NEW c \in Clients, HttpArrives(c) PROVE Unraced'
  <2>1. UNCHANGED <<log, cursor, mine, subscribed, inbox, outbox>>
    BY <1>8 DEF HttpArrives, hub, wires
  <2>2. PICK s \in Screens(log) :
            /\ client' = [client EXCEPT ![c] = s] /\ s.seq = client[c].seq
            /\ late' = IF client[c].open /\ (\/ s.queue < client[c].queue
                                             \/ s.playback < client[c].playback)
                       THEN late \cup {c} ELSE late
    BY <1>8, ArrivesIs
  <2>3. \A d \in Clients \ {c} : d \in late' <=> d \in late BY <2>2
  <2>4. client[c].open /\ c \notin late' =>
            c \notin late /\ s.queue >= client[c].queue /\ s.playback >= client[c].playback
    <3>1. client[c] \in Screens(log) /\ log \in Seq(Kinds) BY DEF Typed
    <3>2. /\ s.queue \in Nat /\ s.playback \in Nat
          /\ client[c].queue \in Nat /\ client[c].playback \in Nat
      BY <3>1, MarksBounds DEF Screens
    <3> QED BY <2>2, <3>2
  <2> QED BY <2>1, <2>2, <2>3, <2>4, PlayerFollows
<1>9. ASSUME NEW c \in Clients, NEW s \in Screens(log), client' = [client EXCEPT ![c] = s],
             UNCHANGED <<log, cursor, mine, subscribed, inbox, outbox, late>>,
             client[c].open => s.seq = client[c].seq,
             s.queue = client[c].queue, s.playback = client[c].playback
      PROVE  Unraced'
  <2>1. client[c] \in Screens(log) /\ log \in Seq(Kinds) BY DEF Typed
  <2>2. client[c].queue \in Nat /\ client[c].playback \in Nat
    BY <2>1, MarksBounds DEF Screens
  <2>3. s.queue >= client[c].queue /\ s.playback >= client[c].playback BY <1>9, <2>2
  <2> QED BY <1>9, <2>3, PlayerFollows
<1>10. ASSUME NEW c \in Clients, HttpFails(c) PROVE Unraced'
  <2>1. UNCHANGED <<log, cursor, mine, subscribed, inbox, outbox, late>>
    BY <1>10 DEF HttpFails, hub, wires
  <2> QED BY <1>9, <1>10, <2>1, FailsIs
<1>11. ASSUME NEW c \in Clients, Open(c) PROVE Unraced'
  <2>1. UNCHANGED <<log, cursor, mine, subscribed, inbox, outbox, late>>
    BY <1>11 DEF Open, hub, wires
  <2>2. client[c].open => client[c].joined BY DEF Wired
  <2> QED BY <1>9, <1>11, <2>1, <2>2, OpenIs
<1>12. ASSUME NEW c \in Clients, ConnectFails(c) PROVE Unraced'
  <2>1. UNCHANGED <<log, cursor, mine, subscribed, inbox, outbox, late>>
    BY <1>12 DEF ConnectFails, hub, wires
  <2> DEFINE s == [client[c] EXCEPT !.retrying = TRUE]
  <2>2. client[c] \in Screens(log) BY DEF Typed
  <2>3. client' = [client EXCEPT ![c] = s] BY <1>12 DEF ConnectFails
  <2>4. /\ s \in Screens(log) /\ s.seq = client[c].seq
        /\ s.queue = client[c].queue /\ s.playback = client[c].playback
    BY <2>2 DEF Screens
  <2> HIDE DEF s
  <2> QED BY <1>9, <2>1, <2>3, <2>4
<1>13. ASSUME NEW c \in Clients, Connect(c) PROVE Unraced'
  <2>1. /\ client' = [client EXCEPT ![c].open = TRUE, ![c].retrying = FALSE]
        /\ outbox' = [outbox EXCEPT ![c] = Requests(c)] /\ ~client[c].open
        /\ UNCHANGED <<log, cursor, mine, subscribed, inbox, late>>
    BY <1>13 DEF Connect, hub
  <2>2. c \notin subscribed /\ inbox[c] = <<>> BY <2>1 DEF Wired
  <2>3. Waiting' /\ Relayed' = Relayed BY <2>1, StillRelayed DEF Unraced
  <2>4. \A d \in Clients \ {c} : client'[d] = client[d] /\ outbox'[d] = outbox[d]
    BY <2>1 DEF Typed
  <2>5. \A d \in subscribed : d \in Clients \ {c} BY <2>2 DEF Wired
  <2>6. AsksBehind(outbox'[c], inbox'[c], client'[c])
    <3>1. client[c] \in Screens(log) BY DEF Typed
    <3>2. client'[c].seq = client[c].seq /\ client[c].seq \in Nat
      BY <2>1, <3>1 DEF Typed, Screens
    <3>3. AtLast(inbox'[c], client'[c]) = client[c].seq
      <4>1. Len(inbox'[c]) = 0 BY <2>1, <2>2
      <4> QED BY <3>2, <4>1 DEF AtLast, At
    <3>4. outbox'[c] = Requests(c) BY <2>1 DEF Typed
    <3>5. Resync(client[c].seq).from <= client[c].seq BY <3>2 DEF Resync
    <3>6. ASSUME NEW i \in DOMAIN Requests(c), Requests(c)[i] # Subscribe
          PROVE  Requests(c)[i] = Resync(client[c].seq)
      BY <3>6 DEF Requests
    <3> QED BY <3>3, <3>4, <3>5, <3>6 DEF AsksBehind
  <2> QED BY <2>1, <2>3, <2>4, <2>5, <2>6 DEF Unraced
<1>14. ASSUME NEW c \in Clients, HubReceives(c) PROVE Unraced'
  <2>1. /\ UNCHANGED <<up, cursor, client, late>> /\ outbox[c] # <<>>
        /\ subscribed' = subscribed \cup {c}
        /\ outbox' = [outbox EXCEPT ![c] = Tail(@)]
    BY <1>14 DEF HubReceives, HubSubscribes, HubReplays
  <2> DEFINE box     == inbox[c]
             asks    == Tail(outbox[c])
             screen  == client[c]
             settled == c \notin late
  <2>2. /\ log \in Seq(Kinds) /\ box \in Seq(Sent(log)) /\ screen \in Screens(log)
        /\ settled \in BOOLEAN /\ outbox[c] \in Seq(Asked)
        /\ Head(outbox[c]) = outbox[c][1] /\ 1 \in DOMAIN outbox[c] /\ outbox[c][1] \in Asked
    BY <2>1 DEF Typed
  <2>3. asks \in Seq(Asked) /\ AsksBehind(asks, box, screen)
    BY <2>1, <2>2, TailAsks DEF Unraced
  <2>4. outbox'[c] = asks /\ \A d \in Clients \ {c} : outbox'[d] = outbox[d]
    BY <2>1 DEF Typed
  <2>5. client[c].open BY <2>1 DEF Wired
  <2>6. CASE HubSubscribes(c)
    <3> DEFINE boxes == Delivered({c}, inbox, <<Snapshot>>)
               note  == <<"notice">>
    <3>1. /\ boxes \in [Clients -> Seq(Sent(log))]
          /\ \A d \in Clients : boxes[d] = IF d = c THEN inbox[d] \o <<Snapshot>> ELSE inbox[d]
      BY SnapshotBoxes
    <3>2. Publish(note, subscribed', boxes) /\ note \in Seq(Kinds)
      BY <2>6, PublicationKinds DEF HubSubscribes
    <3> HIDE DEF boxes, note
    <3>3. Relayed = DOMAIN log BY <2>1, <3>1, <3>2, PublishRelayed
    <3>4. InStep(box, screen)
      <4>1. CASE c \in subscribed BY <4>1 DEF Unraced, Follows
      <4>2. CASE c \notin subscribed
        <5>1. box = <<>> BY <4>2 DEF Wired
        <5> QED BY <5>1 DEF InStep
      <4> QED BY <4>1, <4>2
    <3>5. Follows(log, DOMAIN log, boxes[c], screen, asks, settled)
      <4> DEFINE news == <<Snapshot>>
      <4>1. boxes[c] = box \o news /\ news \in {<<Snapshot>>, <<Required, Snapshot>>} BY <3>1
      <4> HIDE DEF news, box, asks, screen, settled
      <4>2. Follows(log, DOMAIN log, box \o news, screen, asks, settled)
        BY <2>2, <2>3, <3>4, <4>1, SnapshotSent
      <4> QED BY <4>1, <4>2
    <3>6. \A d \in subscribed' :
              /\ client'[d] = client[d]
              /\ Follows(log, DOMAIN log, boxes[d], client[d], outbox'[d], d \notin late')
      <4> TAKE d \in subscribed'
      <4>1. CASE d = c BY <2>1, <2>4, <3>5, <4>1
      <4>2. CASE d # c
        <5>1. d \in Clients /\ d \in subscribed BY <2>1, <4>2 DEF Wired
        <5>2. boxes[d] = inbox[d] /\ outbox'[d] = outbox[d] BY <2>4, <3>1, <4>2, <5>1
        <5>3. Follows(log, Relayed, inbox[d], client[d], outbox[d], d \notin late)
          BY <5>1 DEF Unraced
        <5> QED BY <2>1, <3>3, <5>2, <5>3
      <4> QED BY <4>1, <4>2
    <3>7. /\ Waiting'
          /\ \A d \in subscribed' :
                 Follows(log', Relayed', inbox'[d], client'[d], outbox'[d], d \notin late')
      BY <2>1, <3>1, <3>2, <3>6, PublishAll
    <3>8. ASSUME NEW d \in Clients PROVE AsksBehind(outbox'[d], inbox'[d], client'[d])
      <4>1. CASE d \in subscribed' BY <3>7, <4>1 DEF Follows
      <4>2. CASE d \notin subscribed'
        <5>1. d # c /\ inbox'[d] = boxes[d] BY <2>1, <3>1, <3>2, <4>2, Publishes
        <5>2. inbox'[d] = inbox[d] /\ outbox'[d] = outbox[d] /\ client'[d] = client[d]
          BY <2>1, <2>4, <3>1, <5>1
        <5> QED BY <5>2 DEF Unraced
      <4> QED BY <4>1, <4>2
    <3> QED BY <3>7, <3>8 DEF Unraced
  <2>7. CASE Head(outbox[c]) # Subscribe /\ HubReplays(c, Head(outbox[c]).from)
    <3> DEFINE from == Head(outbox[c]).from
               R    == Relayed
    <3>1. c \in subscribed /\ subscribed' = subscribed BY <2>1, <2>2, <2>5, <2>7 DEF Wired
    <3>2. from \in Nat /\ from <= AtLast(box, screen)
      <4>1. AsksBehind(outbox[c], box, screen) BY DEF Unraced
      <4>2. outbox[c][1] # Subscribe BY <2>2, <2>7
      <4>3. outbox[c][1].from \in Nat BY <2>2, <4>2, AskCases
      <4>4. outbox[c][1].from <= AtLast(box, screen) BY <2>2, <4>1, <4>2 DEF AsksBehind
      <4> QED BY <2>2, <4>3, <4>4
    <3>3. /\ UNCHANGED <<log, mine>>
          /\ inbox' = Delivered({c}, inbox, ResyncAnswer(from))
      BY <2>7 DEF HubReplays
    <3>4. Waiting' /\ Relayed' = Relayed BY <2>1, <3>3, StillRelayed DEF Unraced
    <3>5. /\ inbox'[c] = box \o ResyncAnswer(from)
          /\ \A d \in Clients \ {c} : inbox'[d] = inbox[d]
      BY <3>3 DEF Delivered
    <3>6. Follows(log, R, box, screen, outbox[c], settled) BY <3>1 DEF Unraced
    <3>7. R \in SUBSET DOMAIN log /\ R \in SUBSET R BY RelayedTyped
    <3>8. screen.queue >= screen.queue /\ screen.playback >= screen.playback
      <4>1. screen.queue \in Nat /\ screen.playback \in Nat BY <2>2, MarksBounds DEF Screens
      <4> QED BY <4>1
    <3> HIDE DEF from, R, box, asks, screen, settled
    <3>9. Follows(log, R, box, screen, asks, settled)
      BY <2>2, <2>3, <3>6, <3>7, <3>8, FollowsStill
    <3>10. Follows(log, R, box \o ResyncAnswer(from), screen, asks, settled)
      BY <2>2, <2>3, <3>2, <3>7, <3>9, ReplayFollows
    <3>11. ASSUME NEW d \in subscribed'
           PROVE  Follows(log', Relayed', inbox'[d], client'[d], outbox'[d], d \notin late')
      <4>1. d \in Clients /\ d \in subscribed BY <3>1 DEF Wired
      <4>2. CASE d = c BY <2>1, <2>4, <3>3, <3>4, <3>5, <3>10, <4>2 DEF R, screen, settled
      <4>3. CASE d # c
        <5>1. Follows(log, Relayed, inbox[d], client[d], outbox[d], d \notin late)
          BY <4>1 DEF Unraced
        <5>2. inbox'[d] = inbox[d] /\ outbox'[d] = outbox[d] BY <2>4, <3>5, <4>1, <4>3
        <5> QED BY <2>1, <3>3, <3>4, <5>1, <5>2
      <4> QED BY <4>2, <4>3
    <3>12. ASSUME NEW d \in Clients PROVE AsksBehind(outbox'[d], inbox'[d], client'[d])
      <4>1. CASE d = c BY <2>1, <3>1, <3>11, <4>1 DEF Follows
      <4>2. CASE d # c BY <2>1, <2>4, <3>5, <4>2 DEF Unraced
      <4> QED BY <4>1, <4>2
    <3> QED BY <3>4, <3>11, <3>12 DEF Unraced
  <2> QED BY <1>14, <2>6, <2>7 DEF HubReceives
<1>15. ASSUME NEW c \in Clients, Receive(c) PROVE Unraced'
  <2>1. /\ UNCHANGED <<log, cursor, mine, subscribed>> /\ inbox[c] # <<>>
        /\ client' = [client EXCEPT ![c] = Shown(c, Head(inbox[c]))]
        /\ inbox' = [inbox EXCEPT ![c] = Tail(@)]
        /\ outbox' = IF Head(inbox[c]) = Required
                     THEN [outbox EXCEPT ![c] = Append(@, Resync(client[c].seq))] ELSE outbox
        /\ late' = IF Head(inbox[c]).type = "group.snapshot" THEN late \ {c} ELSE late
    BY <1>15 DEF Receive, hub
  <2>2. c \in subscribed /\ Waiting' /\ Relayed' = Relayed
    BY <2>1, StillRelayed DEF Wired, Unraced
  <2> DEFINE box      == inbox[c]
             asks     == outbox[c]
             asks2    == IF box[1] = Required THEN Append(asks, Resync(client[c].seq)) ELSE asks
             screen   == client[c]
             screen2  == Shown(c, box[1])
             settled  == c \notin late
             settled2 == c \notin late'
             R        == Relayed
  <2>3. /\ log \in Seq(Kinds) /\ R \in SUBSET DOMAIN log /\ box \in Seq(Sent(log)) /\ box # <<>>
        /\ screen \in Screens(log) /\ asks \in Seq(Asked)
        /\ settled \in BOOLEAN /\ settled2 \in BOOLEAN
    BY <2>1, RelayedTyped DEF Typed
  <2>4. Head(box) = box[1] /\ box[1] \in Sent(log) BY <2>3
  <2>5. /\ screen2 \in Screens(log)
        /\ screen2.seq = IF box[1] = Required THEN screen.seq ELSE box[1].seq
        /\ \A kind \in Screened :
               Field(screen2, kind) = IF Sets(log, box[1], kind) THEN Brings(box[1], kind)
                                      ELSE Field(screen, kind)
    BY <2>3, <2>4, ShownIs
  <2>6. settled2 => settled \/ box[1].type = "group.snapshot" BY <2>1, <2>4
  <2>7. Follows(log, R, box, screen, asks, settled) BY <2>2 DEF Unraced
  <2>8. /\ client'[c] = screen2 /\ inbox'[c] = Tail(box) /\ outbox'[c] = asks2
        /\ \A d \in Clients \ {c} : /\ client'[d] = client[d] /\ inbox'[d] = inbox[d]
                                    /\ outbox'[d] = outbox[d] /\ (d \in late' <=> d \in late)
    BY <2>1, <2>4 DEF Typed
  <2>9. Follows(log, R, Tail(box), screen2, asks2, settled2)
    <3>1. asks2 = IF box[1] = Required THEN Append(asks, Resync(screen.seq)) ELSE asks OBVIOUS
    <3> HIDE DEF box, asks, asks2, screen, screen2, settled, settled2, R
    <3> QED BY <2>3, <2>5, <2>6, <2>7, <3>1, ReceiveFollows
  <2> HIDE DEF box, asks, asks2, screen, screen2
  <2>10. ASSUME NEW d \in subscribed'
         PROVE  Follows(log', Relayed', inbox'[d], client'[d], outbox'[d], d \notin late')
    <3>1. d \in Clients /\ d \in subscribed BY <2>1 DEF Wired
    <3>2. CASE d = c BY <2>1, <2>2, <2>8, <2>9, <3>2
    <3>3. CASE d # c
      <4>1. Follows(log, Relayed, inbox[d], client[d], outbox[d], d \notin late)
        BY <3>1 DEF Unraced
      <4>2. /\ client'[d] = client[d] /\ inbox'[d] = inbox[d] /\ outbox'[d] = outbox[d]
            /\ (d \notin late') = (d \notin late)
        BY <2>8, <3>1, <3>3
      <4> QED BY <2>1, <2>2, <4>1, <4>2
    <3> QED BY <3>2, <3>3
  <2>11. ASSUME NEW d \in Clients PROVE AsksBehind(outbox'[d], inbox'[d], client'[d])
    <3>1. CASE d = c BY <2>1, <2>2, <2>10, <3>1 DEF Follows
    <3>2. CASE d # c BY <2>8, <3>2 DEF Unraced
    <3> QED BY <3>1, <3>2
  <2> QED BY <2>2, <2>10, <2>11 DEF Unraced
<1>16. ASSUME NEW c \in Clients, Drop(c) PROVE Unraced'
  <2>1. Closed(c) /\ UNCHANGED <<cursor, late>> BY <1>16 DEF Drop
  <2>2. \A d \in Clients \ {c} : client'[d] = client[d] BY <1>16 DEF Drop, Typed
  <2> QED BY <2>1, <2>2, ClosedFollows
<1>17. ASSUME NEW c \in Clients, Leave(c) PROVE Unraced'
  <2>1. Closed(c) /\ UNCHANGED <<cursor, late>> BY <1>17 DEF Leave
  <2>2. \A d \in Clients \ {c} : client'[d] = client[d] BY <1>17 DEF Leave, Typed
  <2> QED BY <2>1, <2>2, ClosedFollows
<1> QED BY <1>1, <1>2, <1>3, <1>4, <1>6, <1>7, <1>8, <1>10, <1>11, <1>12, <1>13, <1>14, <1>15,
           <1>16, <1>17 DEF Next, ClientStep

-----------------------------------------------------------------------------
(***************************************************************************)
(* Theorems.                                                               *)
(***************************************************************************)

LEMMA RacedStays ==
    ASSUME Next, raced
    PROVE  raced'
<1>1. ASSUME NEW kinds, NEW to, NEW boxes, Publish(kinds, to, boxes) PROVE raced'
  BY <1>1 DEF Publish
<1>2. ASSUME NEW c, Closed(c) PROVE raced' BY <1>1, <1>2 DEF Closed
<1>3. CASE HubCommits BY <1>1, <1>3 DEF HubCommits
<1>4. CASE WorkerCommits BY <1>4 DEF WorkerCommits
<1>5. CASE Relay BY <1>5 DEF Relay
<1>6. CASE Crash \/ Restart BY <1>6 DEF Crash, Restart
<1>7. ASSUME NEW c \in Clients, ClientStep(c) PROVE raced'
  <2>1. CASE HubReceives(c)
    <3>1. CASE HubSubscribes(c) BY <1>1, <3>1 DEF HubSubscribes
    <3>2. CASE HubReplays(c, Head(outbox[c]).from) BY <3>2 DEF HubReplays
    <3> QED BY <2>1, <3>1, <3>2 DEF HubReceives
  <2>2. CASE HttpReads(c) \/ HttpArrives(c) \/ HttpFails(c)
    BY <2>2 DEF HttpReads, HttpArrives, HttpFails, hub
  <2>3. CASE Connect(c) \/ ConnectFails(c) BY <2>3 DEF Connect, ConnectFails, hub
  <2>4. CASE Receive(c) BY <2>4 DEF Receive, hub
  <2> QED BY <1>7, <2>1, <2>2, <2>3, <2>4 DEF ClientStep
<1>8. ASSUME NEW c \in Clients, Open(c) PROVE raced' BY <1>8 DEF Open, hub
<1>9. ASSUME NEW c \in Clients, Drop(c) \/ Leave(c) PROVE raced'
  BY <1>2, <1>9 DEF Drop, Leave
<1> QED BY <1>3, <1>4, <1>5, <1>6, <1>7, <1>8, <1>9 DEF Next

LEMMA StreamInvNext == StreamInv /\ [Next]_vars => StreamInv'
<1> SUFFICES ASSUME StreamInv, [Next]_vars PROVE StreamInv' OBVIOUS
<1>1. CASE Next
  <2>1. Typed' /\ Wired' BY <1>1, TypedNext, WiredNext DEF StreamInv
  <2>2. CASE raced BY <1>1, <2>1, <2>2, RacedStays DEF StreamInv
  <2>3. CASE ~raced BY <1>1, <2>1, <2>3, FollowsNext DEF StreamInv
  <2> QED BY <2>2, <2>3
<1>2. CASE UNCHANGED vars
  BY <1>2 DEF vars, hub, wires, counts, StreamInv, Typed, Wired, Unraced, Waiting, Relayed, Unrelayed
<1> QED BY <1>1, <1>2

\* The invariant holds throughout.
LEMMA StreamInvariant == Spec => []StreamInv
<1> QED BY TypedInit, StreamInvNext, PTL DEF Spec

\* Types, for any players and any length of the stream: what a screen shows is
\* an event of the log, and the hub talks to open sockets only.
THEOREM StreamTyped == Spec => []StreamTypeOK
<1>1. StreamInv => StreamTypeOK
  <2> SUFFICES ASSUME StreamInv PROVE StreamTypeOK OBVIOUS
  <2>1. /\ log \in Seq(Kinds) /\ up \in BOOLEAN /\ cursor \in Nat \cup {Unpolled}
        /\ mine \subseteq DOMAIN log
    BY DEF StreamInv, Typed
  <2>2. /\ subscribed \subseteq {c \in Clients : client[c].open}
        /\ ~up => subscribed = {} /\ mine = {} /\ cursor = Unpolled
    BY DEF StreamInv, Wired
  <2>3. ASSUME NEW c \in Clients
        PROVE  /\ client[c].open => client[c].joined /\ client[c].ready
               /\ ~client[c].open => inbox[c] = <<>> /\ outbox[c] = <<>>
               /\ {client[c].queue, client[c].playback, client[c].seq} \subseteq 0 .. Len(log)
    <3>1. client[c] \in Screens(log) BY DEF StreamInv, Typed
    <3>2. {client[c].queue, client[c].playback, client[c].seq} \subseteq 0 .. Len(log)
      BY <2>1, <3>1, MarksBounds DEF Screens
    <3> QED BY <3>2 DEF StreamInv, Wired
  <2> QED BY <2>1, <2>2, <2>3 DEF StreamTypeOK
<1> QED BY <1>1, StreamInvariant, PTL

\* A player to which nothing is on its way shows the hub's queue and timeline
\* (QuietShowsNewest), for any players, any ring and any number of events,
\* fetches, drops and crashes.
THEOREM QuietIsNewest == Spec => []QuietShowsNewest
<1>1. StreamInv => QuietShowsNewest
  <2> SUFFICES ASSUME StreamInv, ~raced, NEW c \in Clients \ late, Quiet(c) PROVE Current(c)
    BY DEF QuietShowsNewest
  <2>1. log \in Seq(Kinds) /\ client[c] \in Screens(log) BY DEF StreamInv, Typed
  <2>2. /\ c \in subscribed /\ cursor = Len(log) /\ inbox[c] = <<>> BY DEF Quiet
  <2>3. Relayed = DOMAIN log BY <2>1, <2>2 DEF Relayed, Unrelayed
  <2>4. Upholds(log, DOMAIN log, <<>>, client[c], c \notin late)
    BY <2>2, <2>3 DEF StreamInv, Unraced, Follows
  <2>5. ASSUME NEW kind \in Screened PROVE Field(client[c], kind) = Newest(kind)
    <3>1. Field(client[c], kind) \in Marks(log, kind) BY <2>1 DEF Screens, Screened, Field
    <3>2. /\ Newest(kind) \in Marks(log, kind) /\ Newest(kind) >= Field(client[c], kind)
      BY <2>1, <3>1, NewestMark
    <3>3. Field(client[c], kind) >= Newest(kind)
      <4>1. CASE Newest(kind) = 0 BY <2>1, <3>1, <4>1, MarksBounds
      <4>2. CASE Newest(kind) # 0
        <5>1. Newest(kind) \in DOMAIN log /\ log[Newest(kind)] = kind BY <3>2, <4>2 DEF Marks
        <5>2. 0 \in Starts(<<>>, c \notin late) BY DEF Starts
        <5>3. Holds(log, <<>>, client[c], kind, Newest(kind), 0)
          BY <2>4, <5>1, <5>2 DEF Upholds
        <5> QED BY <5>3 DEF Holds, Shows
      <4> QED BY <4>1, <4>2
    <3> QED BY <2>1, <3>1, <3>2, <3>3, MarksBounds
  <2> QED BY <2>5 DEF Current, Screened, Field
<1> QED BY <1>1, StreamInvariant, PTL

\* A player moves forward one event at a time or by a snapshot
\* (NothingSkipped), whatever was lost with a socket or fell out of the ring.
THEOREM NothingIsSkipped == Spec => NothingSkipped
<1> DEFINE Steady == \A c \in Clients : client'[c].seq > client[c].seq + 1
                       => raced \/ (inbox[c] # <<>> /\ Head(inbox[c]).type = "group.snapshot")
<1>1. StreamInv /\ [Next]_vars => [Steady]_vars
  <2> SUFFICES ASSUME StreamInv, Next, ~raced, NEW c \in Clients,
                      client'[c].seq > client[c].seq + 1
               PROVE  inbox[c] # <<>> /\ Head(inbox[c]).type = "group.snapshot"
    OBVIOUS
  <2>1. /\ log \in Seq(Kinds) /\ client[c] \in Screens(log) /\ Typed /\ Wired
        /\ client[c].seq \in Nat /\ Unraced
    BY DEF StreamInv, Typed, Screens
  <2>2. ASSUME client'[c].seq \in {0, client[c].seq} PROVE FALSE BY <2>1, <2>2
  <2>3. ASSUME client' = client PROVE FALSE BY <2>2, <2>3
  <2>4. CASE HubCommits \/ WorkerCommits \/ Relay \/ Restart
    BY <2>3, <2>4 DEF HubCommits, WorkerCommits, Relay, Restart
  <2>5. CASE Crash
    <3>1. client'[c].seq = client[c].seq BY <2>1, <2>5 DEF Crash, Screens
    <3> QED BY <2>2, <3>1
  <2>6. ASSUME NEW d \in Clients, NEW s \in Screens(log), client' = [client EXCEPT ![d] = s],
               s.seq \in {0, client[d].seq}
        PROVE  FALSE
    <3>1. client'[c] = IF c = d THEN s ELSE client[c] BY <2>1, <2>6 DEF Typed
    <3> QED BY <2>2, <2>6, <3>1
  <2>7. ASSUME NEW d \in Clients, HttpArrives(d) \/ HttpFails(d) \/ Open(d) PROVE FALSE
    <3>1. CASE HttpArrives(d) BY <2>1, <2>6, <3>1, ArrivesIs
    <3>2. CASE HttpFails(d) BY <2>1, <2>6, <3>2, FailsIs
    <3>3. CASE Open(d) BY <2>1, <2>6, <3>3, OpenIs
    <3> QED BY <2>7, <3>1, <3>2, <3>3
  <2>8. ASSUME NEW d \in Clients, HttpReads(d) \/ HubReceives(d) PROVE FALSE
    BY <2>3, <2>8 DEF HttpReads, HubReceives
  <2>9. ASSUME NEW d \in Clients, Connect(d) \/ ConnectFails(d) \/ Drop(d) \/ Leave(d)
        PROVE  FALSE
    <3>1. client[d] \in Screens(log) BY <2>1 DEF Typed
    <3>2. client'[d].seq = client[d].seq /\ \A e \in Clients \ {d} : client'[e] = client[e]
      BY <2>1, <2>9, <3>1 DEF Connect, ConnectFails, Drop, Leave, Typed, Screens, Away
    <3> QED BY <2>2, <3>2
  <2>10. ASSUME NEW d \in Clients, Receive(d)
         PROVE  inbox[c] # <<>> /\ Head(inbox[c]).type = "group.snapshot"
    <3> DEFINE m == Head(inbox[d])
    <3>1. inbox[d] # <<>> /\ client' = [client EXCEPT ![d] = Shown(d, m)] BY <2>10 DEF Receive
    <3>2. d = c
      <4>1. d # c => client'[c] = client[c] BY <2>1, <3>1 DEF Typed
      <4> QED BY <2>2, <4>1
    <3>3. inbox[c] \in Seq(Sent(log)) /\ m = inbox[c][1] /\ m \in Sent(log) /\ 1 \in DOMAIN inbox[c]
      BY <2>1, <3>1, <3>2 DEF Typed
    <3> HIDE DEF m
    <3>4. client'[c].seq = IF m = Required THEN client[c].seq ELSE m.seq
      <4>1. client'[c] = Shown(c, m) BY <2>1, <3>1, <3>2 DEF Typed
      <4> QED BY <2>1, <3>3, <4>1, ShownIs
    <3>5. m.type # "event"
      <4> SUFFICES ASSUME m.type = "event" PROVE FALSE OBVIOUS
      <4>1. c \in subscribed BY <2>1, <3>1, <3>2 DEF Wired
      <4>2. InStep(inbox[c], client[c]) BY <2>1, <4>1 DEF Unraced, Follows
      <4>3. m.seq <= client[c].seq + 1 BY <3>3, <4>2 DEF InStep, At
      <4>4. m # Required /\ m.seq \in Nat BY <2>1, <3>3, MessageCases
      <4> QED BY <2>1, <3>4, <4>3, <4>4
    <3>6. m # Required BY <2>2, <3>4
    <3> QED BY <2>1, <3>1, <3>2, <3>3, <3>5, <3>6, MessageCases DEF m
  <2> QED BY <2>4, <2>5, <2>7, <2>8, <2>9, <2>10 DEF Next, ClientStep
<1>2. Spec => [][Steady]_vars BY <1>1, StreamInvariant, PTL DEF Spec
<1> QED BY <1>2 DEF NothingSkipped

=============================================================================
