---------------------------- MODULE DataReaderProofs ----------------------------
(* For tables and pages of any size, any number of calls, edits, migrations  *)
(* and restores: what a reader has received, against what is in the tables.  *)
EXTENDS DataReader, SchemaProofs, SequenceTheorems, FiniteSetTheorems

-----------------------------------------------------------------------------
(* The invariant.                                                            *)

Increasing(s) == \A i, j \in DOMAIN s : i < j => s[i] < s[j]

Content == [rows  : [KnownTables -> Seq(RowId)],
            next  : [KnownTables -> 1 .. MaxId + 1],
            edits : 0 .. MaxEdits]

\* The live rows, and the two copies an admin may go back to: IDs are given in
\* order and never given twice.
InOrder(c) ==
    /\ c \in Content
    /\ \A t \in KnownTables :
         /\ Increasing(c.rows[t])
         /\ \A i \in DOMAIN c.rows[t] : c.rows[t][i] < c.next[t]

ContentInv == InOrder(content) /\ InOrder(contentCheckpoint) /\ InOrder(contentBackup)

Call == [kind  : Kinds,
         got   : UNION {[T -> Seq(RowId)] : T \in SUBSET KnownTables},
         left  : SUBSET KnownTables,
         noise : {Still, Grown, Shrunk, Restored},
         began : UNION {[T -> Nat] : T \in SUBSET KnownTables}]

CallOK(c) ==
    /\ c \in Call
    /\ c.left \subseteq Lists(c.kind)
    /\ c.got \in [Lists(c.kind) -> Seq(RowId)]
    /\ c.began \in [Lists(c.kind) -> Nat]

ReadsOK ==
    /\ DOMAIN reads = Readers
    /\ \A r \in Readers : reads[r] = NoRead \/ CallOK(reads[r])

\* While rows are only added, what a call has received of a table is how the
\* table begins.
Prefix(c, d) ==
    c.noise <= Grown => \A t \in Lists(c.kind) :
        /\ Len(c.got[t]) <= Len(d.rows[t])
        /\ \A i \in 1 .. Len(c.got[t]) : c.got[t][i] = d.rows[t][i]
        /\ c.began[t] <= Len(d.rows[t])
        /\ c.noise = Still => c.began[t] = Len(d.rows[t])
        /\ t \notin c.left => c.began[t] <= Len(c.got[t])

\* As long as nothing is restored, every row still to come is newer than those
\* received: deleting rows moves newer ones to earlier positions, never older
\* ones to later positions.
Ascending(c, d) ==
    c.noise <= Shrunk => \A t \in Lists(c.kind) :
        /\ Increasing(c.got[t])
        /\ \A i \in 1 .. Len(c.got[t]) : c.got[t][i] < d.next[t]
        /\ \A i \in 1 .. Len(c.got[t]), j \in 1 .. Len(d.rows[t]) :
             j > Len(c.got[t]) => c.got[t][i] < d.rows[t][j]

Received == \A r \in Readers :
    reads[r] # NoRead => Prefix(reads[r], content) /\ Ascending(reads[r], content)

ReaderInv == ContentInv /\ ReadsOK /\ Received

-----------------------------------------------------------------------------
(* The readers and their tables.                                             *)

LEMMA Sizes == PageSize \in Nat /\ PageSize > 0 /\ MaxId \in Nat /\ MaxEdits \in Nat
BY ReaderAssumption

LEMMA FunctionIsSeq ==
    ASSUME NEW S, NEW n \in Nat, NEW f \in [1 .. n -> S]
    PROVE  f \in Seq(S) /\ Len(f) = n /\ DOMAIN f = 1 .. n
<1>1. f \in Seq(S)
  BY SeqDef
<1> QED
  BY <1>1, LenProperties

LEMMA ListsAre ==
    /\ Lists("events") = {"events", "people", "tags"}
    /\ Lists("info") = {"about", "links"}
    /\ Lists("pages") = {"pages"}
    /\ Lists("announcements") = {"announcements"}
    /\ Lists("files") = {"about", "pages", "announcements"}
    /\ \A kind \in Kinds : Lists(kind) \subseteq KnownTables
<1>1. /\ Lists("events") = {"events", "people", "tags"}
      /\ Lists("info") = {"about", "links"}
      /\ Lists("pages") = {"pages"}
      /\ Lists("announcements") = {"announcements"}
      /\ Lists("files") = {"about", "pages", "announcements"}
  BY DEF Lists
<1>2. \A kind \in Kinds : Lists(kind) \subseteq KnownTables
  BY <1>1, ReaderAssumption DEF KnownTables
<1> QED
  BY <1>1, <1>2

\* A call in progress is not an idle slot.
LEMMA CallIsRead == \A c : CallOK(c) => c # NoRead
<1> SUFFICES ASSUME NEW c, CallOK(c), c = NoRead PROVE FALSE
  OBVIOUS
<1>1. "got" \in DOMAIN c
  BY DEF CallOK, Call
<1>2. "got" \notin DOMAIN NoRead
  BY DEF NoRead
<1> QED
  BY <1>1, <1>2

\* The page at an offset is the part of the table that begins there.
LEMMA PageIs ==
    ASSUME content \in Content, NEW t \in KnownTables, NEW n \in Nat
    PROVE  LET page == Page(t, n)  rows == content.rows[t] IN
           /\ page \in Seq(RowId)
           /\ n <= Len(rows) => n + Len(page) <= Len(rows)
           /\ \A j \in 1 .. Len(page) : n + j <= Len(rows) /\ page[j] = rows[n + j]
           /\ IsLastPage(t, n) => n + Len(page) >= Len(rows)
<1> DEFINE rows == content.rows[t]
           left == Len(rows) - n
           size == Least(PageSize, left)
           page == Page(t, n)
<1>1. rows \in Seq(RowId) /\ Len(rows) \in Nat
  BY DEF Content
<1>2. /\ size \in Int /\ size <= left
      /\ size = PageSize \/ size = left
  BY <1>1, Sizes DEF Least
<1>3. page = [j \in 1 .. size |-> rows[n + j]]
  BY DEF Page
<1>4. \A j \in 1 .. size : n + j \in 1 .. Len(rows) /\ rows[n + j] \in RowId
  <2>1. \A i \in 1 .. Len(rows) : rows[i] \in RowId
    BY <1>1, ElementOfSeq
  <2> QED
    BY <1>1, <1>2, <2>1
<1>5. CASE size >= 0
  <2>1. page \in [1 .. size -> RowId] /\ size \in Nat
    BY <1>2, <1>3, <1>4, <1>5
  <2>2. page \in Seq(RowId) /\ Len(page) = size
    BY <2>1, FunctionIsSeq
  <2>3. Len(page) = size
    BY <2>2
  <2> HIDE DEF page, size, rows
  <2>4. \A j \in 1 .. Len(page) : n + j <= Len(rows) /\ page[j] = rows[n + j]
    <3>1. \A j \in 1 .. size : n + j <= Len(rows)
      BY <1>1, <1>2, <1>4
    <3>2. \A j \in 1 .. size : page[j] = rows[n + j]
      BY <1>3
    <3> QED
      BY <2>3, <3>1, <3>2
  <2>5. IsLastPage(t, n) => n + Len(page) >= Len(rows)
    BY <1>1, <1>2, <2>3 DEF IsLastPage, left, rows
  <2> QED
    BY <1>1, <1>2, <2>2, <2>3, <2>4, <2>5 DEF page, rows
<1>6. CASE size < 0
  <2>1. 1 .. size = 1 .. 0
    BY <1>2, <1>6
  <2>2. page \in [1 .. 0 -> RowId]
    BY <1>3, <2>1
  <2>3. page \in Seq(RowId)
    BY <2>2, FunctionIsSeq
  <2>4. Len(page) = 0
    BY <2>2, FunctionIsSeq
  <2>5. left < 0
    BY <1>1, <1>2, <1>6, Sizes
  <2> QED
    BY <1>1, <2>3, <2>4, <2>5
<1> QED
  BY <1>2, <1>5, <1>6

\* A row added at the end, and a row taken out.
LEMMA Inserted ==
    ASSUME NEW s \in Seq(RowId), NEW n \in RowId,
           Increasing(s), \A i \in DOMAIN s : s[i] < n
    PROVE  /\ Append(s, n) \in Seq(RowId)
           /\ Len(Append(s, n)) = Len(s) + 1
           /\ \A i \in 1 .. Len(s) : Append(s, n)[i] = s[i]
           /\ Append(s, n)[Len(s) + 1] = n
           /\ Increasing(Append(s, n))
           /\ \A i \in DOMAIN Append(s, n) : Append(s, n)[i] < n + 1
<1>1. /\ Append(s, n) \in Seq(RowId)
      /\ Len(Append(s, n)) = Len(s) + 1
      /\ \A i \in 1 .. Len(s) : Append(s, n)[i] = s[i]
      /\ Append(s, n)[Len(s) + 1] = n
  BY AppendProperties
<1>2. DOMAIN s = 1 .. Len(s) /\ DOMAIN Append(s, n) = 1 .. Len(s) + 1 /\ Len(s) \in Nat
  BY <1>1, LenProperties
<1>3. \A i \in 1 .. Len(s) : s[i] \in Int
  <2>1. \A i \in 1 .. Len(s) : s[i] \in RowId
    BY ElementOfSeq
  <2> QED
    BY <2>1 DEF RowId
<1>4. n \in Int
  BY DEF RowId
<1>5. Increasing(Append(s, n))
  <2> SUFFICES ASSUME NEW i \in 1 .. Len(s) + 1, NEW j \in 1 .. Len(s) + 1, i < j
               PROVE  Append(s, n)[i] < Append(s, n)[j]
    BY <1>2 DEF Increasing
  <2>1. i \in 1 .. Len(s) /\ Append(s, n)[i] = s[i]
    BY <1>1, <1>2
  <2>2. CASE j \in 1 .. Len(s)
    BY <1>1, <1>2, <2>1, <2>2 DEF Increasing
  <2>3. CASE j = Len(s) + 1
    BY <1>1, <1>2, <2>1, <2>3
  <2> QED
    BY <1>2, <2>2, <2>3
<1>6. \A i \in DOMAIN Append(s, n) : Append(s, n)[i] < n + 1
  <2> SUFFICES ASSUME NEW i \in 1 .. Len(s) + 1 PROVE Append(s, n)[i] < n + 1
    BY <1>2
  <2>1. CASE i \in 1 .. Len(s)
    BY <1>1, <1>2, <1>3, <1>4, <2>1
  <2>2. CASE i = Len(s) + 1
    BY <1>1, <1>4, <2>2
  <2> QED
    BY <1>2, <2>1, <2>2
<1> QED
  BY <1>1, <1>5, <1>6

LEMMA Deleted ==
    ASSUME NEW s \in Seq(RowId), NEW n \in Int, NEW d \in DOMAIN s,
           Increasing(s), \A i \in DOMAIN s : s[i] < n
    PROVE  /\ Without(s, d) \in Seq(RowId)
           /\ Len(Without(s, d)) = Len(s) - 1
           /\ \A i \in 1 .. Len(s) - 1 : Without(s, d)[i] \in {s[i], s[i + 1]}
           /\ Increasing(Without(s, d))
           /\ \A i \in DOMAIN Without(s, d) : Without(s, d)[i] < n
<1> DEFINE w == Without(s, d)
<1>1. DOMAIN s = 1 .. Len(s) /\ Len(s) \in Nat /\ Len(s) > 0
  BY LenProperties
<1>2. \A i \in 1 .. Len(s) : s[i] \in RowId /\ s[i] \in Int
  <2>1. \A i \in 1 .. Len(s) : s[i] \in RowId
    BY ElementOfSeq
  <2> QED
    BY <2>1 DEF RowId
<1>3. w = [j \in 1 .. Len(s) - 1 |-> IF j < d THEN s[j] ELSE s[j + 1]]
  BY DEF Without
<1>4. w \in [1 .. Len(s) - 1 -> RowId] /\ Len(s) - 1 \in Nat
  BY <1>1, <1>2, <1>3
<1> HIDE DEF w
<1>5. w \in Seq(RowId) /\ Len(w) = Len(s) - 1 /\ DOMAIN w = 1 .. Len(s) - 1
  BY <1>4, FunctionIsSeq
<1>6. Len(w) = Len(s) - 1 /\ DOMAIN w = 1 .. Len(s) - 1
  BY <1>5
<1>7. \A i \in 1 .. Len(s) - 1 : w[i] = IF i < d THEN s[i] ELSE s[i + 1]
  BY <1>3
<1>8. \A i \in 1 .. Len(s) - 1 : w[i] \in {s[i], s[i + 1]}
  BY <1>7
<1>9. Increasing(w)
  <2> SUFFICES ASSUME NEW i \in 1 .. Len(s) - 1, NEW j \in 1 .. Len(s) - 1, i < j
               PROVE  w[i] < w[j]
    BY <1>6 DEF Increasing
  <2>1. /\ i \in 1 .. Len(s) /\ i + 1 \in 1 .. Len(s)
        /\ j \in 1 .. Len(s) /\ j + 1 \in 1 .. Len(s)
    BY <1>1
  <2>2. s[i] < s[j] /\ s[i] < s[j + 1] /\ s[i + 1] < s[j + 1]
    BY <1>1, <2>1 DEF Increasing
  <2>3. d \in Int /\ j < d => i < d
    BY <1>1
  <2> QED
    BY <1>7, <2>2, <2>3
<1>10. \A i \in DOMAIN w : w[i] < n
  <2> SUFFICES ASSUME NEW i \in 1 .. Len(s) - 1 PROVE w[i] < n
    BY <1>6
  <2>1. i \in DOMAIN s /\ i + 1 \in DOMAIN s
    BY <1>1
  <2> QED
    BY <1>8, <2>1
<1> QED
  BY <1>5, <1>6, <1>8, <1>9, <1>10 DEF w


-----------------------------------------------------------------------------
(* What a step does to a call.                                               *)

\* A call after a turn of the loop, and after a change of some rows.
Turn(c, t) ==
    [kind  |-> c.kind,
     got   |-> [c.got EXCEPT ![t] = @ \o Page(t, Len(c.got[t]))],
     left  |-> IF IsLastPage(t, Len(c.got[t])) THEN c.left \ {t} ELSE c.left,
     noise |-> c.noise,
     began |-> c.began]

Louder(c, level) ==
    [kind  |-> c.kind,
     got   |-> c.got,
     left  |-> c.left,
     noise |-> IF c.noise >= level THEN c.noise ELSE level,
     began |-> c.began]

LEMMA PageEffect ==
    ASSUME ReadsOK, NEW r \in Readers, NEW t, ReadPage(r, t)
    PROVE  /\ CallOK(reads[r])
           /\ t \in reads[r].left
           /\ reads' = [reads EXCEPT ![r] = Turn(reads[r], t)]
           /\ UNCHANGED <<schemaVars, contentVars>>
<1> DEFINE c == reads[r]
<1>1. CallOK(c) /\ t \in c.left
  BY DEF ReadPage, Asks, ReadsOK
<1>2. UNCHANGED <<schemaVars, contentVars>>
  BY DEF ReadPage
<1>3. reads' = [reads EXCEPT
            ![r].got[t] = @ \o Page(t, Len(reads[r].got[t])),
            ![r].left = IF IsLastPage(t, Len(reads[r].got[t])) THEN @ \ {t} ELSE @]
  BY DEF ReadPage
<1>4. DOMAIN reads = Readers
  BY DEF ReadsOK
<1> DEFINE got   == [c.got EXCEPT ![t] = @ \o Page(t, Len(c.got[t]))]
           left  == IF IsLastPage(t, Len(c.got[t])) THEN c.left \ {t} ELSE c.left
<1>5. reads' = [reads EXCEPT ![r] = [c EXCEPT !.got = got, !.left = left]]
  <2>1. r \in DOMAIN reads /\ "got" \in DOMAIN reads[r] /\ "left" \in DOMAIN reads[r]
    BY <1>1, <1>4 DEF CallOK, Call
  <2>2. ASSUME NEW p, NEW x
        PROVE  [reads EXCEPT ![r].got[t] = @ \o p, ![r].left = IF x THEN @ \ {t} ELSE @] =
               [reads EXCEPT ![r] = [reads[r] EXCEPT
                  !.got = [reads[r].got EXCEPT ![t] = @ \o p],
                  !.left = IF x THEN reads[r].left \ {t} ELSE reads[r].left]]
    BY <2>1
  <2> QED
    BY <1>3, <2>2
<1>6. \A g, l : [c EXCEPT !.got = g, !.left = l] =
        [kind |-> c.kind, got |-> g, left |-> l, noise |-> c.noise, began |-> c.began]
  <2>1. c \in Call
    BY <1>1 DEF CallOK
  <2>2. \A g : [c EXCEPT !.got = g] =
          [kind |-> c.kind, got |-> g, left |-> c.left, noise |-> c.noise, began |-> c.began]
    BY <2>1 DEF Call
  <2>3. \A g, l : [c EXCEPT !.got = g, !.left = l] = [[c EXCEPT !.got = g] EXCEPT !.left = l]
    OBVIOUS
  <2>4. \A g, l : [[kind |-> c.kind, got |-> g, left |-> c.left, noise |-> c.noise,
                    began |-> c.began] EXCEPT !.left = l] =
          [kind |-> c.kind, got |-> g, left |-> l, noise |-> c.noise, began |-> c.began]
    OBVIOUS
  <2> HIDE DEF c
  <2> QED
    BY <2>2, <2>3, <2>4
<1>7. [c EXCEPT !.got = got, !.left = left] = Turn(c, t)
  BY <1>6 DEF Turn
<1> QED
  BY <1>1, <1>2, <1>5, <1>7

LEMMA DisturbedEffect ==
    ASSUME ReadsOK, NEW level, NEW r \in Readers
    PROVE  Disturbed(level)[r] =
             IF reads[r] = NoRead THEN NoRead ELSE Louder(reads[r], level)
<1>1. CASE reads[r] = NoRead
  BY <1>1 DEF Disturbed
<1>2. CASE reads[r] # NoRead
  <2> DEFINE c == reads[r]
  <2>1. c \in Call
    BY <1>2 DEF ReadsOK, CallOK
  <2>2. \A n : [c EXCEPT !.noise = n] =
          [kind |-> c.kind, got |-> c.got, left |-> c.left, noise |-> n, began |-> c.began]
    BY <2>1 DEF Call
  <2>3. Disturbed(level)[r] = [c EXCEPT !.noise = IF @ >= level THEN @ ELSE level]
    BY <1>2 DEF Disturbed
  <2> QED
    BY <1>2, <2>2, <2>3 DEF Louder
<1> QED
  BY <1>1, <1>2

LEMMA LouderIs ==
    ASSUME NEW c, CallOK(c), NEW level \in {Grown, Shrunk, Restored}
    PROVE  LET d == Louder(c, level) IN
           /\ CallOK(d)
           /\ d.kind = c.kind /\ d.got = c.got /\ d.left = c.left /\ d.began = c.began
           /\ d.noise \in Int /\ c.noise \in Int /\ c.noise <= d.noise /\ level <= d.noise
<1> DEFINE d == Louder(c, level)
<1>1. /\ c.kind \in Kinds /\ c.left \in SUBSET KnownTables
      /\ c.got \in UNION {[T -> Seq(RowId)] : T \in SUBSET KnownTables}
      /\ c.began \in UNION {[T -> Nat] : T \in SUBSET KnownTables}
      /\ c.noise \in {Still, Grown, Shrunk, Restored}
  BY DEF CallOK, Call
<1>2. d.kind = c.kind /\ d.got = c.got /\ d.left = c.left /\ d.began = c.began
  BY DEF Louder
<1>3. d.noise = IF c.noise >= level THEN c.noise ELSE level
  BY DEF Louder
<1>4. /\ d.noise \in {Still, Grown, Shrunk, Restored}
      /\ c.noise <= d.noise /\ level <= d.noise /\ d.noise \in Int /\ c.noise \in Int
  BY <1>1, <1>3 DEF Still, Grown, Shrunk, Restored
<1>5. d \in Call
  BY <1>1, <1>4 DEF Call, Louder
<1> QED
  BY <1>2, <1>4, <1>5 DEF CallOK

-----------------------------------------------------------------------------
(* A page received.                                                          *)

LEMMA TurnIsCall ==
    ASSUME InOrder(content), NEW c, CallOK(c), NEW t \in c.left
    PROVE  CallOK(Turn(c, t))
<1> DEFINE n == Len(c.got[t])  d == Turn(c, t)
<1>1. /\ c.kind \in Kinds /\ c.left \subseteq Lists(c.kind)
      /\ c.noise \in {Still, Grown, Shrunk, Restored}
      /\ c.began \in [Lists(c.kind) -> Nat]
      /\ c.got \in [Lists(c.kind) -> Seq(RowId)]
  BY DEF CallOK, Call
<1>2. Lists(c.kind) \subseteq KnownTables
  BY <1>1, ListsAre
<1>3. c.got[t] \in Seq(RowId) /\ n \in Nat /\ t \in KnownTables
  BY <1>1, <1>2, LenProperties
<1>4. Page(t, n) \in Seq(RowId)
  BY <1>3, PageIs DEF InOrder
<1>5. c.got[t] \o Page(t, n) \in Seq(RowId)
  BY <1>3, <1>4, ConcatProperties
<1>6. d.got \in [Lists(c.kind) -> Seq(RowId)]
  BY <1>1, <1>5 DEF Turn
<1>7. /\ d.kind = c.kind /\ d.noise = c.noise /\ d.began = c.began
      /\ d.left \subseteq Lists(c.kind)
  BY <1>1 DEF Turn
<1>8. d \in Call
  <2>1. d.got \in UNION {[T -> Seq(RowId)] : T \in SUBSET KnownTables}
    BY <1>2, <1>6
  <2>2. d.began \in UNION {[T -> Nat] : T \in SUBSET KnownTables}
    BY <1>1, <1>2, <1>7
  <2>3. d.left \in SUBSET KnownTables
    BY <1>2, <1>7
  <2>4. d = [kind |-> d.kind, got |-> d.got, left |-> d.left, noise |-> d.noise,
             began |-> d.began]
    BY DEF Turn
  <2> HIDE DEF d
  <2> QED
    BY <1>1, <1>7, <2>1, <2>2, <2>3, <2>4 DEF Call
<1> QED
  BY <1>6, <1>7, <1>8 DEF CallOK

\* What the received rows of the table are after the turn.
LEMMA TurnGets ==
    ASSUME InOrder(content), NEW c, CallOK(c), NEW t \in c.left
    PROVE  LET old  == c.got[t]
               new  == Turn(c, t).got[t]
               rows == content.rows[t]
           IN  /\ Len(old) \in Nat /\ Len(new) \in Nat /\ Len(rows) \in Nat
               /\ Len(old) <= Len(new)
               /\ \A i \in 1 .. Len(old) : new[i] = old[i]
               /\ \A i \in 1 .. Len(new) : i > Len(old) =>
                    i <= Len(rows) /\ new[i] = rows[i]
               /\ t \notin Turn(c, t).left => Len(new) >= Len(rows)
<1> DEFINE old == c.got[t]  n == Len(old)  page == Page(t, n)  rows == content.rows[t]
<1>1. /\ c.kind \in Kinds /\ c.left \subseteq Lists(c.kind)
      /\ c.got \in [Lists(c.kind) -> Seq(RowId)]
  BY DEF CallOK, Call
<1>2. Lists(c.kind) \subseteq KnownTables
  BY <1>1, ListsAre
<1>3. old \in Seq(RowId) /\ n \in Nat /\ t \in KnownTables
  BY <1>1, <1>2, LenProperties
<1>4. /\ page \in Seq(RowId)
      /\ \A j \in 1 .. Len(page) : n + j <= Len(rows) /\ page[j] = rows[n + j]
      /\ IsLastPage(t, n) => n + Len(page) >= Len(rows)
  BY <1>3, PageIs DEF InOrder
<1>5. Len(page) \in Nat
  BY <1>4, LenProperties
<1>6. rows \in Seq(RowId) /\ Len(rows) \in Nat
  <2>1. rows \in Seq(RowId)
    BY <1>3 DEF InOrder, Content
  <2> QED
    BY <2>1, LenProperties
<1>7. Turn(c, t).got[t] = old \o page
  BY <1>1 DEF Turn
<1>8. t \notin Turn(c, t).left => IsLastPage(t, n)
  BY DEF Turn
<1> DEFINE new == old \o page
<1> HIDE DEF old, n, page, rows
<1>9. /\ Len(new) = n + Len(page)
      /\ \A i \in 1 .. n + Len(page) : new[i] = IF i <= n THEN old[i] ELSE page[i - n]
  <2>1. old \in Seq(RowId) /\ page \in Seq(RowId) /\ n = Len(old)
    BY <1>3, <1>4 DEF n
  <2> QED
    BY <2>1, ConcatProperties
<1> HIDE DEF new
<1>10. \A i \in 1 .. Len(new) : i > n => i <= Len(rows) /\ new[i] = rows[i]
  <2> SUFFICES ASSUME NEW i \in 1 .. Len(new), i > n
               PROVE  i <= Len(rows) /\ new[i] = rows[i]
    OBVIOUS
  <2>1. i - n \in 1 .. Len(page) /\ n + (i - n) = i
    BY <1>3, <1>5, <1>9
  <2> QED
    <3>1. n + (i - n) <= Len(rows) /\ page[i - n] = rows[n + (i - n)]
      BY <1>4, <2>1
    <3>2. ~(i <= n) /\ i \in 1 .. n + Len(page)
      BY <1>3, <1>5, <1>9
    <3>3. new[i] = page[i - n]
      BY <1>9, <3>2
    <3> QED
      BY <2>1, <3>1, <3>3
<1>11. Len(new) \in Nat /\ n <= Len(new)
  BY <1>3, <1>5, <1>9
<1>12. \A i \in 1 .. n : new[i] = old[i]
  BY <1>3, <1>5, <1>9
<1>13. t \notin Turn(c, t).left => Len(new) >= Len(rows)
  BY <1>4, <1>8, <1>9
<1> QED
  BY <1>3, <1>6, <1>7, <1>10, <1>11, <1>12, <1>13 DEF new, rows, page, old, n


LEMMA TurnReceives ==
    ASSUME InOrder(content), NEW c, CallOK(c), NEW t \in c.left,
           Prefix(c, content), Ascending(c, content)
    PROVE  Prefix(Turn(c, t), content) /\ Ascending(Turn(c, t), content)
<1> DEFINE d == Turn(c, t)
           old == c.got[t]  new == d.got[t]  rows == content.rows[t]
<1>1. /\ d.kind = c.kind /\ d.noise = c.noise /\ d.began = c.began
      /\ d.left \subseteq c.left
      /\ \A u \in Lists(c.kind) : u # t => d.got[u] = c.got[u] /\ (u \in d.left <=> u \in c.left)
  BY DEF Turn, CallOK
<1>2. t \in Lists(c.kind) /\ t \in KnownTables /\ c.kind \in Kinds
  BY ListsAre DEF CallOK, Call
<1>3. /\ Len(old) \in Nat /\ Len(new) \in Nat /\ Len(rows) \in Nat
      /\ Len(old) <= Len(new)
      /\ \A i \in 1 .. Len(old) : new[i] = old[i]
      /\ \A i \in 1 .. Len(new) : i > Len(old) => i <= Len(rows) /\ new[i] = rows[i]
      /\ t \notin d.left => Len(new) >= Len(rows)
  BY TurnGets
<1>4. rows \in Seq(RowId) /\ DOMAIN rows = 1 .. Len(rows) /\ Increasing(rows)
  <2>1. rows \in Seq(RowId) /\ Increasing(rows)
    BY <1>2 DEF InOrder, Content
  <2> QED
    BY <2>1, LenProperties
<1>5. /\ \A i \in 1 .. Len(rows) : rows[i] \in Int /\ rows[i] < content.next[t]
      /\ content.next[t] \in Int
  <2>1. \A i \in 1 .. Len(rows) : rows[i] \in RowId
    BY <1>4, ElementOfSeq
  <2> QED
    BY <1>2, <1>4, <2>1 DEF InOrder, Content, RowId
<1>6. DOMAIN new = 1 .. Len(new) /\ DOMAIN old = 1 .. Len(old)
      /\ \A i \in 1 .. Len(new) : new[i] \in Int
  <2>1. new \in Seq(RowId) /\ old \in Seq(RowId)
    BY <1>1, <1>2, TurnIsCall DEF CallOK
  <2>2. \A i \in 1 .. Len(new) : new[i] \in RowId
    BY <2>1, ElementOfSeq
  <2> QED
    BY <2>1, <2>2, LenProperties DEF RowId
<1>7. c.began[t] \in Nat
  BY <1>2 DEF CallOK
<1> HIDE DEF d, old, new, rows
<1>8. ASSUME c.noise <= Grown
      PROVE  /\ Len(new) <= Len(rows)
             /\ \A i \in 1 .. Len(new) : new[i] = rows[i]
             /\ c.began[t] <= Len(rows)
             /\ c.noise = Still => c.began[t] = Len(rows)
             /\ t \notin d.left => c.began[t] <= Len(new)
  <2>1. /\ Len(old) <= Len(rows)
        /\ \A i \in 1 .. Len(old) : old[i] = rows[i]
        /\ c.began[t] <= Len(rows)
        /\ c.noise = Still => c.began[t] = Len(rows)
    BY <1>2, <1>8 DEF Prefix, old, rows
  <2>2. \A i \in 1 .. Len(new) : i <= Len(rows) /\ new[i] = rows[i]
    <3> SUFFICES ASSUME NEW i \in 1 .. Len(new) PROVE i <= Len(rows) /\ new[i] = rows[i]
      OBVIOUS
    <3>1. CASE i \in 1 .. Len(old)
      BY <1>3, <2>1, <3>1
    <3>2. CASE i > Len(old)
      BY <1>3, <3>2
    <3> QED
      BY <1>3, <3>1, <3>2
  <2>3. Len(new) <= Len(rows)
    <3>1. CASE Len(new) = 0
      BY <1>3, <3>1
    <3>2. CASE Len(new) > 0
      BY <1>3, <2>2, <3>2
    <3> QED
      BY <1>3, <3>1, <3>2
  <2> QED
    BY <1>3, <1>7, <2>1, <2>2, <2>3
<1>9. ASSUME c.noise <= Shrunk
      PROVE  /\ Increasing(new)
             /\ \A i \in 1 .. Len(new) : new[i] < content.next[t]
             /\ \A i \in 1 .. Len(new), j \in 1 .. Len(rows) :
                  j > Len(new) => new[i] < rows[j]
  <2>1. /\ Increasing(old)
        /\ \A i \in 1 .. Len(old) : old[i] < content.next[t]
        /\ \A i \in 1 .. Len(old), j \in 1 .. Len(rows) :
             j > Len(old) => old[i] < rows[j]
    BY <1>2, <1>9 DEF Ascending, old, rows
  <2>2. \A i \in 1 .. Len(new) :
          \/ i \in 1 .. Len(old) /\ new[i] = old[i]
          \/ i > Len(old) /\ i \in 1 .. Len(rows) /\ new[i] = rows[i]
    BY <1>3
  <2>3. \A i \in 1 .. Len(new) : new[i] < content.next[t]
    BY <1>5, <2>1, <2>2
  <2>4. \A i \in 1 .. Len(new), j \in 1 .. Len(rows) : j > Len(new) => new[i] < rows[j]
    BY <1>3, <1>4, <2>1, <2>2 DEF Increasing
  <2>5. ASSUME NEW i \in 1 .. Len(new), NEW j \in 1 .. Len(new), i < j
        PROVE  new[i] < new[j]
    <3>1. CASE j \in 1 .. Len(old)
      BY <1>3, <1>6, <2>1, <2>5, <3>1 DEF Increasing
    <3>2. CASE j > Len(old)
      <4>1. j \in 1 .. Len(rows) /\ new[j] = rows[j]
        BY <1>3, <2>2, <3>2
      <4>2. CASE i \in 1 .. Len(old)
        BY <1>3, <2>1, <3>2, <4>1, <4>2
      <4>3. CASE i > Len(old)
        BY <1>3, <1>4, <2>2, <2>5, <4>1, <4>3 DEF Increasing
      <4> QED
        BY <1>3, <4>2, <4>3
    <3> QED
      BY <1>3, <3>1, <3>2
  <2> QED
    BY <1>6, <2>3, <2>4, <2>5 DEF Increasing
<1>10. Prefix(d, content)
  <2> SUFFICES ASSUME c.noise <= Grown, NEW u \in Lists(c.kind)
               PROVE  /\ Len(d.got[u]) <= Len(content.rows[u])
                      /\ \A i \in 1 .. Len(d.got[u]) : d.got[u][i] = content.rows[u][i]
                      /\ c.began[u] <= Len(content.rows[u])
                      /\ c.noise = Still => c.began[u] = Len(content.rows[u])
                      /\ u \notin d.left => c.began[u] <= Len(d.got[u])
    BY <1>1 DEF Prefix
  <2>1. CASE u = t
    BY <1>8, <2>1 DEF new, rows
  <2>2. CASE u # t
    BY <1>1, <2>2 DEF Prefix
  <2> QED
    BY <2>1, <2>2
<1>11. Ascending(d, content)
  <2> SUFFICES ASSUME c.noise <= Shrunk, NEW u \in Lists(c.kind)
               PROVE  /\ Increasing(d.got[u])
                      /\ \A i \in 1 .. Len(d.got[u]) : d.got[u][i] < content.next[u]
                      /\ \A i \in 1 .. Len(d.got[u]), j \in 1 .. Len(content.rows[u]) :
                           j > Len(d.got[u]) => d.got[u][i] < content.rows[u][j]
    BY <1>1 DEF Ascending
  <2>1. CASE u = t
    BY <1>9, <2>1 DEF new, rows
  <2>2. CASE u # t
    BY <1>1, <2>2 DEF Ascending
  <2> QED
    BY <2>1, <2>2
<1> QED
  BY <1>10, <1>11 DEF d


-----------------------------------------------------------------------------
(* Rows added, deleted and replaced.                                         *)

LEMMA InsertEffect ==
    ASSUME InOrder(content), NEW t \in KnownTables, InsertRow(t)
    PROVE  /\ InOrder(content')
           /\ content.next[t] \in RowId
           /\ content'.rows[t] = Append(content.rows[t], content.next[t])
           /\ content'.next[t] = content.next[t] + 1
           /\ \A u \in KnownTables : u # t =>
                content'.rows[u] = content.rows[u] /\ content'.next[u] = content.next[u]
<1> DEFINE new == Append(content.rows[t], content.next[t])
<1>1. /\ content.rows \in [KnownTables -> Seq(RowId)]
      /\ content.next \in [KnownTables -> 1 .. MaxId + 1]
      /\ content.edits \in 0 .. MaxEdits
  BY DEF InOrder, Content
<1>2. content.next[t] \in RowId /\ content.edits < MaxEdits
  BY DEF InsertRow
<1>3. content' = [rows  |-> [content.rows EXCEPT ![t] = new],
                  next  |-> [content.next EXCEPT ![t] = @ + 1],
                  edits |-> content.edits + 1]
  BY DEF InsertRow, InOrder, Content
<1>4. content.rows[t] \in Seq(RowId) /\ Increasing(content.rows[t])
      /\ \A i \in DOMAIN content.rows[t] : content.rows[t][i] < content.next[t]
  BY <1>1 DEF InOrder
<1>5. /\ new \in Seq(RowId) /\ Increasing(new)
      /\ \A i \in DOMAIN new : new[i] < content.next[t] + 1
  BY <1>2, <1>4, Inserted
<1>6. /\ content'.rows[t] = new /\ content'.next[t] = content.next[t] + 1
      /\ \A u \in KnownTables : u # t =>
           content'.rows[u] = content.rows[u] /\ content'.next[u] = content.next[u]
  BY <1>1, <1>3
<1>7. content' \in Content
  <2>1. [content.rows EXCEPT ![t] = new] \in [KnownTables -> Seq(RowId)]
    BY <1>1, <1>5
  <2>2. content.next[t] + 1 \in 1 .. MaxId + 1
    BY <1>2, Sizes DEF RowId
  <2>3. [content.next EXCEPT ![t] = @ + 1] \in [KnownTables -> 1 .. MaxId + 1]
    BY <1>1, <2>2
  <2>4. content.edits + 1 \in 0 .. MaxEdits
    BY <1>1, <1>2, Sizes
  <2> QED
    BY <1>3, <2>1, <2>3, <2>4 DEF Content
<1>8. \A u \in KnownTables :
        /\ Increasing(content'.rows[u])
        /\ \A i \in DOMAIN content'.rows[u] : content'.rows[u][i] < content'.next[u]
  <2> TAKE u \in KnownTables
  <2>1. CASE u = t
    BY <1>5, <1>6, <2>1
  <2>2. CASE u # t
    BY <1>6, <2>2 DEF InOrder
  <2> QED
    BY <2>1, <2>2
<1> QED
  BY <1>2, <1>6, <1>7, <1>8 DEF InOrder

LEMMA DeleteEffect ==
    ASSUME InOrder(content), NEW t \in KnownTables, DeleteRow(t)
    PROVE  /\ InOrder(content')
           /\ \E i \in DOMAIN content.rows[t] :
                content'.rows[t] = Without(content.rows[t], i)
           /\ content'.next = content.next
           /\ \A u \in KnownTables : u # t => content'.rows[u] = content.rows[u]
<1>1. /\ content.rows \in [KnownTables -> Seq(RowId)]
      /\ content.next \in [KnownTables -> 1 .. MaxId + 1]
      /\ content.edits \in 0 .. MaxEdits
  BY DEF InOrder, Content
<1>2. PICK d \in DOMAIN content.rows[t] :
        content' = [content EXCEPT !.rows[t] = Without(@, d), !.edits = @ + 1]
  BY DEF DeleteRow
<1>3. content.edits < MaxEdits
  BY DEF DeleteRow
<1> DEFINE new == Without(content.rows[t], d)
<1>4. content' = [rows |-> [content.rows EXCEPT ![t] = new], next |-> content.next,
                  edits |-> content.edits + 1]
  BY <1>2 DEF InOrder, Content
<1>5. content.rows[t] \in Seq(RowId) /\ Increasing(content.rows[t])
      /\ content.next[t] \in Int
      /\ \A i \in DOMAIN content.rows[t] : content.rows[t][i] < content.next[t]
  BY <1>1 DEF InOrder
<1>6. new \in Seq(RowId) /\ Increasing(new) /\ \A i \in DOMAIN new : new[i] < content.next[t]
  BY <1>5, Deleted
<1>7. /\ content'.rows[t] = new /\ content'.next = content.next
      /\ \A u \in KnownTables : u # t => content'.rows[u] = content.rows[u]
  BY <1>1, <1>4
<1>8. content' \in Content
  <2>1. [content.rows EXCEPT ![t] = new] \in [KnownTables -> Seq(RowId)]
    BY <1>1, <1>6
  <2>2. content.edits + 1 \in 0 .. MaxEdits
    BY <1>1, <1>3, Sizes
  <2> QED
    BY <1>1, <1>4, <2>1, <2>2 DEF Content
<1>9. \A u \in KnownTables :
        /\ Increasing(content'.rows[u])
        /\ \A i \in DOMAIN content'.rows[u] : content'.rows[u][i] < content'.next[u]
  <2> TAKE u \in KnownTables
  <2>1. CASE u = t
    BY <1>6, <1>7, <2>1
  <2>2. CASE u # t
    BY <1>7, <2>2 DEF InOrder
  <2> QED
    BY <2>1, <2>2
<1> QED
  BY <1>7, <1>8, <1>9 DEF InOrder

\* Going back to saved rows keeps the order of IDs.
LEMMA RevertEffect ==
    ASSUME InOrder(content), NEW saved, InOrder(saved), Revert(saved)
    PROVE  InOrder(content')
<1>1. content' = [rows |-> saved.rows, next |-> saved.next, edits |-> content.edits]
  BY DEF Revert, InOrder, Content
<1>2. /\ saved.rows \in [KnownTables -> Seq(RowId)]
      /\ saved.next \in [KnownTables -> 1 .. MaxId + 1]
      /\ content.edits \in 0 .. MaxEdits
  BY DEF InOrder, Content
<1>3. content' \in Content
  BY <1>1, <1>2 DEF Content
<1> QED
  BY <1>1, <1>3 DEF InOrder

\* A call in progress while a row is added ...
LEMMA InsertKeeps ==
    ASSUME InOrder(content), NEW t \in KnownTables, InsertRow(t),
           NEW c, CallOK(c), Prefix(c, content), Ascending(c, content)
    PROVE  LET d == Louder(c, Grown) IN Prefix(d, content') /\ Ascending(d, content')
<1> DEFINE d == Louder(c, Grown)
<1>1. /\ d.kind = c.kind /\ d.got = c.got /\ d.left = c.left /\ d.began = c.began
      /\ d.noise \in Int /\ c.noise \in Int /\ c.noise <= d.noise /\ Grown <= d.noise
  BY LouderIs
<1>2. /\ InOrder(content')
      /\ content.next[t] \in RowId
      /\ content'.rows[t] = Append(content.rows[t], content.next[t])
      /\ content'.next[t] = content.next[t] + 1
      /\ \A u \in KnownTables : u # t =>
           content'.rows[u] = content.rows[u] /\ content'.next[u] = content.next[u]
  BY InsertEffect
<1>3. /\ c.kind \in Kinds /\ Lists(c.kind) \subseteq KnownTables
      /\ \A u \in Lists(c.kind) :
           /\ c.got[u] \in Seq(RowId) /\ Len(c.got[u]) \in Nat
           /\ \A i \in 1 .. Len(c.got[u]) : c.got[u][i] \in Int
      /\ c.began \in [Lists(c.kind) -> Nat]
  <2>1. c.kind \in Kinds /\ c.got \in [Lists(c.kind) -> Seq(RowId)]
        /\ c.began \in [Lists(c.kind) -> Nat]
    BY DEF CallOK, Call
  <2>2. \A u \in Lists(c.kind) :
           /\ c.got[u] \in Seq(RowId) /\ Len(c.got[u]) \in Nat
           /\ \A i \in 1 .. Len(c.got[u]) : c.got[u][i] \in RowId
    BY <2>1, LenProperties, ElementOfSeq
  <2> QED
    BY <2>1, <2>2, ListsAre DEF RowId
<1> DEFINE rows == content.rows[t]  more == content'.rows[t]
<1>4. /\ Len(rows) \in Nat
      /\ Len(more) = Len(rows) + 1
      /\ \A i \in 1 .. Len(rows) : more[i] = rows[i]
      /\ more[Len(rows) + 1] = content.next[t]
  <2>1. rows \in Seq(RowId) /\ Increasing(rows)
        /\ \A i \in DOMAIN rows : rows[i] < content.next[t]
    BY DEF InOrder, Content
  <2> QED
    BY <1>2, <2>1, Inserted, LenProperties
<1> HIDE DEF d, rows, more
<1>5. Prefix(d, content')
  <2> SUFFICES ASSUME c.noise <= Grown, d.noise # Still, NEW u \in Lists(c.kind)
               PROVE  /\ Len(c.got[u]) <= Len(content'.rows[u])
                      /\ \A i \in 1 .. Len(c.got[u]) : c.got[u][i] = content'.rows[u][i]
                      /\ c.began[u] <= Len(content'.rows[u])
                      /\ u \notin c.left => c.began[u] <= Len(c.got[u])
    BY <1>1 DEF Prefix, Grown, Still
  <2>1. /\ Len(c.got[u]) <= Len(content.rows[u])
        /\ \A i \in 1 .. Len(c.got[u]) : c.got[u][i] = content.rows[u][i]
        /\ c.began[u] <= Len(content.rows[u])
        /\ u \notin c.left => c.began[u] <= Len(c.got[u])
    BY DEF Prefix
  <2>2. CASE u = t
    <3>1. /\ Len(c.got[t]) <= Len(rows)
          /\ \A i \in 1 .. Len(c.got[t]) : c.got[t][i] = rows[i]
          /\ c.began[t] <= Len(rows)
      BY <2>1, <2>2 DEF rows
    <3>2. /\ Len(c.got[t]) <= Len(more)
          /\ \A i \in 1 .. Len(c.got[t]) : c.got[t][i] = more[i]
          /\ c.began[t] <= Len(more)
      BY <1>3, <1>4, <2>2, <3>1
    <3> QED
      BY <2>1, <2>2, <3>2 DEF more
  <2>3. CASE u # t
    BY <1>2, <1>3, <2>1, <2>3
  <2> QED
    BY <2>2, <2>3
<1>6. Ascending(d, content')
  <2> SUFFICES ASSUME c.noise <= Shrunk, NEW u \in Lists(c.kind)
               PROVE  /\ Increasing(c.got[u])
                      /\ \A i \in 1 .. Len(c.got[u]) : c.got[u][i] < content'.next[u]
                      /\ \A i \in 1 .. Len(c.got[u]), j \in 1 .. Len(content'.rows[u]) :
                           j > Len(c.got[u]) => c.got[u][i] < content'.rows[u][j]
    BY <1>1 DEF Ascending, Grown, Shrunk
  <2>1. /\ Increasing(c.got[u])
        /\ \A i \in 1 .. Len(c.got[u]) : c.got[u][i] < content.next[u]
        /\ \A i \in 1 .. Len(c.got[u]), j \in 1 .. Len(content.rows[u]) :
             j > Len(c.got[u]) => c.got[u][i] < content.rows[u][j]
    BY DEF Ascending
  <2>2. CASE u = t
    <3>1. \A i \in 1 .. Len(c.got[t]) : c.got[t][i] < content.next[t] + 1
      BY <1>2, <1>3, <2>1, <2>2 DEF RowId
    <3>2. ASSUME NEW i \in 1 .. Len(c.got[t]), NEW j \in 1 .. Len(more), j > Len(c.got[t])
          PROVE  c.got[t][i] < more[j]
      <4>1. CASE j \in 1 .. Len(rows)
        BY <1>4, <2>1, <2>2, <3>2, <4>1 DEF rows
      <4>2. CASE j = Len(rows) + 1
        BY <1>4, <2>1, <2>2, <4>2
      <4> QED
        BY <1>4, <4>1, <4>2
    <3> QED
      BY <1>2, <2>1, <2>2, <3>1, <3>2 DEF more
  <2>3. CASE u # t
    BY <1>2, <1>3, <2>1, <2>3
  <2> QED
    BY <2>2, <2>3
<1> QED
  BY <1>5, <1>6 DEF d

\* ... or deleted.
LEMMA DeleteKeeps ==
    ASSUME InOrder(content), NEW t \in KnownTables, DeleteRow(t),
           NEW c, CallOK(c), Ascending(c, content)
    PROVE  LET d == Louder(c, Shrunk) IN Prefix(d, content') /\ Ascending(d, content')
<1> DEFINE d == Louder(c, Shrunk)
<1>1. /\ d.kind = c.kind /\ d.got = c.got /\ d.left = c.left /\ d.began = c.began
      /\ d.noise \in Int /\ c.noise \in Int /\ c.noise <= d.noise /\ Shrunk <= d.noise
  BY LouderIs
<1>2. PICK x \in DOMAIN content.rows[t] : content'.rows[t] = Without(content.rows[t], x)
  BY DeleteEffect
<1>3. /\ content'.next = content.next
      /\ \A u \in KnownTables : u # t => content'.rows[u] = content.rows[u]
  BY DeleteEffect
<1>4. /\ c.kind \in Kinds /\ Lists(c.kind) \subseteq KnownTables
      /\ \A u \in Lists(c.kind) : Len(c.got[u]) \in Nat
  <2>1. c.kind \in Kinds /\ c.got \in [Lists(c.kind) -> Seq(RowId)]
    BY DEF CallOK, Call
  <2> QED
    BY <2>1, ListsAre, LenProperties
<1> DEFINE rows == content.rows[t]  fewer == content'.rows[t]
<1>5. /\ Len(rows) \in Nat
      /\ Len(fewer) = Len(rows) - 1
      /\ \A i \in 1 .. Len(rows) - 1 : fewer[i] \in {rows[i], rows[i + 1]}
  <2>1. rows \in Seq(RowId) /\ Increasing(rows) /\ content.next[t] \in Int
        /\ \A i \in DOMAIN rows : rows[i] < content.next[t]
    BY DEF InOrder, Content
  <2>2. Len(rows) \in Nat
    BY <2>1, LenProperties
  <2>3. x \in DOMAIN rows /\ fewer = Without(rows, x)
    BY <1>2
  <2> HIDE DEF rows, fewer
  <2> QED
    BY <2>1, <2>2, <2>3, Deleted
<1> HIDE DEF d, rows, fewer
<1>6. Prefix(d, content')
  BY <1>1 DEF Prefix, Grown, Shrunk
<1>7. Ascending(d, content')
  <2> SUFFICES ASSUME c.noise <= Shrunk, NEW u \in Lists(c.kind)
               PROVE  /\ Increasing(c.got[u])
                      /\ \A i \in 1 .. Len(c.got[u]) : c.got[u][i] < content'.next[u]
                      /\ \A i \in 1 .. Len(c.got[u]), j \in 1 .. Len(content'.rows[u]) :
                           j > Len(c.got[u]) => c.got[u][i] < content'.rows[u][j]
    BY <1>1 DEF Ascending, Shrunk
  <2>1. /\ Increasing(c.got[u])
        /\ \A i \in 1 .. Len(c.got[u]) : c.got[u][i] < content.next[u]
        /\ \A i \in 1 .. Len(c.got[u]), j \in 1 .. Len(content.rows[u]) :
             j > Len(c.got[u]) => c.got[u][i] < content.rows[u][j]
    BY DEF Ascending
  <2>2. CASE u = t
    <3>1. ASSUME NEW i \in 1 .. Len(c.got[t]), NEW j \in 1 .. Len(fewer), j > Len(c.got[t])
          PROVE  c.got[t][i] < fewer[j]
      <4>1. /\ j \in 1 .. Len(rows) /\ j + 1 \in 1 .. Len(rows)
            /\ j \in 1 .. Len(rows) - 1 /\ j + 1 > Len(c.got[t])
        BY <1>4, <1>5, <2>2, <3>1
      <4>2. c.got[t][i] < rows[j] /\ c.got[t][i] < rows[j + 1]
        BY <2>1, <2>2, <3>1, <4>1 DEF rows
      <4> QED
        BY <1>5, <4>1, <4>2
    <3> QED
      BY <1>3, <2>1, <2>2, <3>1 DEF fewer
  <2>3. CASE u # t
    BY <1>3, <1>4, <2>1, <2>3
  <2> QED
    BY <2>2, <2>3
<1> QED
  BY <1>6, <1>7 DEF d


-----------------------------------------------------------------------------
(* The invariant is one.                                                     *)

LEMMA ReaderInit == Init => ReaderInv
<1> SUFFICES ASSUME Init PROVE ReaderInv
  OBVIOUS
<1> DEFINE rows == [t \in KnownTables |->
                       IF t \in TablesOf(db.schema) THEN FirstRows(t) ELSE << >>]
           next == [t \in KnownTables |->
                       IF t \in TablesOf(db.schema) THEN InitialRows[t] + 1 ELSE 1]
<1>1. content = [rows |-> rows, next |-> next, edits |-> 0]
  BY DEF Init
<1>2. \A t \in KnownTables : InitialRows[t] \in 0 .. MaxId
  BY ReaderAssumption
<1>3. \A t \in KnownTables :
        /\ FirstRows(t) \in Seq(RowId)
        /\ DOMAIN FirstRows(t) = 1 .. InitialRows[t]
        /\ \A i \in 1 .. InitialRows[t] : FirstRows(t)[i] = i
  <2> TAKE t \in KnownTables
  <2>1. InitialRows[t] \in Nat
    BY <1>2
  <2>2. FirstRows(t) \in [1 .. InitialRows[t] -> RowId]
    BY <1>2, Sizes DEF FirstRows, RowId
  <2> QED
    BY <2>1, <2>2, FunctionIsSeq DEF FirstRows
<1>4. /\ << >> \in Seq(RowId) /\ DOMAIN << >> = {}
  BY EmptySeq
<1>5. \A t \in KnownTables :
        /\ rows[t] \in Seq(RowId) /\ next[t] \in 1 .. MaxId + 1
        /\ Increasing(rows[t]) /\ \A i \in DOMAIN rows[t] : rows[t][i] < next[t]
  <2> TAKE t \in KnownTables
  <2>1. CASE t \in TablesOf(db.schema)
    <3>1. rows[t] = FirstRows(t) /\ next[t] = InitialRows[t] + 1
      BY <2>1
    <3>2. \A i \in 1 .. InitialRows[t] : i < InitialRows[t] + 1
      BY <1>2
    <3>3. InitialRows[t] + 1 \in 1 .. MaxId + 1
      BY <1>2, Sizes
    <3>4. Increasing(FirstRows(t))
      BY <1>3 DEF Increasing
    <3>5. \A i \in DOMAIN FirstRows(t) : FirstRows(t)[i] < InitialRows[t] + 1
      BY <1>3, <3>2
    <3> HIDE DEF rows, next
    <3> QED
      BY <1>3, <3>1, <3>3, <3>4, <3>5
  <2>2. CASE t \notin TablesOf(db.schema)
    <3>1. rows[t] = << >> /\ next[t] = 1
      BY <2>2
    <3> HIDE DEF rows, next
    <3> QED
      BY <1>4, <3>1, Sizes DEF Increasing
  <2> QED
    BY <2>1, <2>2
<1>6. content \in Content
  <2>1. rows \in [KnownTables -> Seq(RowId)] /\ next \in [KnownTables -> 1 .. MaxId + 1]
    BY <1>5
  <2> HIDE DEF rows, next
  <2> QED
    BY <1>1, <2>1, Sizes DEF Content
<1>7. InOrder(content)
  <2> HIDE DEF rows, next
  <2> QED
    BY <1>1, <1>5, <1>6 DEF InOrder
<1>8. ContentInv
  BY <1>7 DEF Init, ContentInv
<1>9. ReadsOK /\ Received
  BY DEF Init, ReadsOK, Received
<1> QED
  BY <1>8, <1>9 DEF ReaderInv

LEMMA CallsGoOn ==
    ASSUME ReadsOK, NEW r \in Readers, reads[r] # NoRead
    PROVE  CallOK(reads[r])
BY DEF ReadsOK

\* Rows changed: every call in progress has got louder.
LEMMA DisturbedKeeps ==
    ASSUME ReaderInv, NEW level \in {Grown, Shrunk, Restored},
           reads' = Disturbed(level),
           \A r \in Readers : reads[r] # NoRead =>
             LET d == Louder(reads[r], level) IN
             Prefix(d, content') /\ Ascending(d, content')
    PROVE  ReadsOK' /\ Received'
<1>1. ReadsOK
  BY DEF ReaderInv
<1>2. DOMAIN reads' = Readers
  BY DEF Disturbed
<1>3. \A r \in Readers :
        reads'[r] = IF reads[r] = NoRead THEN NoRead ELSE Louder(reads[r], level)
  BY <1>1, DisturbedEffect
<1>4. \A r \in Readers : reads[r] # NoRead => CallOK(Louder(reads[r], level))
  BY <1>1, CallsGoOn, LouderIs
<1>5. ReadsOK'
  BY <1>2, <1>3, <1>4 DEF ReadsOK
<1>6. Received'
  BY <1>3 DEF Received
<1> QED
  BY <1>5, <1>6

LEMMA EditStep ==
    ASSUME ReaderInv, NEW t \in EditedTables, InsertRow(t) \/ DeleteRow(t)
    PROVE  ReaderInv'
<1>1. t \in KnownTables /\ InOrder(content) /\ ReadsOK
  BY ReaderAssumption DEF ReaderInv, ContentInv
<1>2. \A r \in Readers : reads[r] # NoRead =>
        CallOK(reads[r]) /\ Prefix(reads[r], content) /\ Ascending(reads[r], content)
  BY <1>1, CallsGoOn DEF ReaderInv, Received
<1>3. CASE InsertRow(t)
  <2>1. InOrder(content)'
    BY <1>1, <1>3, InsertEffect
  <2>2. ContentInv'
    BY <1>3, <2>1 DEF InsertRow, ReaderInv, ContentInv
  <2>3. reads' = Disturbed(Grown)
    BY <1>3 DEF InsertRow
  <2>4. ReadsOK' /\ Received'
    BY <1>1, <1>2, <1>3, <2>3, InsertKeeps, DisturbedKeeps
  <2> QED
    BY <2>2, <2>4 DEF ReaderInv
<1>4. CASE DeleteRow(t)
  <2>1. InOrder(content)'
    BY <1>1, <1>4, DeleteEffect
  <2>2. ContentInv'
    BY <1>4, <2>1 DEF DeleteRow, ReaderInv, ContentInv
  <2>3. reads' = Disturbed(Shrunk)
    BY <1>4 DEF DeleteRow
  <2>4. ReadsOK' /\ Received'
    BY <1>1, <1>2, <1>4, <2>3, DeleteKeeps, DisturbedKeeps
  <2> QED
    BY <2>2, <2>4 DEF ReaderInv
<1> QED
  BY <1>3, <1>4

\* After a rollback or a restore nothing is known of what was received before.
LEMMA RevertStep ==
    ASSUME ReaderInv, RollbackRows \/ RestoreRows PROVE ReaderInv'
<1>1. InOrder(content) /\ InOrder(contentCheckpoint) /\ InOrder(contentBackup) /\ ReadsOK
  BY DEF ReaderInv, ContentInv
<1>2. PICK saved \in {contentCheckpoint, contentBackup} : Revert(saved)
  BY DEF RollbackRows, RestoreRows
<1>3. UNCHANGED <<contentCheckpoint, contentBackup>>
  BY DEF RollbackRows, RestoreRows
<1>4. ContentInv'
  BY <1>1, <1>2, <1>3, RevertEffect DEF ContentInv
<1>5. reads' = Disturbed(Restored)
  BY <1>2 DEF Revert
<1>6. \A r \in Readers : reads[r] # NoRead =>
        LET d == Louder(reads[r], Restored) IN
        Prefix(d, content') /\ Ascending(d, content')
  <2> SUFFICES ASSUME NEW r \in Readers, reads[r] # NoRead
               PROVE  LET d == Louder(reads[r], Restored) IN
                      Prefix(d, content') /\ Ascending(d, content')
    OBVIOUS
  <2>1. CallOK(reads[r])
    BY <1>1, CallsGoOn
  <2>2. Louder(reads[r], Restored).noise \in Int /\ Restored <= Louder(reads[r], Restored).noise
    BY <2>1, LouderIs
  <2> QED
    BY <2>2 DEF Prefix, Ascending, Grown, Shrunk, Restored
<1>7. ReadsOK' /\ Received'
  BY <1>5, <1>6, DisturbedKeeps
<1> QED
  BY <1>4, <1>7 DEF ReaderInv

LEMMA MigrateStep == ReaderInv /\ Migrate => ReaderInv'
BY DEF Migrate, ReaderInv, ContentInv, ReadsOK, Received, contentVars

LEMMA StartStep ==
    ASSUME ReaderInv, NEW r \in Readers, ReadStart(r) PROVE ReaderInv'
<1>1. PICK kind \in Kinds : reads' = [reads EXCEPT ![r] =
            [kind  |-> kind,
             got   |-> [t \in Lists(kind) |-> << >>],
             left  |-> Lists(kind),
             noise |-> Still,
             began |-> [t \in Lists(kind) |-> Len(content.rows[t])]]]
  BY DEF ReadStart
<1>2. UNCHANGED contentVars
  BY DEF ReadStart
<1> DEFINE got == [t \in Lists(kind) |-> << >>]
           began == [t \in Lists(kind) |-> Len(content.rows[t])]
           c == [kind |-> kind, got |-> got, left |-> Lists(kind), noise |-> Still,
                 began |-> began]
<1>3. Lists(kind) \subseteq KnownTables
  BY ListsAre
<1>4. \A t \in KnownTables : Len(content.rows[t]) \in Nat
  BY LenProperties DEF ReaderInv, ContentInv, InOrder, Content
<1>5. got \in [Lists(kind) -> Seq(RowId)] /\ began \in [Lists(kind) -> Nat]
  BY <1>3, <1>4, EmptySeq
<1>6. CallOK(c)
  <2>1. /\ got \in UNION {[T -> Seq(RowId)] : T \in SUBSET KnownTables}
        /\ began \in UNION {[T -> Nat] : T \in SUBSET KnownTables}
        /\ Lists(kind) \in SUBSET KnownTables
    BY <1>3, <1>5
  <2> HIDE DEF got, began
  <2> QED
    BY <1>5, <2>1 DEF CallOK, Call
<1>7. \A t \in Lists(kind) :
        c.got[t] = << >> /\ Len(c.got[t]) = 0 /\ c.began[t] = Len(content.rows[t])
  BY EmptySeq
<1>8. c.kind = kind /\ c.left = Lists(kind) /\ c.noise = Still
  OBVIOUS
<1> HIDE DEF c
<1>9. Prefix(c, content)
  BY <1>3, <1>4, <1>7, <1>8 DEF Prefix
<1>10. Ascending(c, content)
  <2>1. \A t \in Lists(kind) : Increasing(c.got[t])
    BY <1>7 DEF Increasing
  <2> QED
    BY <1>7, <1>8, <2>1 DEF Ascending
<1>11. reads' = [reads EXCEPT ![r] = c]
  BY <1>1 DEF c
<1>12. ReadsOK'
  BY <1>6, <1>11 DEF ReaderInv, ReadsOK
<1>13. Received'
  BY <1>2, <1>9, <1>10, <1>11 DEF ReaderInv, ReadsOK, Received, contentVars
<1> QED
  BY <1>2, <1>12, <1>13 DEF ReaderInv, ContentInv, contentVars

LEMMA PageStep ==
    ASSUME ReaderInv, NEW r \in Readers, NEW t \in KnownTables, ReadPage(r, t)
    PROVE  ReaderInv'
<1> DEFINE c == reads[r]
<1>1. /\ CallOK(c) /\ t \in c.left
      /\ reads' = [reads EXCEPT ![r] = Turn(c, t)]
      /\ UNCHANGED <<schemaVars, contentVars>>
  BY PageEffect DEF ReaderInv
<1>2. c # NoRead /\ InOrder(content)
  BY <1>1, CallIsRead DEF ReaderInv, ContentInv
<1>3. Prefix(c, content) /\ Ascending(c, content)
  BY <1>2 DEF ReaderInv, Received
<1>4. CallOK(Turn(c, t))
  BY <1>1, <1>2, TurnIsCall
<1>5. Prefix(Turn(c, t), content) /\ Ascending(Turn(c, t), content)
  BY <1>1, <1>2, <1>3, TurnReceives
<1>6. ReadsOK'
  BY <1>1, <1>4 DEF ReaderInv, ReadsOK
<1>7. Received'
  BY <1>1, <1>5 DEF ReaderInv, ReadsOK, Received, contentVars
<1> QED
  BY <1>1, <1>6, <1>7 DEF ReaderInv, ContentInv, contentVars

LEMMA EndStep ==
    ASSUME ReaderInv, NEW r \in Readers, EndRead(r) PROVE ReaderInv'
<1>1. reads' = [reads EXCEPT ![r] = NoRead] /\ UNCHANGED contentVars
  BY DEF EndRead
<1> QED
  BY <1>1 DEF ReaderInv, ContentInv, ReadsOK, Received, contentVars

LEMMA ReaderStep == ReaderInv /\ [Next]_vars => ReaderInv'
<1> SUFFICES ASSUME ReaderInv, [Next]_vars PROVE ReaderInv'
  OBVIOUS
<1>1. CASE \E t \in EditedTables : InsertRow(t) \/ DeleteRow(t)
  BY <1>1, EditStep
<1>2. CASE Migrate
  BY <1>2, MigrateStep
<1>3. CASE RollbackRows \/ RestoreRows
  BY <1>3, RevertStep
<1>4. ASSUME NEW r \in Readers, ReadStart(r) PROVE ReaderInv'
  BY <1>4, StartStep
<1>5. ASSUME NEW r \in Readers, NEW t \in KnownTables, ReadPage(r, t) PROVE ReaderInv'
  BY <1>5, PageStep
<1>6. ASSUME NEW r \in Readers,
             \/ \E t \in KnownTables : ReadUndecodable(r, t)
             \/ ReadFails(r)
             \/ ReadReturns(r)
      PROVE  ReaderInv'
  <2>1. EndRead(r)
    BY <1>6 DEF ReadUndecodable, ReadFails, ReadReturns
  <2> QED
    BY <2>1, EndStep
<1>7. CASE UNCHANGED vars
  BY <1>7 DEF vars, contentVars, ReaderInv, ContentInv, ReadsOK, Received
<1> QED
  BY <1>1, <1>2, <1>3, <1>4, <1>5, <1>6, <1>7 DEF Next

LEMMA ReaderAlways == Spec => []ReaderInv
BY ReaderInit, ReaderStep, PTL DEF Spec


-----------------------------------------------------------------------------
(* The theorems about what is received.                                      *)

LEMMA TypesFollow == ReaderInv /\ SchemaTypeOK => TypeOK
<1> SUFFICES ASSUME ReaderInv, SchemaTypeOK PROVE TypeOK
  OBVIOUS
<1>1. content \in [rows  : [KnownTables -> Seq(RowId)],
                   next  : [KnownTables -> 1 .. MaxId + 1],
                   edits : 0 .. MaxEdits]
  BY DEF ReaderInv, ContentInv, InOrder, Content
<1>2. ASSUME NEW r \in Readers, reads[r] # NoRead
      PROVE  /\ reads[r].kind \in Kinds
             /\ reads[r].left \subseteq Lists(reads[r].kind)
             /\ reads[r].got \in [Lists(reads[r].kind) -> Seq(RowId)]
  <2>1. CallOK(reads[r])
    BY <1>2, CallsGoOn DEF ReaderInv
  <2> QED
    BY <2>1 DEF CallOK, Call
<1> QED
  BY <1>1, <1>2 DEF TypeOK

LEMMA GrowingListsFollow == ReaderInv => GrowingListsComplete
<1> SUFFICES ASSUME ReaderInv, NEW r \in Readers, reads[r] # NoRead,
                    reads[r].noise <= Grown, NEW t \in Listed(r)
             PROVE  /\ Len(reads[r].got[t]) >= reads[r].began[t]
                    /\ reads[r].got[t] = SubSeq(content.rows[t], 1, Len(reads[r].got[t]))
  BY DEF GrowingListsComplete
<1> DEFINE c == reads[r]  got == c.got[t]  rows == content.rows[t]
<1>1. CallOK(c) /\ t \in Lists(c.kind) /\ t \notin c.left
  BY CallsGoOn DEF ReaderInv, Listed
<1>2. t \in KnownTables /\ got \in Seq(RowId) /\ c.began[t] \in Nat
  BY <1>1, ListsAre DEF CallOK, Call
<1>3. rows \in Seq(RowId)
  BY <1>2 DEF ReaderInv, ContentInv, InOrder, Content
<1>4. Len(got) \in Nat /\ Len(rows) \in Nat
  BY <1>2, <1>3, LenProperties
<1>5. /\ Len(got) <= Len(rows) /\ c.began[t] <= Len(got)
      /\ \A i \in 1 .. Len(got) : got[i] = rows[i]
  BY <1>1 DEF ReaderInv, Received, Prefix
<1> HIDE DEF got, rows
<1>6. \A i \in 1 .. Len(got) : rows[i] \in RowId
  BY <1>3, <1>4, <1>5, ElementOfSeq
<1> DEFINE first == SubSeq(rows, 1, Len(got))
<1>7. /\ first \in Seq(RowId)
      /\ Len(first) = Len(got)
      /\ \A i \in 1 .. Len(got) : first[i] = rows[i]
  <2>1. /\ first \in Seq(RowId)
        /\ Len(first) = IF 1 <= Len(got) THEN Len(got) - 1 + 1 ELSE 0
        /\ \A i \in 1 .. Len(got) - 1 + 1 : first[i] = rows[1 + i - 1]
    BY <1>4, <1>6, SubSeqProperties
  <2> HIDE DEF first
  <2> QED
    BY <1>4, <2>1
<1> HIDE DEF first
<1>8. got = first
  BY <1>2, <1>5, <1>7, SeqEqual
<1> QED
  BY <1>2, <1>4, <1>5, <1>8 DEF got, rows, first

\* Paging by offset loses no row of a table that only grows, whatever its size
\* and that of the pages, and however many calls and migrations overlap.
THEOREM GrowingListsLoseNothing == Spec => []GrowingListsComplete
BY GrowingListsFollow, ReaderAlways, PTL

LEMMA NothingTwiceFollows == ReaderInv => NothingListedTwice
<1> SUFFICES ASSUME ReaderInv, NEW r \in Readers, reads[r] # NoRead,
                    reads[r].noise <= Shrunk, NEW t \in Lists(reads[r].kind),
                    NEW i \in DOMAIN reads[r].got[t], NEW j \in DOMAIN reads[r].got[t],
                    reads[r].got[t][i] = reads[r].got[t][j]
             PROVE  i = j
  BY DEF NothingListedTwice
<1> DEFINE got == reads[r].got[t]
<1>1. got \in Seq(RowId)
  BY CallsGoOn DEF ReaderInv, CallOK
<1>2. DOMAIN got = 1 .. Len(got) /\ Len(got) \in Nat /\ \A k \in 1 .. Len(got) : got[k] \in Int
  <2>1. \A k \in 1 .. Len(got) : got[k] \in RowId
    BY <1>1, ElementOfSeq
  <2> QED
    BY <1>1, <2>1, LenProperties DEF RowId
<1>3. Increasing(got)
  BY DEF ReaderInv, Received, Ascending
<1> HIDE DEF got
<1>4. i \in 1 .. Len(got) /\ j \in 1 .. Len(got) /\ got[i] = got[j]
  BY <1>2 DEF got
<1> QED
  BY <1>2, <1>3, <1>4 DEF Increasing

\* Whatever is added and deleted between the pages of a call, it lists no row
\* twice unless the admin went back to earlier rows in the middle of it.
THEOREM NothingComesTwice == Spec => []NothingListedTwice
BY NothingTwiceFollows, ReaderAlways, PTL

\* What a call has that was not disturbed.
LEMMA UndisturbedIsExact ==
    ASSUME ReaderInv, NEW r \in Readers, reads[r] # NoRead,
           reads[r].left = {}, reads[r].noise = Still
    PROVE  \A t \in Lists(reads[r].kind) : reads[r].got[t] = content.rows[t]
<1> SUFFICES ASSUME NEW t \in Lists(reads[r].kind)
             PROVE  reads[r].got[t] = content.rows[t]
  OBVIOUS
<1> DEFINE c == reads[r]  got == c.got[t]  rows == content.rows[t]
<1>1. CallOK(c)
  BY CallsGoOn DEF ReaderInv
<1>2. t \in KnownTables /\ got \in Seq(RowId) /\ c.began[t] \in Nat
  BY <1>1, ListsAre DEF CallOK, Call
<1>3. rows \in Seq(RowId)
  BY <1>2 DEF ReaderInv, ContentInv, InOrder, Content
<1>4. Len(got) \in Nat /\ Len(rows) \in Nat
  BY <1>2, <1>3, LenProperties
<1>5. /\ Len(got) <= Len(rows)
      /\ \A i \in 1 .. Len(got) : got[i] = rows[i]
      /\ c.began[t] = Len(rows) /\ c.began[t] <= Len(got)
  BY DEF ReaderInv, Received, Prefix, Still, Grown
<1> HIDE DEF got, rows
<1>6. Len(got) = Len(rows)
  BY <1>4, <1>5
<1>7. got = rows
  BY <1>2, <1>3, <1>5, <1>6, SeqEqual
<1> QED
  BY <1>7 DEF got, rows

LEMMA AgreementFollows == ReaderInv => UndisturbedAnswersAgree
<1> SUFFICES ASSUME ReaderInv, NEW r \in Readers, reads[r] # NoRead,
                    reads[r].left = {}, reads[r].noise = Still
             PROVE  LET rows == content.rows  got == reads[r].got IN
                    /\ reads[r].kind = "events" => GetEvents(got) = GetEvents(rows)
                    /\ reads[r].kind = "info"   => GetInfo(got) = GetInfo(rows)
                    /\ reads[r].kind = "files"  => GetFiles(got) = Linked(rows)
  BY DEF UndisturbedAnswersAgree
<1>1. \A t \in Lists(reads[r].kind) : reads[r].got[t] = content.rows[t]
  BY UndisturbedIsExact
<1>2. CASE reads[r].kind = "events"
  <2>1. /\ reads[r].got["events"] = content.rows["events"]
        /\ reads[r].got["people"] = content.rows["people"]
    BY <1>1, <1>2, ListsAre
  <2>2. GetEvents(reads[r].got) = GetEvents(content.rows)
    BY <2>1 DEF GetEvents
  <2> QED
    BY <1>2, <2>2
<1>3. CASE reads[r].kind = "info"
  <2>1. /\ reads[r].got["about"] = content.rows["about"]
        /\ reads[r].got["links"] = content.rows["links"]
    BY <1>1, <1>3, ListsAre
  <2>2. GetInfo(reads[r].got) = GetInfo(content.rows)
    BY <2>1 DEF GetInfo
  <2> QED
    BY <1>3, <2>2
<1>4. CASE reads[r].kind = "files"
  <2>1. /\ reads[r].got["about"] = content.rows["about"]
        /\ reads[r].got["pages"] = content.rows["pages"]
        /\ reads[r].got["announcements"] = content.rows["announcements"]
    BY <1>1, <1>4, ListsAre
  <2>2. GetInfo(content.rows).about = Latest(content.rows["about"])
    BY DEF GetInfo
  <2>3. GetFiles(reads[r].got) = Linked(content.rows)
    BY <2>1, <2>2 DEF GetFiles, Linked
  <2> QED
    BY <1>4, <2>3
<1> QED
  BY <1>2, <1>3, <1>4

\* A call during which no row changed, whatever else went on, answers with what
\* is in the base, and the files it finds are those the other readers refer to.
THEOREM UndisturbedAnswersAreExact == Spec => []UndisturbedAnswersAgree
BY AgreementFollows, ReaderAlways, PTL


-----------------------------------------------------------------------------
(* What a stable sort returns.                                               *)

\* The positions that come before another.
Ahead(s, kept, key, j) == {i \in kept : Earlier(s, key, i, j)}

LEMMA EarlierIsOrder ==
    ASSUME NEW s, NEW key, NEW kept, kept \subseteq Int, \A i \in kept : key[s[i]] \in Int
    PROVE  /\ \A i \in kept : ~Earlier(s, key, i, i)
           /\ \A i, j \in kept : i # j => Earlier(s, key, i, j) \/ Earlier(s, key, j, i)
           /\ \A i, j, k \in kept :
                Earlier(s, key, i, j) /\ Earlier(s, key, j, k) => Earlier(s, key, i, k)
BY DEF Earlier

\* Positions have different ranks, which are in their order.
LEMMA RankIsInjection ==
    ASSUME NEW s, NEW key, NEW kept, kept \subseteq Int, IsFiniteSet(kept),
           \A i \in kept : key[s[i]] \in Int
    PROVE  LET rank == [j \in kept |-> Rank(s, kept, key, j)] IN
           /\ rank \in Bijection(kept, 1 .. Cardinality(kept))
           /\ \A i, j \in kept : Earlier(s, key, i, j) => rank[i] < rank[j]
<1> DEFINE N == Cardinality(kept)
           ahead(j) == Ahead(s, kept, key, j)
           rank == [j \in kept |-> Rank(s, kept, key, j)]
<1>1. /\ \A i \in kept : ~Earlier(s, key, i, i)
      /\ \A i, j \in kept : i # j => Earlier(s, key, i, j) \/ Earlier(s, key, j, i)
      /\ \A i, j, k \in kept :
           Earlier(s, key, i, j) /\ Earlier(s, key, j, k) => Earlier(s, key, i, k)
  BY EarlierIsOrder
<1>2. N \in Nat
  BY FS_CardinalityType
<1>3. \A j \in kept : /\ IsFiniteSet(ahead(j)) /\ Cardinality(ahead(j)) \in Nat
                      /\ ahead(j) \subseteq kept /\ j \notin ahead(j)
                      /\ Cardinality(ahead(j)) < N
  <2> TAKE j \in kept
  <2>1. ahead(j) \subseteq kept /\ j \notin ahead(j)
    BY <1>1 DEF Ahead
  <2>2. /\ IsFiniteSet(ahead(j))
        /\ Cardinality(ahead(j)) <= N
        /\ N = Cardinality(ahead(j)) => kept = ahead(j)
    BY <2>1, FS_Subset
  <2>3. Cardinality(ahead(j)) \in Nat
    BY <2>2, FS_CardinalityType
  <2> HIDE DEF ahead, N
  <2>4. Cardinality(ahead(j)) # N
    BY <2>1, <2>2
  <2> QED
    BY <1>2, <2>1, <2>2, <2>3, <2>4
<1>4. ASSUME NEW i \in kept, NEW j \in kept, Earlier(s, key, i, j)
      PROVE  Cardinality(ahead(i)) < Cardinality(ahead(j))
  <2>1. ahead(i) \subseteq ahead(j) /\ i \in ahead(j) /\ i \notin ahead(i)
    BY <1>1, <1>4 DEF Ahead
  <2>2. /\ Cardinality(ahead(i)) <= Cardinality(ahead(j))
        /\ Cardinality(ahead(j)) = Cardinality(ahead(i)) => ahead(j) = ahead(i)
    BY <1>3, <2>1, FS_Subset
  <2> HIDE DEF ahead
  <2>3. Cardinality(ahead(i)) # Cardinality(ahead(j))
    BY <2>1, <2>2
  <2> QED
    BY <1>3, <2>2, <2>3
<1>5. /\ \A j \in kept : rank[j] = 1 + Cardinality(ahead(j))
      /\ DOMAIN rank = kept
  BY DEF Rank, Ahead
<1> HIDE DEF ahead, N, rank
<1>6. \A j \in kept : rank[j] \in 1 .. N
  BY <1>2, <1>3, <1>5
<1>7. \A i, j \in kept : Earlier(s, key, i, j) => rank[i] < rank[j]
  <2> SUFFICES ASSUME NEW i \in kept, NEW j \in kept, Earlier(s, key, i, j)
               PROVE  rank[i] < rank[j]
    OBVIOUS
  <2>1. Cardinality(ahead(i)) < Cardinality(ahead(j))
    BY <1>4
  <2>2. Cardinality(ahead(i)) \in Nat /\ Cardinality(ahead(j)) \in Nat
    BY <1>3
  <2>3. rank[i] = 1 + Cardinality(ahead(i)) /\ rank[j] = 1 + Cardinality(ahead(j))
    BY <1>5
  <2> QED
    BY <2>1, <2>2, <2>3
<1>8. rank \in [kept -> 1 .. N]
  BY <1>6 DEF rank
<1>9. \A i, j \in kept : rank[i] = rank[j] => i = j
  <2> SUFFICES ASSUME NEW i \in kept, NEW j \in kept, i # j
               PROVE  rank[i] # rank[j]
    OBVIOUS
  <2>1. rank[i] \in Int /\ rank[j] \in Int
    <3>1. rank[i] \in 1 .. N /\ rank[j] \in 1 .. N
      BY <1>6
    <3>2. \A k \in 1 .. N : k \in Int
      OBVIOUS
    <3> QED
      BY <3>1, <3>2
  <2>2. Earlier(s, key, i, j) \/ Earlier(s, key, j, i)
    BY <1>1
  <2>3. rank[i] < rank[j] \/ rank[j] < rank[i]
    BY <1>7, <2>2
  <2> QED
    BY <2>1, <2>3
<1>10. rank \in Injection(kept, 1 .. N)
  BY <1>5, <1>8, <1>9 DEF Injection, IsInjective
<1>11. IsFiniteSet(1 .. N) /\ Cardinality(1 .. N) = N
  BY <1>2, FS_Interval
<1>12. rank \in Surjection(kept, 1 .. N)
  BY <1>10, <1>11, FS_Injection DEF N
<1> QED
  BY <1>7, <1>10, <1>12 DEF Bijection, rank, ahead, N

\* The result has exactly the kept positions' elements, each once, in order.
LEMMA StableSortSorts ==
    ASSUME NEW s, NEW key, NEW kept, kept \subseteq Int, IsFiniteSet(kept),
           \A i \in kept : key[s[i]] \in Int
    PROVE  LET sorted == StableSort(s, kept, key)  N == Cardinality(kept) IN
           /\ N \in Nat
           /\ DOMAIN sorted = 1 .. N
           /\ \E at \in Bijection(1 .. N, kept) :
                /\ \A n \in 1 .. N : sorted[n] = s[at[n]]
                /\ \A m, n \in 1 .. N : m < n => Earlier(s, key, at[m], at[n])
<1> DEFINE N == Cardinality(kept)
           rank == [j \in kept |-> Rank(s, kept, key, j)]
           at == [n \in 1 .. N |-> CHOOSE j \in kept : Rank(s, kept, key, j) = n]
           sorted == StableSort(s, kept, key)
<1>1. /\ rank \in Bijection(kept, 1 .. N)
      /\ \A i, j \in kept : Earlier(s, key, i, j) => rank[i] < rank[j]
  BY RankIsInjection
<1>2. N \in Nat
  BY FS_CardinalityType
<1>3. DOMAIN sorted = 1 .. N /\ \A n \in 1 .. N : sorted[n] = s[at[n]]
  BY DEF StableSort
<1>4. /\ rank \in [kept -> 1 .. N]
      /\ \A i, j \in kept : rank[i] = rank[j] => i = j
      /\ \A n \in 1 .. N : \E j \in kept : rank[j] = n
  BY <1>1 DEF Bijection, Injection, Surjection, IsInjective
<1>5. \A n \in 1 .. N : at[n] \in kept /\ rank[at[n]] = n
  BY <1>4
<1> HIDE DEF rank, sorted, N, at
<1>6. DOMAIN at = 1 .. N /\ at \in [1 .. N -> kept]
  BY <1>5 DEF at
<1>7. at \in Injection(1 .. N, kept)
  BY <1>5, <1>6 DEF Injection, IsInjective
<1>8. \A j \in kept : rank[j] \in 1 .. N /\ at[rank[j]] = j
  BY <1>4, <1>5
<1>9. at \in Surjection(1 .. N, kept)
  BY <1>6, <1>8 DEF Surjection
<1>10. ASSUME NEW m \in 1 .. N, NEW n \in 1 .. N, m < n
       PROVE  Earlier(s, key, at[m], at[n])
  <2>1. at[m] \in kept /\ at[n] \in kept /\ at[m] # at[n]
    BY <1>2, <1>5, <1>10
  <2>2. ~Earlier(s, key, at[n], at[m])
    <3>1. rank[at[n]] = n /\ rank[at[m]] = m
      BY <1>5
    <3>2. Earlier(s, key, at[n], at[m]) => n < m
      BY <1>1, <2>1, <3>1
    <3> QED
      BY <1>2, <1>10, <3>2
  <2> QED
    BY <2>1, <2>2, EarlierIsOrder
<1> QED
  BY <1>2, <1>3, <1>7, <1>9, <1>10 DEF Bijection, N, sorted


-----------------------------------------------------------------------------
(* The schedule.                                                             *)

\* The schedule of any records has every event that can be placed exactly
\* once, by start time and, among those that start together, by end time.
LEMMA ScheduleSorts ==
    ASSUME NEW events \in Seq(RowId)
    PROVE  LET out == Schedule(events)  N == Cardinality(Shown(events)) IN
           /\ N \in Nat /\ DOMAIN out = 1 .. N
           /\ \E at \in Bijection(1 .. N, Shown(events)) :
                /\ \A n \in 1 .. N : out[n] = events[at[n]]
                /\ \A m, n \in 1 .. N : m < n =>
                     \/ StartOf[out[m]] < StartOf[out[n]]
                     \/ StartOf[out[m]] = StartOf[out[n]] /\ EndOf[out[m]] <= EndOf[out[n]]
<1> DEFINE kept == Shown(events)
           N == Cardinality(kept)
           byEnd == StableSort(events, kept, EndOf)
           out == StableSort(byEnd, DOMAIN byEnd, StartOf)
<1>1. Len(events) \in Nat /\ DOMAIN events = 1 .. Len(events)
  BY LenProperties
<1>2. kept \subseteq Int /\ kept \subseteq DOMAIN events /\ IsFiniteSet(kept)
  <2>1. kept \subseteq 1 .. Len(events)
    BY <1>1 DEF Shown
  <2>2. IsFiniteSet(1 .. Len(events))
    BY <1>1, FS_Interval
  <2>3. IsFiniteSet(kept)
    BY <2>1, <2>2, FS_Subset
  <2> QED
    BY <1>1, <2>1, <2>3
<1>3. \A i \in kept : events[i] \in RowId
  BY <1>1, <1>2, ElementOfSeq
<1>4. \A e \in RowId : StartOf[e] \in Int /\ EndOf[e] \in Int
  BY ReaderAssumption
<1> HIDE DEF kept
<1>5. /\ N \in Nat
      /\ DOMAIN byEnd = 1 .. N
      /\ \E at \in Bijection(1 .. N, kept) :
           /\ \A n \in 1 .. N : byEnd[n] = events[at[n]]
           /\ \A m, n \in 1 .. N : m < n => Earlier(events, EndOf, at[m], at[n])
  BY <1>2, <1>3, <1>4, StableSortSorts
<1>6. PICK first \in Bijection(1 .. N, kept) :
           /\ \A n \in 1 .. N : byEnd[n] = events[first[n]]
           /\ \A m, n \in 1 .. N : m < n => Earlier(events, EndOf, first[m], first[n])
  BY <1>5
<1>7. \A n \in 1 .. N : first[n] \in kept
  BY <1>6 DEF Bijection, Injection
<1>8. IsFiniteSet(1 .. N) /\ Cardinality(1 .. N) = N
  BY <1>5, FS_Interval
<1>9. \A n \in 1 .. N : StartOf[byEnd[n]] \in Int
  BY <1>3, <1>4, <1>6, <1>7
<1> HIDE DEF byEnd, N
<1>10. /\ DOMAIN out = 1 .. N
       /\ \E at \in Bijection(1 .. N, 1 .. N) :
            /\ \A n \in 1 .. N : out[n] = byEnd[at[n]]
            /\ \A m, n \in 1 .. N : m < n => Earlier(byEnd, StartOf, at[m], at[n])
  <2>1. 1 .. N \subseteq Int
    BY <1>5
  <2>2. DOMAIN byEnd = 1 .. N
    BY <1>5
  <2> HIDE DEF out
  <2>3. out = StableSort(byEnd, 1 .. N, StartOf)
    BY <2>2 DEF out
  <2> DEFINE all == 1 .. N
  <2>4. all \subseteq Int /\ IsFiniteSet(all) /\ \A i \in all : StartOf[byEnd[i]] \in Int
    BY <1>8, <1>9, <2>1
  <2> HIDE DEF all
  <2>5. LET again == StableSort(byEnd, all, StartOf)  M == Cardinality(all) IN
        /\ DOMAIN again = 1 .. M
        /\ \E at \in Bijection(1 .. M, all) :
             /\ \A n \in 1 .. M : again[n] = byEnd[at[n]]
             /\ \A m, n \in 1 .. M : m < n => Earlier(byEnd, StartOf, at[m], at[n])
    BY <2>4, StableSortSorts
  <2> QED
    BY <1>8, <2>3, <2>5 DEF all
<1>11. PICK second \in Bijection(1 .. N, 1 .. N) :
            /\ \A n \in 1 .. N : out[n] = byEnd[second[n]]
            /\ \A m, n \in 1 .. N : m < n => Earlier(byEnd, StartOf, second[m], second[n])
  BY <1>10
<1>12. /\ \A n \in 1 .. N : second[n] \in 1 .. N
       /\ \A m, n \in 1 .. N : second[m] = second[n] => m = n
       /\ \A k \in 1 .. N : \E n \in 1 .. N : second[n] = k
       /\ DOMAIN second = 1 .. N
  BY <1>11 DEF Bijection, Injection, Surjection, IsInjective
<1>13. /\ \A m, n \in 1 .. N : first[m] = first[n] => m = n
       /\ \A k \in kept : \E n \in 1 .. N : first[n] = k
  BY <1>6 DEF Bijection, Injection, Surjection, IsInjective
<1> HIDE DEF out
<1> DEFINE at == [n \in 1 .. N |-> first[second[n]]]
<1>14. at \in Bijection(1 .. N, kept)
  <2>1. at \in [1 .. N -> kept] /\ DOMAIN at = 1 .. N
    BY <1>7, <1>12
  <2>2. \A m, n \in 1 .. N : at[m] = at[n] => m = n
    BY <1>12, <1>13
  <2>3. \A k \in kept : \E n \in 1 .. N : at[n] = k
    <3> TAKE k \in kept
    <3>1. PICK i \in 1 .. N : first[i] = k
      BY <1>13
    <3>2. PICK n \in 1 .. N : second[n] = i
      BY <1>12
    <3> QED
      BY <3>1, <3>2
  <2> HIDE DEF at
  <2> QED
    BY <2>1, <2>2, <2>3 DEF Bijection, Injection, Surjection, IsInjective
<1>15. \A n \in 1 .. N : out[n] = events[at[n]]
  BY <1>6, <1>11, <1>12
<1>16. ASSUME NEW m \in 1 .. N, NEW n \in 1 .. N, m < n
       PROVE  \/ StartOf[out[m]] < StartOf[out[n]]
              \/ StartOf[out[m]] = StartOf[out[n]] /\ EndOf[out[m]] <= EndOf[out[n]]
  <2> DEFINE i == second[m]  j == second[n]
  <2>1. i \in 1 .. N /\ j \in 1 .. N /\ out[m] = byEnd[i] /\ out[n] = byEnd[j]
    BY <1>11, <1>12
  <2>2. \/ StartOf[byEnd[i]] < StartOf[byEnd[j]]
        \/ StartOf[byEnd[i]] = StartOf[byEnd[j]] /\ i < j
    BY <1>11, <1>16 DEF Earlier
  <2> HIDE DEF i, j
  <2>3. i < j => EndOf[byEnd[i]] <= EndOf[byEnd[j]]
    <3> SUFFICES ASSUME i < j PROVE EndOf[byEnd[i]] <= EndOf[byEnd[j]]
      OBVIOUS
    <3>1. /\ byEnd[i] = events[first[i]] /\ byEnd[j] = events[first[j]]
          /\ Earlier(events, EndOf, first[i], first[j])
      BY <1>6, <2>1
    <3>2. EndOf[byEnd[i]] \in Int /\ EndOf[byEnd[j]] \in Int
      BY <1>3, <1>4, <1>7, <2>1, <3>1
    <3> QED
      BY <3>1, <3>2 DEF Earlier
  <2> QED
    BY <2>1, <2>2, <2>3
<1>17. Schedule(events) = out
  BY DEF Schedule, out, byEnd, kept
<1> HIDE DEF at
<1> QED
  BY <1>5, <1>10, <1>14, <1>15, <1>16, <1>17 DEF kept, N

LEMMA OrderFollows == ReaderInv => ScheduleInOrder
<1> SUFFICES ASSUME ReaderInv PROVE ScheduleInOrder
  OBVIOUS
<1> DEFINE events == content.rows["events"]  out == Schedule(events)
<1>1. "events" \in KnownTables
  BY DEF KnownTables
<1>2. events \in Seq(RowId)
  BY <1>1 DEF ReaderInv, ContentInv, InOrder, Content
<1> HIDE DEF events
<1>3. PICK N \in Nat :
        /\ DOMAIN out = 1 .. N
        /\ \A m, n \in 1 .. N : m < n =>
             \/ StartOf[out[m]] < StartOf[out[n]]
             \/ StartOf[out[m]] = StartOf[out[n]] /\ EndOf[out[m]] <= EndOf[out[n]]
  BY <1>2, ScheduleSorts
<1> HIDE DEF out
<1>4. \A i, j \in DOMAIN out : i < j =>
        \/ StartOf[out[i]] < StartOf[out[j]]
        \/ StartOf[out[i]] = StartOf[out[j]] /\ EndOf[out[i]] <= EndOf[out[j]]
  BY <1>3
<1> QED
  BY <1>4 DEF ScheduleInOrder, out, events

\* The two stable sorts of get_events sort by start time and then by end time,
\* whatever events the base has, equal times included.
THEOREM SchedulesAreInOrder == Spec => []ScheduleInOrder
BY OrderFollows, ReaderAlways, PTL

-----------------------------------------------------------------------------
(* The readers leave the base alone.                                         *)

\* With its rows and readers hidden, the base is that of Schema.
LEMMA BaseStep == [Next]_vars => [SchemaNext]_schemaVars
<1> SUFFICES ASSUME [Next]_vars PROVE [SchemaNext]_schemaVars
  OBVIOUS
<1>1. CASE Migrate
  BY <1>1 DEF Migrate, SchemaNext
<1>2. CASE RollbackRows \/ RestoreRows
  BY <1>2 DEF RollbackRows, RestoreRows, SchemaNext
<1>3. CASE \E t \in EditedTables : InsertRow(t) \/ DeleteRow(t)
  BY <1>3 DEF InsertRow, DeleteRow
<1>4. CASE \E r \in Readers :
             \/ ReadStart(r)
             \/ \E t \in KnownTables : ReadPage(r, t) \/ ReadUndecodable(r, t)
             \/ ReadFails(r)
             \/ ReadReturns(r)
  BY <1>4 DEF ReadStart, ReadPage, ReadUndecodable, ReadFails, ReadReturns, EndRead
<1>5. CASE UNCHANGED vars
  BY <1>5 DEF vars
<1> QED
  BY <1>1, <1>2, <1>3, <1>4, <1>5 DEF Next

\* DataReader refines Schema: whatever is read and edited meanwhile, the base
\* goes through the steps of the migrator and nothing else.
THEOREM ReadersLeaveSchemaAlone == Spec => SchemaSpec
<1>1. Init => SchemaInit
  BY DEF Init
<1> QED
  BY <1>1, BaseStep, PTL DEF Spec, SchemaSpec

\* The base, the rows and the calls are well typed: rows are IDs, and calls list
\* tables their reader knows.
THEOREM ReaderTypeCorrect == Spec => []TypeOK
<1>1. Spec => []SchemaTypeOK
  BY ReadersLeaveSchemaAlone, SchemaTypeCorrect, PTL
<1> QED
  BY <1>1, TypesFollow, ReaderAlways, PTL

\* An answer that cannot be decoded means that a table is gone: while all the
\* tables are there, no reader fails over a missing column, however far a
\* migration has come and whenever it fails.
THEOREM OnlyMissingTablesStopReaders ==
    Spec => [][\A r \in Readers, t \in KnownTables :
                 ReadUndecodable(r, t) => ~Resolvable(db.schema)]_vars
<1>1. Spec => []ReadersDecode
  BY ReadersLeaveSchemaAlone, ReadersNeverBreak, PTL
<1>2. ReadersDecode => [\A r \in Readers, t \in KnownTables :
                          ReadUndecodable(r, t) => ~Resolvable(db.schema)]_vars
  BY DEF ReadersDecode, ReadUndecodable
<1> QED
  BY <1>1, <1>2, PTL

=============================================================================
