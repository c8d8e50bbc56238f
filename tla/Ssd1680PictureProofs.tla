------------------------ MODULE Ssd1680PictureProofs ------------------------
(***************************************************************************)
(* What the panel shows: for every panel size, set of inks and caller, the *)
(* banks and the picture agree with what the flushes asked for, and every  *)
(* update runs on the waveform made for it.                                *)
(*                                                                         *)
(* Every call but sleep sends a part of one long sequence of commands, so  *)
(* a call in progress is known by the number of the next command, that of  *)
(* the last one, and the cells it refreshes.                               *)
(***************************************************************************)
EXTENDS Ssd1680Proofs, SequenceTheorems

Steps == <<"reset", "wait", "swreset", "wait", "config", "lutFull", "wait",                    \* 1 .. 7
           "modeFull", "ram24", "ram26", "updFull", "wait",                                    \* 8 .. 12
           "vcomPartial", "wait", "lutPartial", "loadLut", "wait", "modePartial",              \* 13 .. 18
           "ram24", "updPartial", "wait", "ram26">>                                            \* 19 .. 22

CellsAt(n, c) == IF n \in {9, 10} THEN Cells ELSE IF n \in {19, 22} THEN c ELSE {}

Segment(i, j, c) == [k \in 1 .. j - i + 1 |-> OpOn(Steps[i + k - 1], CellsAt(i + k - 1, c))]

\* Where calls end: a wake, a full refresh, a partial one of nothing or of some cells.
Ends == {8, 12, 18, 22}

-----------------------------------------------------------------------------
(* What is so before each command.                                         *)

Over(c) == [x \in Cells |-> IF x \in c THEN fb[x] ELSE shown[x]]

InSync == shown = want /\ ram24 = want /\ ram26 = want

\* The mode tells what the call in progress has done, and sleep what is trusted.
Modes(i, j) ==
    /\ j = 8 => ~seeded
    /\ i <= 12 /\ j >= 12 => seeded /\ want = fb
    /\ i \in 9 .. 18 => mode = "FULL"
    /\ i >= 19 => mode = "PARTIAL"
    /\ i >= 13 /\ FullFirst => seeded

\* The waveform, once a reset has been heard.
Waveform(i) ==
    ~late =>
        /\ i >= 6 => panel.config
        /\ i \in 6 .. 12 => panel.vcom = "full"
        /\ i \in 7 .. 12 => panel.lut = "full"
        /\ i >= 14 => panel.vcom = "partial"
        /\ i >= 16 => panel.lut = "partial"

\* The banks and the picture, from the first bank written.
Banks(i, c) ==
    ~late /\ seeded =>
        /\ i \in 10 .. 12 => ram24 = want
        /\ i \in 11 .. 12 => ram26 = want
        /\ i = 12 => shown = want
        /\ i \in 13 .. 19 => want = Over(c) /\ ram24 = shown /\ ram26 = shown
        /\ i = 20 => want = Over(c) /\ ram24 = want /\ ram26 = shown
        /\ i \in 21 .. 22 => ram24 = want /\ shown = want
                             /\ \A x \in Cells : IF x \in c THEN want[x] = fb[x] ELSE ram26[x] = want[x]
        /\ i = 23 => InSync

Facts(i, j, c) == Modes(i, j) /\ Waveform(i) /\ Banks(i, c)

InProgress(i, j, c) == todo = Segment(i, j, c) /\ (j # 22 => c = {}) /\ Facts(i, j, c)

Sleeps == todo \in {Sleep, <<Op("modeNone")>>} /\ ~seeded

AtRest ==
    /\ todo = <<>>
    /\ ~ready => mode = "NONE"
    /\ mode = "NONE" => ~seeded
    /\ ~late =>
        /\ mode \in {"FULL", "PARTIAL"} => panel.config
        /\ mode = "PARTIAL" => panel.vcom = "partial" /\ panel.lut = "partial"
        /\ seeded => InSync

Place ==
    \/ AtRest
    \/ Sleeps
    \/ \E j \in Ends : \E i \in 1 .. j : \E c \in SUBSET Cells : InProgress(i, j, c)

-----------------------------------------------------------------------------
(* Segments.                                                               *)

LEMMA StepIs ==
    /\ Steps[1] = "reset" /\ Steps[2] = "wait" /\ Steps[3] = "swreset" /\ Steps[4] = "wait"
    /\ Steps[5] = "config" /\ Steps[6] = "lutFull" /\ Steps[7] = "wait" /\ Steps[8] = "modeFull"
    /\ Steps[9] = "ram24" /\ Steps[10] = "ram26" /\ Steps[11] = "updFull" /\ Steps[12] = "wait"
    /\ Steps[13] = "vcomPartial" /\ Steps[14] = "wait" /\ Steps[15] = "lutPartial"
    /\ Steps[16] = "loadLut" /\ Steps[17] = "wait" /\ Steps[18] = "modePartial"
    /\ Steps[19] = "ram24" /\ Steps[20] = "updPartial" /\ Steps[21] = "wait" /\ Steps[22] = "ram26"
BY DEF Steps

\* Where the commands other than the writes are.
LEMMA StepNamed ==
    ASSUME NEW n \in 1 .. 22
    PROVE  /\ Steps[n] = "reset" <=> n = 1
           /\ Steps[n] = "wait" <=> n \in {2, 4, 7, 12, 14, 17, 21}
           /\ Steps[n] = "modeFull" <=> n = 8
           /\ Steps[n] = "modePartial" <=> n = 18
           /\ Steps[n] = "updFull" <=> n = 11
           /\ Steps[n] = "updPartial" <=> n = 20
           /\ Steps[n] \notin {"sleep", "modeNone"}
<1>1. n \in {1, 2, 3, 4, 5, 6, 7, 8, 9, 10, 11, 12, 13, 14, 15, 16, 17, 18, 19, 20, 21, 22}
  OBVIOUS
<1> QED
  BY <1>1, StepIs

LEMMA StepIsCommand ==
    ASSUME NEW n \in 1 .. 22, NEW c \in SUBSET Cells
    PROVE  OpOn(Steps[n], CellsAt(n, c)) \in Command
<1>1. Steps[n] \in Ops
  BY StepIs DEF Ops
<1>2. CellsAt(n, c) \in SUBSET Cells
  BY DEF CellsAt
<1> QED
  BY <1>1, <1>2 DEF OpOn, Command

LEMMA SegmentIs ==
    ASSUME NEW i \in 1 .. 23, NEW j \in 0 .. 22, i <= j + 1, NEW c \in SUBSET Cells
    PROVE  /\ Segment(i, j, c) \in Seq(Command)
           /\ Len(Segment(i, j, c)) = j - i + 1
<1>1. \A k \in 1 .. j - i + 1 : OpOn(Steps[i + k - 1], CellsAt(i + k - 1, c)) \in Command
  BY StepIsCommand
<1>2. j - i + 1 \in Nat
  OBVIOUS
<1>3. Segment(i, j, c) \in [1 .. j - i + 1 -> Command]
  BY <1>1 DEF Segment
<1>4. Segment(i, j, c) \in Seq(Command)
  BY <1>2, <1>3, SeqDef
<1>5. Len(Segment(i, j, c)) = j - i + 1
  BY <1>2, <1>3, <1>4, LenProperties
<1> QED
  BY <1>4, <1>5

\* A segment up to m goes on with one from n.
Meets(i, m, n, j) ==
    /\ i \in 1 .. 22 /\ m \in 0 .. 22 /\ n \in 1 .. 23 /\ j \in 0 .. 22
    /\ n = m + 1 /\ i <= n /\ m <= j

Joins(i, m, n, j, c) == Segment(i, m, c) \o Segment(n, j, c) = Segment(i, j, c)

LEMMA SegmentSplits ==
    ASSUME NEW c \in SUBSET Cells, NEW i, NEW m, NEW n, NEW j, Meets(i, m, n, j)
    PROVE  Joins(i, m, n, j, c)
<1> DEFINE s == Segment(i, m, c)
           t == Segment(n, j, c)
           u == Segment(i, j, c)
<1>0. /\ i \in 1 .. 22 /\ m \in 0 .. 22 /\ n \in 1 .. 23 /\ j \in 0 .. 22
      /\ n = m + 1 /\ i <= n /\ m <= j
  BY DEF Meets
<1>1. s \in Seq(Command) /\ Len(s) = m - i + 1
  <2>1. i \in 1 .. 23 /\ i <= m + 1
    BY <1>0
  <2> QED
    BY <1>0, <2>1, SegmentIs
<1>2. t \in Seq(Command) /\ Len(t) = j - m
  <2>1. n <= j + 1 /\ j - n + 1 = j - m
    BY <1>0
  <2> QED
    BY <1>0, <2>1, SegmentIs
<1>3. u \in Seq(Command) /\ Len(u) = j - i + 1
  <2>1. i \in 1 .. 23 /\ i <= j + 1
    BY <1>0
  <2> QED
    BY <1>0, <2>1, SegmentIs
<1>4. /\ \A k \in 1 .. m - i + 1 : s[k] = OpOn(Steps[i + k - 1], CellsAt(i + k - 1, c))
      /\ \A k \in 1 .. j - i + 1 : u[k] = OpOn(Steps[i + k - 1], CellsAt(i + k - 1, c))
  BY <1>0 DEF Segment
<1>5. \A k \in 1 .. j - m : t[k] = OpOn(Steps[m + k], CellsAt(m + k, c))
  <2>1. j - n + 1 = j - m /\ \A k \in 1 .. j - m : n + k - 1 = m + k
    BY <1>0
  <2> QED
    BY <1>0, <2>1 DEF Segment
<1> HIDE DEF s, t, u
<1>6. /\ s \o t \in Seq(Command) /\ Len(s \o t) = Len(s) + Len(t)
      /\ \A k \in 1 .. Len(s) + Len(t) : (s \o t)[k] = IF k <= Len(s) THEN s[k] ELSE t[k - Len(s)]
  BY <1>0, <1>1, <1>2, ConcatProperties
<1>7. ASSUME NEW k \in 1 .. j - i + 1 PROVE (s \o t)[k] = u[k]
  <2>1. CASE k <= m - i + 1
    BY <1>0, <1>1, <1>2, <1>4, <1>6, <2>1
  <2>2. CASE ~(k <= m - i + 1)
    <3>1. k - (m - i + 1) \in 1 .. j - m /\ m + (k - (m - i + 1)) = i + k - 1
      BY <1>0, <2>2
    <3>2. k \in 1 .. Len(s) + Len(t) /\ ~(k <= Len(s))
      BY <1>0, <1>1, <1>2, <2>2
    <3>3. (s \o t)[k] = t[k - Len(s)]
      BY <1>6, <3>2
    <3> QED
      BY <1>0, <1>1, <1>4, <1>5, <3>1, <3>3
  <2> QED
    BY <2>1, <2>2
<1>8. Len(s \o t) = Len(u)
  BY <1>0, <1>1, <1>2, <1>3, <1>6
<1>9. s \o t = u
  BY <1>3, <1>6, <1>7, <1>8, SeqEqual
<1> QED
  BY <1>9 DEF s, t, u, Joins

\* What is sent next, and what is left.
LEMMA SegmentHead ==
    ASSUME NEW i \in 1 .. 22, NEW j \in 1 .. 22, i <= j, NEW c \in SUBSET Cells
    PROVE  /\ Segment(i, j, c) # <<>>
           /\ Head(Segment(i, j, c)) = OpOn(Steps[i], CellsAt(i, c))
           /\ Tail(Segment(i, j, c)) = Segment(i + 1, j, c)
<1> DEFINE s == Segment(i, j, c)
           t == Segment(i + 1, j, c)
<1>1. s \in Seq(Command) /\ Len(s) = j - i + 1
  <2>1. i \in 1 .. 23 /\ j \in 0 .. 22 /\ i <= j + 1
    OBVIOUS
  <2> QED
    BY <2>1, SegmentIs
<1>2. t \in Seq(Command) /\ Len(t) = j - i
  <2>1. i + 1 \in 1 .. 23 /\ j \in 0 .. 22 /\ i + 1 <= j + 1 /\ j - (i + 1) + 1 = j - i
    OBVIOUS
  <2> HIDE DEF t
  <2>2. Segment(i + 1, j, c) \in Seq(Command) /\ Len(Segment(i + 1, j, c)) = j - (i + 1) + 1
    BY <2>1, SegmentIs
  <2> QED
    BY <2>1, <2>2 DEF t
<1>3. \A k \in 1 .. j - i + 1 : s[k] = OpOn(Steps[i + k - 1], CellsAt(i + k - 1, c))
  BY DEF Segment
<1>4. \A k \in 1 .. j - i : t[k] = OpOn(Steps[i + k], CellsAt(i + k, c))
  <2>1. j - (i + 1) + 1 = j - i /\ \A k \in 1 .. j - i : (i + 1) + k - 1 = i + k
    OBVIOUS
  <2> QED
    BY <2>1 DEF Segment
<1> HIDE DEF s, t
<1>5. s # <<>> /\ Head(s) = s[1] /\ Tail(s) \in Seq(Command) /\ Len(Tail(s)) = Len(s) - 1
      /\ \A k \in 1 .. Len(s) - 1 : Tail(s)[k] = s[k + 1]
  BY <1>1
<1>6. s[1] = OpOn(Steps[i], CellsAt(i, c))
  BY <1>3
<1>7. \A k \in 1 .. j - i : Tail(s)[k] = t[k]
  BY <1>1, <1>3, <1>4, <1>5
<1>8. Len(Tail(s)) = Len(t)
  BY <1>1, <1>2, <1>5
<1>9. Tail(s) = t
  BY <1>2, <1>5, <1>7, <1>8, SeqEqual
<1> QED
  BY <1>5, <1>6, <1>9 DEF s, t

LEMMA SegmentEnds ==
    ASSUME NEW j \in 0 .. 22, NEW c \in SUBSET Cells
    PROVE  Segment(j + 1, j, c) = <<>>
<1>1. Segment(j + 1, j, c) \in Seq(Command) /\ Len(Segment(j + 1, j, c)) = 0
  <2>1. j + 1 \in 1 .. 23 /\ j - (j + 1) + 1 = 0
    OBVIOUS
  <2> QED
    BY <2>1, SegmentIs
<1> QED
  BY <1>1, EmptySeq

-----------------------------------------------------------------------------
(* The calls as segments.                                                  *)

\* A segment from i to j has n commands, and s has those that start at step i.
Spans(i, j, n) == i \in 1 .. 22 /\ j \in 1 .. 22 /\ n \in 1 .. 22 /\ j = i + n - 1

StepsFrom(i, c, s) == \A k \in 1 .. Len(s) : s[k] = OpOn(Steps[i + k - 1], CellsAt(i + k - 1, c))

LEMMA SegmentOfSteps ==
    ASSUME NEW c \in SUBSET Cells, NEW s \in Seq(Command), NEW i, NEW j, Spans(i, j, Len(s)), StepsFrom(i, c, s)
    PROVE  s = Segment(i, j, c)
<1> DEFINE t == Segment(i, j, c)
           n == Len(s)
<1>1. t \in Seq(Command) /\ Len(t) = n
  <2>1. i \in 1 .. 23 /\ j \in 0 .. 22 /\ i <= j + 1 /\ j - i + 1 = n
    BY DEF Spans
  <2> QED
    BY <2>1, SegmentIs
<1>2. \A k \in 1 .. n : t[k] = OpOn(Steps[i + k - 1], CellsAt(i + k - 1, c))
  <2>1. j - i + 1 = n
    BY DEF Spans
  <2> QED
    BY <2>1 DEF Segment
<1> HIDE DEF t
<1>3. s = t
  BY <1>1, <1>2, SeqEqual DEF StepsFrom
<1> QED
  BY <1>3 DEF t

LEMMA InitFullIs ==
    ASSUME NEW c \in SUBSET Cells
    PROVE  InitFull = Segment(1, 7, c)
<1>1. InitFull \in Seq(Command) /\ Len(InitFull) = 7
  BY InitFullProgram DEF Program, InitFull
<1>2. StepsFrom(1, c, InitFull)
  BY <1>1, StepIs DEF StepsFrom, InitFull, Op, OpOn, CellsAt
<1>3. Spans(1, 7, Len(InitFull))
  BY <1>1 DEF Spans
<1> QED
  BY <1>1, <1>2, <1>3, SegmentOfSteps, Zenon

Drive == <<Op("modeFull"), OpOn("ram24", Cells), OpOn("ram26", Cells), Op("updFull"), Op("wait")>>

LEMMA DriveIs ==
    ASSUME NEW c \in SUBSET Cells
    PROVE  Drive = Segment(8, 12, c)
<1>1. Drive \in Seq(Command) /\ Len(Drive) = 5
  BY DEF Drive, Command, Ops, Op, OpOn
<1>2. StepsFrom(8, c, Drive)
  BY <1>1, StepIs DEF StepsFrom, Drive, Op, OpOn, CellsAt
<1>3. Spans(8, 12, Len(Drive))
  BY <1>1 DEF Spans
<1> QED
  BY <1>1, <1>2, <1>3, SegmentOfSteps, Zenon

ToPartial == <<Op("vcomPartial"), Op("wait"), Op("lutPartial"), Op("loadLut"), Op("wait"), Op("modePartial")>>

LEMMA ToPartialIs ==
    ASSUME NEW c \in SUBSET Cells
    PROVE  Append(InitPartial, Op("modePartial")) = Segment(13, 18, c)
<1>1. ToPartial \in Seq(Command) /\ Len(ToPartial) = 6
  BY DEF ToPartial, Command, Ops, Op
<1>2. StepsFrom(13, c, ToPartial)
  BY <1>1, StepIs DEF StepsFrom, ToPartial, Op, OpOn, CellsAt
<1>3. Spans(13, 18, Len(ToPartial))
  BY <1>1 DEF Spans
<1>4. ToPartial = Segment(13, 18, c)
  BY <1>1, <1>2, <1>3, SegmentOfSteps, Zenon
<1>5. Append(InitPartial, Op("modePartial")) = ToPartial
  <2> DEFINE s == Append(InitPartial, Op("modePartial"))
  <2>1. InitPartial \in Seq(Command) /\ Len(InitPartial) = 5 /\ Op("modePartial") \in Command
    BY DEF InitPartial, Command, Ops, Op
  <2>2. s \in Seq(Command) /\ Len(s) = 6 /\ s[6] = Op("modePartial")
        /\ \A k \in 1 .. 5 : s[k] = InitPartial[k]
    <3>1. ASSUME NEW u \in Seq(Command), NEW e \in Command, Len(u) = 5
          PROVE  /\ Append(u, e) \in Seq(Command) /\ Len(Append(u, e)) = 6 /\ Append(u, e)[6] = e
                 /\ \A k \in 1 .. 5 : Append(u, e)[k] = u[k]
      <4>1. /\ Append(u, e) \in Seq(Command) /\ Len(Append(u, e)) = Len(u) + 1 /\ Append(u, e)[Len(u) + 1] = e
            /\ \A k \in 1 .. Len(u) : Append(u, e)[k] = u[k]
        <5> HIDE DEF Command
        <5>1. Append(u, e) \in Seq(Command)
          OBVIOUS
        <5>2. Len(Append(u, e)) = Len(u) + 1
          OBVIOUS
        <5>3. Append(u, e)[Len(u) + 1] = e
          OBVIOUS
        <5>4. \A k \in 1 .. Len(u) : Append(u, e)[k] = u[k]
          OBVIOUS
        <5> QED
          BY <5>1, <5>2, <5>3, <5>4
      <4> QED
        BY <3>1, <4>1
    <3> QED
      BY <2>1, <3>1, Zenon
  <2>3. \A k \in 1 .. 6 : s[k] = ToPartial[k]
    <3>1. ToPartial[6] = Op("modePartial") /\ \A k \in 1 .. 5 : InitPartial[k] = ToPartial[k]
      BY DEF ToPartial, InitPartial
    <3> QED
      BY <2>2, <3>1
  <2> HIDE DEF s
  <2>4. s = ToPartial
    BY <1>1, <2>2, <2>3, SeqEqual
  <2> QED
    BY <2>4 DEF s
<1> QED
  BY <1>4, <1>5

LEMMA WriteAndUpdateIs ==
    ASSUME NEW c \in SUBSET Cells
    PROVE  WriteAndUpdate(c) = Segment(19, 22, c)
<1> DEFINE s == WriteAndUpdate(c)
<1>1. s \in Seq(Command) /\ Len(s) = 4
  BY DEF WriteAndUpdate, Command, Ops, Op, OpOn
<1>2. StepsFrom(19, c, s)
  BY <1>1, StepIs DEF StepsFrom, WriteAndUpdate, Op, OpOn, CellsAt
<1>3. Spans(19, 22, Len(s))
  BY <1>1 DEF Spans
<1> HIDE DEF s
<1>4. s = Segment(19, 22, c)
  BY <1>1, <1>2, <1>3, SegmentOfSteps, Zenon
<1> QED
  BY <1>4 DEF s

\* Where the parts of the calls meet.
LEMMA PartsMeet ==
    ASSUME NEW c \in SUBSET Cells
    PROVE  /\ Segment(1, 7, c) \o Segment(8, 8, c) = Segment(1, 8, c)
           /\ Segment(1, 7, c) \o Segment(8, 12, c) = Segment(1, 12, c)
           /\ Segment(1, 12, c) \o Segment(13, 18, c) = Segment(1, 18, c)
           /\ Segment(1, 18, c) \o Segment(19, 22, c) = Segment(1, 22, c)
           /\ Segment(13, 18, c) \o Segment(19, 22, c) = Segment(13, 22, c)
<1>1. Meets(1, 7, 8, 8) /\ Meets(1, 7, 8, 12) /\ Meets(1, 12, 13, 18) /\ Meets(1, 18, 19, 22)
      /\ Meets(13, 18, 19, 22)
  BY DEF Meets
<1>2. Joins(1, 7, 8, 8, c) /\ Joins(1, 7, 8, 12, c) /\ Joins(1, 12, 13, 18, c)
      /\ Joins(1, 18, 19, 22, c) /\ Joins(13, 18, 19, 22, c)
  BY <1>1, SegmentSplits
<1> QED
  BY <1>2, Zenon DEF Joins

LEMMA RefreshFullIs ==
    ASSUME NEW c \in SUBSET Cells
    PROVE  RefreshFull = Segment(1, 12, c)
BY InitFullIs, DriveIs, PartsMeet, Zenon DEF RefreshFull, Drive

LEMMA WakeIs == Wake = Segment(1, 8, {})
<1> DEFINE s == <<Op("modeFull")>>
<1>1. s \in Seq(Command) /\ Len(s) = 1 /\ {} \in SUBSET Cells
  BY DEF Command, Ops, Op
<1>2. StepsFrom(8, {}, s)
  BY <1>1, StepIs DEF StepsFrom, Op, OpOn, CellsAt
<1>3. Spans(8, 8, Len(s))
  BY <1>1 DEF Spans
<1>4. Wake = InitFull \o s
  BY InitFullProgram DEF Wake, Program
<1> HIDE DEF s
<1>5. s = Segment(8, 8, {})
  BY <1>1, <1>2, <1>3, SegmentOfSteps, Zenon
<1> QED
  BY <1>1, <1>4, <1>5, InitFullIs, PartsMeet, Zenon

\* The mode decides where ssd1680_refresh_partial starts, the cells where it ends.
LEMMA RefreshPartialIs ==
    ASSUME NEW c \in SUBSET Cells, mode \in {"NONE", "FULL", "PARTIAL"}
    PROVE  RefreshPartial(c) =
               Segment(IF mode = "NONE" THEN 1 ELSE IF mode = "FULL" THEN 13 ELSE 19, IF c = {} THEN 18 ELSE 22, c)
<1>1. \A s \in Seq(Command) : <<>> \o s = s /\ s \o <<>> = s
  BY ConcatEmptySeq
<1>2. \A n \in {7, 12, 18, 22} : \A i \in {1, 13, 19} : i <= n => Segment(i, n, c) \in Seq(Command)
  BY SegmentIs
<1>3. CASE mode = "NONE"
  <2>1. RefreshFull \o Append(InitPartial, Op("modePartial")) = Segment(1, 18, c)
    BY RefreshFullIs, ToPartialIs, PartsMeet, Zenon
  <2>2. c # {} => RefreshPartial(c) = Segment(1, 22, c)
    BY <1>3, <2>1, WriteAndUpdateIs, PartsMeet DEF RefreshPartial
  <2>3. c = {} => RefreshPartial(c) = Segment(1, 18, c)
    <3>1. c = {} => RefreshPartial(c) = Segment(1, 18, c) \o <<>>
      BY <1>3, <2>1 DEF RefreshPartial
    <3> QED
      BY <1>1, <1>2, <3>1
  <2> QED
    BY <1>3, <2>2, <2>3
<1>4. CASE mode = "FULL"
  <2>1. <<>> \o Append(InitPartial, Op("modePartial")) = Segment(13, 18, c)
    BY <1>1, <1>2, ToPartialIs
  <2>2. c # {} => RefreshPartial(c) = Segment(13, 22, c)
    BY <1>4, <2>1, WriteAndUpdateIs, PartsMeet DEF RefreshPartial
  <2>3. c = {} => RefreshPartial(c) = Segment(13, 18, c)
    BY <1>1, <1>2, <1>4, <2>1 DEF RefreshPartial
  <2> QED
    BY <1>4, <2>2, <2>3
<1>5. CASE mode = "PARTIAL"
  <2>1. <<>> \o <<>> = <<>> /\ Segment(19, 18, c) = <<>>
    BY <1>1, EmptySeq, SegmentEnds
  <2>2. c # {} => RefreshPartial(c) = Segment(19, 22, c)
    BY <1>1, <1>2, <1>5, <2>1, WriteAndUpdateIs DEF RefreshPartial
  <2>3. c = {} => RefreshPartial(c) = Segment(19, 18, c)
    BY <1>5, <2>1 DEF RefreshPartial
  <2> QED
    BY <1>5, <2>2, <2>3
<1> QED
  BY <1>3, <1>4, <1>5

-----------------------------------------------------------------------------
(* What a step changes is what the next place asks for.                    *)

\* The call in progress: its next command, and what is left after it.
LEMMA NextCommand ==
    ASSUME NEW i \in 1 .. 22, NEW j \in 1 .. 22, i <= j, NEW c \in SUBSET Cells, todo = Segment(i, j, c)
    PROVE  /\ todo # <<>> /\ Tail(todo) = Segment(i + 1, j, c)
           /\ Head(todo).op = Steps[i] /\ Head(todo).cells = CellsAt(i, c)
<1>1. /\ todo # <<>> /\ Tail(todo) = Segment(i + 1, j, c) /\ Head(todo) = OpOn(Steps[i], CellsAt(i, c))
  BY SegmentHead, Zenon
<1> QED
  BY <1>1 DEF OpOn

\* After its last command a call leaves the driver at rest.
LEMMA CallEnds ==
    ASSUME NEW j \in Ends, NEW c \in SUBSET Cells, j # 22 => c = {}, Facts(j + 1, j, c)', todo' = <<>>, ready', TypeOK'
    PROVE  AtRest'
<1>1. CASE j = 8
  BY <1>1 DEF Facts, Modes, Waveform, AtRest
<1>2. CASE j = 12 \/ j = 18
  <2>1. Over(c)' = shown'
    BY <1>2 DEF Over, TypeOK, Picture
  <2>2. ~late' /\ seeded' => InSync'
    BY <1>2, <2>1 DEF Facts, Banks, InSync
  <2> QED
    BY <1>2, <2>2 DEF Facts, Modes, Waveform, AtRest
<1>3. CASE j = 22
  BY <1>3 DEF Facts, Modes, Waveform, Banks, AtRest
<1> QED
  BY <1>1, <1>2, <1>3 DEF Ends

\* A command of a call leads to the next place.
LEMMA CallGoesOn ==
    ASSUME NEW j \in Ends, NEW i \in 1 .. j, NEW c \in SUBSET Cells, j # 22 => c = {}, todo = Segment(i, j, c),
           todo' = Tail(todo), ready', TypeOK', Facts(i + 1, j, c)'
    PROVE  Place'
<1>1. j \in 1 .. 22 /\ i \in 1 .. 22 /\ i <= j
  BY DEF Ends
<1>2. todo' = Segment(i + 1, j, c)
  BY <1>1, NextCommand
<1>3. CASE i = j
  <2>1. todo' = <<>>
    BY <1>1, <1>2, <1>3, SegmentEnds
  <2> QED
    BY <1>3, <2>1, CallEnds DEF Place
<1>4. CASE i # j
  <2>1. i + 1 \in 1 .. j
    BY <1>1, <1>4
  <2>2. InProgress(i + 1, j, c)'
    BY <1>2 DEF InProgress, Segment
  <2> QED
    BY <2>1, <2>2 DEF Place
<1> QED
  BY <1>3, <1>4

\* What a wait and a change of mode do to what is so.
LEMMA QuietStep ==
    ASSUME TypeOK, NEW j \in Ends, NEW i \in 1 .. j, NEW c \in SUBSET Cells, InProgress(i, j, c),
           WaitOver \/ WaitTimesOut \/ SetMode
    PROVE  Facts(i + 1, j, c)'
<1>1. i \in 1 .. 22 /\ j \in 1 .. 22 /\ i <= j /\ Head(todo).op = Steps[i]
  <2>1. i \in 1 .. 22 /\ j \in 1 .. 22 /\ i <= j
    BY DEF Ends
  <2> QED
    BY <2>1, NextCommand DEF InProgress
<1>2. UNCHANGED <<fb, panel, ram24, ram26, shown, want, seeded>>
  BY DEF WaitOver, WaitTimesOut, SetMode
<1>3. Facts(i, j, c)
  BY DEF InProgress
<1>4. CASE WaitOver \/ WaitTimesOut
  <2>1. i \in {2, 4, 7, 12, 14, 17, 21}
    BY <1>1, <1>4, StepNamed DEF WaitOver, WaitTimesOut, Waiting, Sending
  <2>2. mode' = mode /\ (late => late')
    BY <1>4 DEF WaitOver, WaitTimesOut
  <2>3. Modes(i + 1, j)'
    BY <1>2, <1>3, <2>1, <2>2 DEF Facts, Modes
  <2>4. Waveform(i + 1)'
    BY <1>2, <1>3, <2>1, <2>2 DEF Facts, Waveform
  <2>5. CASE i # 12
    <3>1. Over(c)' = Over(c)
      BY <1>2 DEF Over
    <3>2. Banks(i + 1, c)'
      BY <1>2, <1>3, <2>1, <2>2, <2>5, <3>1 DEF Facts, Banks
    <3> QED
      BY <2>3, <2>4, <3>2 DEF Facts
  <2>6. CASE i = 12
    <3>1. j >= 12 /\ want = fb
      BY <1>1, <1>3, <2>6 DEF Facts, Modes
    <3>2. want = shown => Over(c)' = want
      BY <1>2, <3>1 DEF Over, TypeOK, Picture
    <3>3. Banks(i + 1, c)'
      BY <1>2, <1>3, <2>2, <2>6, <3>2 DEF Facts, Banks
    <3> QED
      BY <2>3, <2>4, <3>3 DEF Facts
  <2> QED
    BY <2>5, <2>6
<1>5. CASE SetMode
  <2>1. i \in {8, 18}
    BY <1>1, <1>5, StepNamed DEF SetMode, ModeOf
  <2>2. late' = late /\ (i = 8 => mode' = "FULL") /\ (i = 18 => mode' = "PARTIAL")
    BY <1>1, <1>5, StepIs DEF SetMode, ModeOf
  <2>3. Modes(i + 1, j)'
    BY <1>2, <1>3, <2>1, <2>2 DEF Facts, Modes
  <2>4. Waveform(i + 1)'
    BY <1>2, <1>3, <2>1, <2>2 DEF Facts, Waveform
  <2>5. Over(c)' = Over(c)
    BY <1>2 DEF Over
  <2>6. Banks(i + 1, c)'
    BY <1>2, <1>3, <2>1, <2>2, <2>5 DEF Facts, Banks
  <2> QED
    BY <2>3, <2>4, <2>6 DEF Facts
<1> QED
  BY <1>4, <1>5

\* A reset forgets the waveform, and whether a wait has timed out.
LEMMA ResetStep ==
    ASSUME TypeOK, NEW j \in Ends, NEW i \in 1 .. j, NEW c \in SUBSET Cells, InProgress(i, j, c), Reset
    PROVE  Facts(i + 1, j, c)'
<1>1. i \in 1 .. 22 /\ j \in 1 .. 22 /\ i <= j /\ Head(todo).op = Steps[i]
  <2>1. i \in 1 .. 22 /\ j \in 1 .. 22 /\ i <= j
    BY DEF Ends
  <2> QED
    BY <2>1, NextCommand DEF InProgress
<1>2. i = 1
  BY <1>1, StepNamed DEF Reset, Sending
<1>3. UNCHANGED <<fb, mode, want, seeded>>
  BY DEF Reset
<1>4. Modes(1, j)
  BY <1>2 DEF InProgress, Facts
<1> QED
  BY <1>2, <1>3, <1>4 DEF Facts, Modes, Waveform, Banks

\* A command the panel misses is one it could not hear after a late wait.
LEMMA MissedStep ==
    ASSUME IInv, NEW j \in Ends, NEW i \in 1 .. j, NEW c \in SUBSET Cells, InProgress(i, j, c), CommandMissed
    PROVE  Facts(i + 1, j, c)'
<1>1. i \in 1 .. 22 /\ j \in 1 .. 22 /\ i <= j /\ todo # <<>> /\ Head(todo).op = Steps[i]
  <2>1. i \in 1 .. 22 /\ j \in 1 .. 22 /\ i <= j
    BY DEF Ends
  <2> QED
    BY <2>1, NextCommand DEF InProgress
<1>2. i \notin {1, 2, 4, 7, 8, 12, 14, 17, 18, 21} /\ Steps[i] # "sleep"
  BY <1>1, StepNamed DEF CommandMissed, IsCommand, ModeOf
<1>3. UNCHANGED <<fb, mode, late, want, seeded>>
  BY DEF CommandMissed
<1>4. IInv'
  BY NextInv DEF Next, DriverStep
<1>5. ~Sending("sleep")
  BY <1>1, <1>2 DEF Sending
<1>6. late'
  BY <1>4, <1>5 DEF CommandMissed, IInv, NoCommandLost
<1>7. Modes(i, j)
  BY DEF InProgress, Facts
<1>8. Modes(i + 1, j)'
  BY <1>1, <1>2, <1>3, <1>7 DEF Modes
<1> QED
  BY <1>6, <1>8 DEF Facts, Waveform, Banks

\* What a command does to the waveform.
LEMMA WaveformStep ==
    ASSUME TypeOK, NEW i \in 1 .. 22, todo # <<>>, Head(todo).op = Steps[i], Waveform(i), CommandHeard
    PROVE  Waveform(i + 1)'
<1>1. i \notin {1, 2, 4, 7, 8, 12, 14, 17, 18, 21}
  BY StepNamed DEF CommandHeard, IsCommand, ModeOf
<1>2. panel' = Registers(Steps[i]) /\ late' = late /\ panel \in PanelState
  BY DEF CommandHeard, TypeOK, PanelState
<1>3. CASE i = 3
  BY <1>3 DEF Waveform
<1>4. CASE i = 5
  <2>1. panel' = [panel EXCEPT !.config = TRUE, !.vcom = "full"]
    BY <1>2, <1>4, StepIs DEF Registers
  <2>2. panel'.config /\ panel'.vcom = "full"
    BY <1>2, <2>1 DEF PanelState
  <2> QED
    BY <1>4, <2>2 DEF Waveform
<1>5. CASE i = 6
  <2>1. panel' = [panel EXCEPT !.lut = "full"]
    BY <1>2, <1>5, StepIs DEF Registers
  <2> QED
    BY <1>2, <1>5, <2>1 DEF Waveform, PanelState
<1>6. CASE i = 13
  <2>1. panel' = [panel EXCEPT !.vcom = "partial"]
    BY <1>2, <1>6, StepIs DEF Registers
  <2> QED
    BY <1>2, <1>6, <2>1 DEF Waveform, PanelState
<1>7. CASE i = 15
  <2>1. panel' = [panel EXCEPT !.lut = "partial"]
    BY <1>2, <1>7, StepIs DEF Registers
  <2> QED
    BY <1>2, <1>7, <2>1 DEF Waveform, PanelState
<1>8. CASE i \in {9, 10, 11, 16, 19, 20, 22}
  <2>1. panel' = [panel EXCEPT !.busy = TRUE] \/ panel' = panel
    BY <1>2, <1>8, StepIs DEF Registers
  <2>2. panel'.config = panel.config /\ panel'.lut = panel.lut /\ panel'.vcom = panel.vcom
    BY <1>2, <2>1 DEF PanelState
  <2> QED
    BY <1>2, <1>8, <2>2 DEF Waveform
<1> QED
  BY <1>1, <1>3, <1>4, <1>5, <1>6, <1>7, <1>8

\* What a command does to the banks and the picture.
LEMMA BanksStep ==
    ASSUME TypeOK, NEW j \in Ends, NEW i \in 1 .. j, NEW c \in SUBSET Cells,
           todo # <<>>, Head(todo).op = Steps[i], Head(todo).cells = CellsAt(i, c),
           Modes(i, j), Banks(i, c), CommandHeard
    PROVE  Banks(i + 1, c)'
<1>0. i \in 1 .. 22 /\ j \in 1 .. 22 /\ i <= j /\ (i <= 12 => j < 12 \/ j >= 12)
  BY DEF Ends
<1>1. i \notin {1, 2, 4, 7, 8, 12, 14, 17, 18, 21}
  BY <1>0, StepNamed DEF CommandHeard, IsCommand, ModeOf
<1>2. UNCHANGED <<fb, late, want, seeded>>
  BY DEF CommandHeard
<1>3. SUFFICES ASSUME ~late, seeded PROVE Banks(i + 1, c)'
  BY <1>2 DEF Banks
<1>4. i <= 12 => j >= 12 /\ want = fb
  BY <1>0, <1>3 DEF Modes, Ends
<1>5. /\ ram24' = IF Steps[i] = "ram24" THEN [x \in Cells |-> IF x \in CellsAt(i, c) THEN fb[x] ELSE ram24[x]] ELSE ram24
      /\ ram26' = IF Steps[i] = "ram26" THEN [x \in Cells |-> IF x \in CellsAt(i, c) THEN fb[x] ELSE ram26[x]] ELSE ram26
      /\ Steps[i] = "updFull" => shown' = ram24
      /\ Steps[i] = "updPartial" => shown' = [x \in Cells |-> IF ram24[x] # ram26[x] THEN ram24[x] ELSE shown[x]]
      /\ Steps[i] \notin {"updFull", "updPartial"} => shown' = shown
  BY DEF CommandHeard, Written, Displayed, Sending
<1>6. fb \in Picture /\ ram24 \in Picture /\ ram26 \in Picture /\ shown \in Picture /\ want \in Picture
  BY DEF TypeOK
<1>7. CASE i \in {3, 5, 6}
  BY <1>7 DEF Banks
<1>8. CASE i = 9
  <2>1. ram24' = want
    BY <1>4, <1>5, <1>6, <1>8, StepIs DEF CellsAt, Picture
  <2> QED
    BY <1>2, <1>8, <2>1 DEF Banks
<1>9. CASE i = 10
  <2>1. ram24' = want /\ ram26' = want
    BY <1>3, <1>4, <1>5, <1>6, <1>9, StepIs DEF CellsAt, Picture, Banks
  <2> QED
    BY <1>2, <1>9, <2>1 DEF Banks
<1>10. CASE i = 11
  <2>1. ram24' = want /\ ram26' = want /\ shown' = want
    BY <1>3, <1>5, <1>10, StepIs DEF Banks
  <2> QED
    BY <1>2, <1>10, <2>1 DEF Banks
<1>11. CASE i \in {13, 15, 16}
  <2>1. ram24' = ram24 /\ ram26' = ram26 /\ shown' = shown
    BY <1>5, <1>11, StepIs
  <2>2. Over(c)' = Over(c)
    BY <1>2, <2>1 DEF Over
  <2> QED
    BY <1>2, <1>3, <1>11, <2>1, <2>2 DEF Banks
<1>12. CASE i = 19
  <2>1. want = Over(c) /\ ram24 = shown /\ ram26 = shown
    BY <1>3, <1>12 DEF Banks
  <2>2. ram26' = ram26 /\ shown' = shown /\ ram24' = [x \in Cells |-> IF x \in c THEN fb[x] ELSE ram24[x]]
    BY <1>5, <1>12, StepIs DEF CellsAt
  <2>3. Over(c)' = Over(c)
    BY <1>2, <2>2 DEF Over
  <2>4. ram24' = want
    BY <2>1, <2>2 DEF Over
  <2> QED
    BY <1>2, <1>12, <2>1, <2>2, <2>3, <2>4 DEF Banks
<1>13. CASE i = 20
  <2>1. want = Over(c) /\ ram24 = want /\ ram26 = shown
    BY <1>3, <1>13 DEF Banks
  <2>2. ram24' = ram24 /\ ram26' = ram26 /\ shown' = [x \in Cells |-> IF ram24[x] # ram26[x] THEN ram24[x] ELSE shown[x]]
    BY <1>5, <1>13, StepIs
  <2>3. shown' = want
    BY <1>6, <2>1, <2>2 DEF Picture
  <2>4. \A x \in Cells : IF x \in c THEN want[x] = fb[x] ELSE ram26[x] = want[x]
    BY <2>1 DEF Over
  <2> QED
    BY <1>2, <1>13, <2>1, <2>2, <2>3, <2>4 DEF Banks
<1>14. CASE i = 22
  <2>1. ram24 = want /\ shown = want
        /\ \A x \in Cells : IF x \in c THEN want[x] = fb[x] ELSE ram26[x] = want[x]
    BY <1>3, <1>14 DEF Banks
  <2>2. ram24' = ram24 /\ shown' = shown /\ ram26' = [x \in Cells |-> IF x \in c THEN fb[x] ELSE ram26[x]]
    BY <1>5, <1>14, StepIs DEF CellsAt
  <2>3. ram26' = want
    BY <1>6, <2>1, <2>2 DEF Picture
  <2> QED
    BY <1>2, <1>14, <2>1, <2>2, <2>3 DEF Banks, InSync
<1> QED
  BY <1>0, <1>1, <1>7, <1>8, <1>9, <1>10, <1>11, <1>12, <1>13, <1>14

LEMMA HeardStep ==
    ASSUME TypeOK, NEW j \in Ends, NEW i \in 1 .. j, NEW c \in SUBSET Cells, InProgress(i, j, c), CommandHeard
    PROVE  Facts(i + 1, j, c)'
<1>1. i \in 1 .. 22 /\ j \in 1 .. 22 /\ i <= j
  BY DEF Ends
<1>2. todo # <<>> /\ Head(todo).op = Steps[i] /\ Head(todo).cells = CellsAt(i, c)
  BY <1>1, NextCommand DEF InProgress
<1>3. Modes(i, j) /\ Waveform(i) /\ Banks(i, c)
  BY DEF InProgress, Facts
<1>4. i \notin {1, 2, 4, 7, 8, 12, 14, 17, 18, 21}
  BY <1>1, <1>2, StepNamed DEF CommandHeard, IsCommand, ModeOf
<1>5. UNCHANGED <<fb, mode, want, seeded>>
  BY DEF CommandHeard
<1>6. Modes(i + 1, j)'
  BY <1>1, <1>3, <1>4, <1>5 DEF Modes
<1>7. Waveform(i + 1)'
  BY <1>1, <1>2, <1>3, WaveformStep
<1>8. Banks(i + 1, c)'
  BY <1>2, <1>3, BanksStep
<1> QED
  BY <1>6, <1>7, <1>8 DEF Facts

-----------------------------------------------------------------------------
(* Every step keeps the place.                                             *)

\* A call in progress is not at rest.
LEMMA OnePlace ==
    ASSUME NEW j \in Ends, NEW i \in 1 .. j, NEW c \in SUBSET Cells, InProgress(i, j, c)
    PROVE  /\ todo # <<>> /\ Head(todo).op = Steps[i] /\ Head(todo).op \notin {"sleep", "modeNone"}
           /\ i \in 1 .. 22 /\ j \in 1 .. 22 /\ i <= j
<1>1. i \in 1 .. 22 /\ j \in 1 .. 22 /\ i <= j
  BY DEF Ends
<1>2. todo # <<>> /\ Head(todo).op = Steps[i]
  BY <1>1, NextCommand DEF InProgress
<1> QED
  BY <1>1, <1>2, StepNamed

LEMMA SleepsOn ==
    ASSUME Sleeps
    PROVE  \/ Head(todo) = Op("sleep") /\ todo # <<>> /\ Tail(todo) = <<Op("modeNone")>>
           \/ Head(todo) = Op("modeNone") /\ todo # <<>> /\ Tail(todo) = <<>>
<1>1. \A a, b : /\ Head(<<a, b>>) = a /\ Tail(<<a, b>>) = <<b>> /\ <<a, b>> # <<>>
                /\ Head(<<a>>) = a /\ Tail(<<a>>) = <<>> /\ <<a>> # <<>>
  OBVIOUS
<1> QED
  BY <1>1, Zenon DEF Sleeps, Sleep

LEMMA IdlePlace ==
    ASSUME Place, Idle
    PROVE  AtRest
<1>1. ~Sleeps
  BY SleepsOn DEF Idle
<1>2. \A j \in Ends : \A i \in 1 .. j : \A c \in SUBSET Cells : ~InProgress(i, j, c)
  BY OnePlace DEF Idle
<1> QED
  BY <1>1, <1>2 DEF Place

LEMMA PlaceInit == Init => Place
BY DEF Init, Place, AtRest

\* A call that starts with epd_init_full trusts nothing that was before it.
LEMMA FreshCall ==
    ASSUME NEW j \in Ends, NEW c \in SUBSET Cells, j # 22 => c = {}, todo' = Segment(1, j, c),
           IF j = 8 THEN ~seeded' ELSE seeded' /\ want' = fb'
    PROVE  Place'
<1>1. 1 \in 1 .. j
  BY DEF Ends
<1>2. Facts(1, j, c)'
  BY DEF Facts, Modes, Waveform, Banks, Ends
<1>3. InProgress(1, j, c)'
  BY <1>2 DEF InProgress, Segment
<1> QED
  BY <1>1, <1>3 DEF Place

LEMMA CallsKeepPlace ==
    ASSUME IInv, Place,
           ssd1680_init \/ Draw \/ ssd1680_refresh_full \/ ssd1680_sleep \/ ssd1680_wake \/ Restart
    PROVE  Place'
<1>0. {} \in SUBSET Cells /\ 8 \in Ends /\ 12 \in Ends
  BY DEF Ends
<1>1. CASE ssd1680_init \/ ssd1680_wake
  <2>1. todo' = Segment(1, 8, {}) /\ ~seeded'
    BY <1>1, WakeIs DEF ssd1680_init, ssd1680_wake
  <2> QED
    BY <1>0, <2>1, FreshCall
<1>2. CASE Draw
  <2>1. AtRest
    BY <1>2, IdlePlace DEF Draw
  <2> QED
    BY <1>2, <2>1 DEF Draw, AtRest, InSync, Place
<1>3. CASE ssd1680_refresh_full
  <2>1. todo' = Segment(1, 12, {}) /\ seeded' /\ want' = fb'
    BY <1>0, <1>3, RefreshFullIs DEF ssd1680_refresh_full
  <2> QED
    BY <1>0, <2>1, FreshCall
<1>4. CASE ssd1680_sleep
  BY <1>4 DEF ssd1680_sleep, Sleeps, Sleep, Place
<1>5. CASE Restart
  BY <1>5 DEF Restart, AtRest, Place
<1> QED
  BY <1>1, <1>2, <1>3, <1>4, <1>5

LEMMA PartialKeepsPlace ==
    ASSUME IInv, Place, NEW r \in Rects, ssd1680_refresh_partial(r)
    PROVE  Place'
<1> DEFINE c == Touched(r)
<1>1. Region(r) = c /\ c \in SUBSET Cells
  BY RegionIsTouched DEF Touched
<1>2. AtRest /\ TypeOK /\ ready
  BY IdlePlace DEF ssd1680_refresh_partial, IInv
<1>3. mode \in {"NONE", "FULL", "PARTIAL"} /\ seeded \in BOOLEAN /\ late \in BOOLEAN
  BY <1>2 DEF TypeOK
<1>4. todo' = Segment(IF mode = "NONE" THEN 1 ELSE IF mode = "FULL" THEN 13 ELSE 19, IF c = {} THEN 18 ELSE 22, c)
  BY <1>1, <1>3, RefreshPartialIs DEF ssd1680_refresh_partial
<1>5. /\ UNCHANGED <<fb, mode, ready, panel, ram24, ram26, shown, late>>
      /\ want' = Overlay(IF mode = "NONE" THEN Cells ELSE c)
      /\ seeded' = (seeded \/ mode = "NONE")
  BY DEF ssd1680_refresh_partial
<1>a. mode # "NONE" => seeded' = seeded /\ (FullFirst => seeded')
  BY <1>3, <1>5 DEF ssd1680_refresh_partial
<1> DEFINE j == IF c = {} THEN 18 ELSE 22
<1>6. j \in Ends /\ j \in 18 .. 22 /\ (j # 22 => c = {}) /\ (c = {} => j = 18)
  BY DEF Ends
<1> HIDE DEF c
<1>7. CASE mode = "NONE"
  <2>1. todo' = Segment(1, j, c)
    BY <1>4, <1>7
  <2>2. want' = fb' /\ seeded'
    BY <1>2, <1>5, <1>7 DEF Overlay, TypeOK, Picture
  <2> HIDE DEF j
  <2> QED
    BY <1>1, <1>6, <2>1, <2>2, FreshCall
<1>8. ASSUME mode # "NONE", seeded, ~late PROVE InSync /\ want' = Over(c)'
  <2>1. InSync
    BY <1>2, <1>8 DEF AtRest
  <2> QED
    BY <1>5, <1>8, <2>1 DEF Overlay, Over, InSync
<1>9. CASE mode = "FULL"
  <2>1. todo' = Segment(13, j, c)
    BY <1>4, <1>9
  <2> HIDE DEF j
  <2>2. Modes(13, j)'
    BY <1>5, <1>a, <1>6, <1>9 DEF Modes
  <2>3. Waveform(13)'
    BY <1>2, <1>5, <1>9 DEF Waveform, AtRest
  <2>4. Banks(13, c)'
    BY <1>5, <1>a, <1>8, <1>9 DEF Banks, InSync
  <2>5. InProgress(13, j, c)' /\ 13 \in 1 .. j
    BY <1>6, <2>1, <2>2, <2>3, <2>4 DEF InProgress, Facts, Segment
  <2> QED
    BY <1>1, <1>6, <2>5 DEF Place
<1>10. CASE mode = "PARTIAL" /\ c # {}
  <2>1. todo' = Segment(19, 22, c)
    BY <1>4, <1>10
  <2>2. Modes(19, 22)'
    BY <1>5, <1>a, <1>10 DEF Modes
  <2>3. Waveform(19)'
    BY <1>2, <1>5, <1>10 DEF Waveform, AtRest
  <2>4. Banks(19, c)'
    BY <1>5, <1>a, <1>8, <1>10 DEF Banks, InSync
  <2>5. InProgress(19, 22, c)' /\ 19 \in 1 .. 22 /\ 22 \in Ends
    BY <2>1, <2>2, <2>3, <2>4 DEF InProgress, Facts, Segment, Ends
  <2> QED
    BY <1>1, <2>5 DEF Place
<1>11. CASE mode = "PARTIAL" /\ c = {}
  <2>1. todo' = <<>>
    <3>1. todo' = Segment(18 + 1, 18, c)
      BY <1>4, <1>11
    <3>2. 18 \in 0 .. 22
      OBVIOUS
    <3> QED
      BY <1>1, <3>1, <3>2, SegmentEnds
  <2>2. want' = want
    BY <1>2, <1>5, <1>11 DEF Overlay, TypeOK, Picture
  <2>3. AtRest'
    BY <1>2, <1>3, <1>5, <1>11, <2>1, <2>2 DEF AtRest, InSync
  <2> QED
    BY <2>3 DEF Place
<1> QED
  BY <1>3, <1>7, <1>9, <1>10, <1>11

LEMMA DriverKeepsPlace ==
    ASSUME IInv, Place, DriverStep
    PROVE  Place'
<1>1. IInv' /\ TypeOK /\ TypeOK'
  BY NextInv DEF Next, IInv
<1>2. todo # <<>> /\ todo' = Tail(todo) /\ ready' = ready /\ (ready => ready') /\ UNCHANGED seeded
  BY DEF DriverStep, WaitOver, WaitTimesOut, SetMode, Reset, CommandHeard, CommandMissed,
         Waiting, Sending, IsCommand
<1>3. ready'
  BY <1>2 DEF IInv
<1>4. ~AtRest
  BY <1>2 DEF AtRest
<1>5. CASE Sleeps
  <2>1. CASE Head(todo) = Op("sleep") /\ Tail(todo) = <<Op("modeNone")>>
    BY <1>2, <1>5, <2>1 DEF Sleeps, Place
  <2>2. CASE Head(todo) = Op("modeNone") /\ Tail(todo) = <<>>
    <3>1. Head(todo).op = "modeNone"
      BY <2>2 DEF Op
    <3>2. SetMode
      BY <3>1 DEF DriverStep, WaitOver, WaitTimesOut, Waiting, Sending, Reset, CommandHeard, CommandMissed,
                  IsCommand, ModeOf
    <3>3. mode' = "NONE"
      BY <3>1, <3>2 DEF SetMode, ModeOf
    <3> QED
      BY <1>2, <1>5, <2>2, <3>3 DEF Sleeps, AtRest, Place
  <2> QED
    BY <1>5, <2>1, <2>2, SleepsOn
<1>6. ASSUME NEW j \in Ends, NEW i \in 1 .. j, NEW c \in SUBSET Cells, InProgress(i, j, c)
      PROVE  Place'
  <2>1. Facts(i + 1, j, c)'
    BY <1>1, <1>6, QuietStep, ResetStep, HeardStep, MissedStep DEF DriverStep
  <2>2. todo = Segment(i, j, c) /\ (j # 22 => c = {})
    BY <1>6 DEF InProgress
  <2> QED
    BY <1>1, <1>2, <1>3, <2>1, <2>2, CallGoesOn
<1> QED
  BY <1>4, <1>5, <1>6 DEF Place

\* The panel falls idle, and asleep it may forget its banks.
LEMMA PanelKeepsPlace ==
    ASSUME IInv, Place, BusyEnds \/ BanksDecay
    PROVE  Place'
<1>1. UNCHANGED <<fb, mode, ready, todo, shown, late, lost, want, seeded>>
  BY DEF BusyEnds, BanksDecay
<1>2. panel'.config = panel.config /\ panel'.lut = panel.lut /\ panel'.vcom = panel.vcom
  BY DEF BusyEnds, BanksDecay, IInv, TypeOK
<1>3. BusyEnds \/ ~panel.awake
  BY DEF BanksDecay
<1>4. BusyEnds => UNCHANGED <<ram24, ram26>>
  BY DEF BusyEnds
<1>5. CASE Sleeps
  BY <1>1, <1>5 DEF Sleeps, Place
<1>6. CASE AtRest
  <2>1. BusyEnds \/ ~seeded
    BY <1>3, <1>6, SleepsOn DEF AtRest, IInv, AsleepLeftAlone, Sleep
  <2> QED
    BY <1>1, <1>2, <1>4, <1>6, <2>1 DEF AtRest, InSync, Place
<1>7. ASSUME NEW j \in Ends, NEW i \in 1 .. j, NEW c \in SUBSET Cells, InProgress(i, j, c)
      PROVE  Place'
  <2>1. i \in 1 .. 22 /\ todo # <<>> /\ Head(todo).op = Steps[i] /\ Head(todo).op \notin {"sleep", "modeNone"}
    BY <1>7, OnePlace
  <2>2. Head(Sleep).op = "sleep" /\ Head(<<Op("modeNone")>>).op = "modeNone"
    BY DEF Sleep, Op
  <2>3. BusyEnds \/ i = 1
    BY <1>3, <2>1, <2>2, StepNamed DEF IInv, AsleepLeftAlone
  <2>4. Modes(i, j)'
    BY <1>1, <1>7 DEF InProgress, Facts, Modes
  <2>5. Waveform(i)'
    BY <1>1, <1>2, <1>7 DEF InProgress, Facts, Waveform
  <2>6. Banks(i, c)'
    <3>1. CASE i = 1
      BY <3>1 DEF Banks
    <3>2. CASE BusyEnds
      <4>1. Over(c)' = Over(c)
        BY <1>1 DEF Over
      <4> QED
        BY <1>1, <1>4, <1>7, <3>2, <4>1 DEF InProgress, Facts, Banks, InSync
    <3> QED
      BY <2>3, <3>1, <3>2
  <2>7. InProgress(i, j, c)'
    BY <1>1, <1>7, <2>4, <2>5, <2>6 DEF InProgress, Facts, Segment
  <2> QED
    BY <2>7 DEF Place
<1> QED
  BY <1>5, <1>6, <1>7 DEF Place

LEMMA PlaceKept == IInv /\ Place /\ [Next]_vars => Place'
<1> SUFFICES ASSUME IInv, Place, [Next]_vars PROVE Place'
  OBVIOUS
<1>1. CASE UNCHANGED vars
  <2>1. UNCHANGED <<fb, mode, ready, todo, panel, ram24, ram26, shown, late, want, seeded>>
    BY <1>1 DEF vars
  <2>2. (AtRest => AtRest') /\ (Sleeps => Sleeps')
    BY <2>1 DEF AtRest, Sleeps, InSync
  <2>3. ASSUME NEW j \in Ends, NEW i \in 1 .. j, NEW c \in SUBSET Cells, InProgress(i, j, c)
        PROVE  InProgress(i, j, c)'
    <3>1. Modes(i, j)' /\ Waveform(i)' /\ todo' = Segment(i, j, c) /\ (j # 22 => c = {})
      BY <2>1, <2>3 DEF InProgress, Facts, Modes, Waveform
    <3>2. Banks(i, c)'
      BY <2>1, <2>3 DEF InProgress, Facts, Banks, Over, InSync
    <3> QED
      BY <3>1, <3>2 DEF InProgress, Facts, Segment
  <2> QED
    BY <2>2, <2>3 DEF Place
<1>2. CASE Next
  BY <1>2, CallsKeepPlace, PartialKeepsPlace, DriverKeepsPlace, PanelKeepsPlace DEF Next
<1> QED
  BY <1>1, <1>2

LEMMA AlwaysPlace == Spec => []Place
<1>1. Spec => [](IInv /\ Place)
  BY InitInv, NextInv, PlaceInit, PlaceKept, PTL DEF Spec
<1> QED
  BY <1>1, PTL

-----------------------------------------------------------------------------
(* What the places give.                                                   *)

\* Between calls the panel shows to the pixel what the flushes ask for, and both
\* banks agree with it, whatever callers do and wherever they restart: a partial
\* refresh never works from a stale base.
THEOREM FlushesAreShown == Spec => []PanelShowsFlushed
<1>1. Place => PanelShowsFlushed
  BY IdlePlace DEF AtRest, InSync, PanelShowsFlushed
<1> QED
  BY <1>1, AlwaysPlace, PTL

\* An update the panel hears runs on the waveform made for it.
LEMMA UpdatePlace ==
    ASSUME Place, CommandHeard, Sending("updFull") \/ Sending("updPartial")
    PROVE  \E j \in Ends, i \in 1 .. 22, c \in SUBSET Cells :
               /\ InProgress(i, j, c)
               /\ Sending("updFull") => i = 11
               /\ Sending("updPartial") => i = 20
<1>1. todo # <<>> /\ ~AtRest
  BY DEF Sending, AtRest
<1>2. ~Sleeps
  BY SleepsOn DEF Sending, Op
<1>3. PICK j \in Ends : \E i \in 1 .. j : \E c \in SUBSET Cells : InProgress(i, j, c)
  BY <1>1, <1>2 DEF Place
<1>4. PICK i \in 1 .. j : \E c \in SUBSET Cells : InProgress(i, j, c)
  BY <1>3
<1>5. PICK c \in SUBSET Cells : InProgress(i, j, c)
  BY <1>4
<1>6. i \in 1 .. 22 /\ Head(todo).op = Steps[i]
  BY <1>5, OnePlace
<1>7. (Sending("updFull") => i = 11) /\ (Sending("updPartial") => i = 20)
  BY <1>6, StepNamed DEF Sending
<1> QED
  BY <1>5, <1>6, <1>7

\* No full update runs on the partial waveform or the other way round, and none on
\* a panel that was not configured.
THEOREM UpdatesOnTheirWaveform == Spec => RightWaveform
<1> DEFINE Right == CommandHeard /\ ~late =>
               /\ Sending("updFull") => panel.config /\ panel.lut = "full" /\ panel.vcom = "full"
               /\ Sending("updPartial") => panel.config /\ panel.lut = "partial" /\ panel.vcom = "partial"
<1>1. ASSUME Place PROVE Right
  <2> SUFFICES ASSUME CommandHeard, ~late, Sending("updFull") \/ Sending("updPartial")
               PROVE  /\ Sending("updFull") => panel.config /\ panel.lut = "full" /\ panel.vcom = "full"
                      /\ Sending("updPartial") => panel.config /\ panel.lut = "partial" /\ panel.vcom = "partial"
    OBVIOUS
  <2>1. PICK j \in Ends, i \in 1 .. 22, c \in SUBSET Cells :
            InProgress(i, j, c) /\ (Sending("updFull") => i = 11) /\ (Sending("updPartial") => i = 20)
    BY <1>1, UpdatePlace
  <2> QED
    BY <2>1 DEF InProgress, Facts, Waveform
<1> HIDE DEF Right
<1>2. Place => [Right]_vars
  BY <1>1
<1>3. Spec => [][Right]_vars
  BY <1>2, AlwaysPlace, PTL DEF Spec
<1> QED
  BY <1>3, PTL DEF RightWaveform, Right

\* For callers that refresh in full first, every differential update starts from a
\* base bank that holds what the panel shows.
THEOREM BaseIsInSync ==
    ASSUME FullFirst
    PROVE  Spec => BaselineInSync
<1> DEFINE Synced == CommandHeard /\ ~late /\ Sending("updPartial") => ram26 = shown
<1>1. ASSUME Place PROVE Synced
  <2> SUFFICES ASSUME CommandHeard, ~late, Sending("updPartial") PROVE ram26 = shown
    OBVIOUS
  <2>1. PICK j \in Ends, i \in 1 .. 22, c \in SUBSET Cells :
            InProgress(i, j, c) /\ (Sending("updPartial") => i = 20)
    BY <1>1, UpdatePlace
  <2>2. i = 20 /\ seeded
    BY <2>1 DEF InProgress, Facts, Modes
  <2> QED
    BY <2>1, <2>2 DEF InProgress, Facts, Banks
<1> HIDE DEF Synced
<1>2. Place => [Synced]_vars
  BY <1>1
<1>3. Spec => [][Synced]_vars
  BY <1>2, AlwaysPlace, PTL DEF Spec
<1> QED
  BY <1>3, PTL DEF BaselineInSync, Synced

-----------------------------------------------------------------------------
(* The driver implements the Display HAL of AiDisplay, for every panel     *)
(* size, set of inks and caller.  The updates are the steps that draw, the *)
(* last command of a call is its return, a late wait is an overrun, and    *)
(* every other command is a step the HAL's callers do not see.             *)

(* What the Display HAL sees of a call in progress.                        *)

HasIn(s, op) == \E k \in DOMAIN s : s[k].op = op

PhaseOf(s) ==
    IF s = <<>> THEN "idle"
    ELSE IF HasIn(s, "updFull") THEN "full" ELSE IF HasIn(s, "updPartial") THEN "partial" ELSE "busy"

PhaseAt(i, j) ==
    IF i = j + 1 THEN "idle"
    ELSE IF i <= 11 /\ j >= 12 THEN "full" ELSE IF i <= 20 /\ j = 22 THEN "partial" ELSE "busy"

Trusted == seeded /\ ~late /\ ~Has("updFull")

Seen == <<fb, shown, want, Phase, Trusted>>

Mapped == Display!Next \/ Seen' = Seen

LEMMA SegmentHas ==
    ASSUME NEW j \in Ends, NEW i \in 1 .. 23, i <= j + 1, NEW c \in SUBSET Cells
    PROVE  /\ HasIn(Segment(i, j, c), "updFull") <=> i <= 11 /\ j >= 12
           /\ HasIn(Segment(i, j, c), "updPartial") <=> i <= 20 /\ j = 22
           /\ PhaseOf(Segment(i, j, c)) = PhaseAt(i, j)
<1>1. j \in 1 .. 22
  BY DEF Ends
<1>2. ASSUME NEW op PROVE HasIn(Segment(i, j, c), op) <=> \E n \in i .. j : Steps[n] = op
  <2>1. DOMAIN Segment(i, j, c) = 1 .. j - i + 1
    BY DEF Segment
  <2>2. \A k \in 1 .. j - i + 1 : Segment(i, j, c)[k].op = Steps[i + k - 1]
    BY DEF Segment, OpOn
  <2>3. ASSUME NEW k \in 1 .. j - i + 1, Steps[i + k - 1] = op PROVE \E n \in i .. j : Steps[n] = op
    <3>1. i + k - 1 \in i .. j
      BY <1>1
    <3> QED
      BY <2>3, <3>1
  <2>4. ASSUME NEW n \in i .. j, Steps[n] = op PROVE \E k \in 1 .. j - i + 1 : Steps[i + k - 1] = op
    <3>1. n - i + 1 \in 1 .. j - i + 1 /\ i + (n - i + 1) - 1 = n
      BY <1>1
    <3> QED
      BY <2>4, <3>1
  <2> QED
    BY <2>1, <2>2, <2>3, <2>4 DEF HasIn
<1>3. \A n \in i .. j : n \in 1 .. 22
  BY <1>1
<1>4. HasIn(Segment(i, j, c), "updFull") <=> i <= 11 /\ j >= 12
  <2>1. i <= 11 /\ j >= 12 <=> 11 \in i .. j
    BY <1>1 DEF Ends
  <2> QED
    BY <1>2, <1>3, <2>1, StepNamed, StepIs
<1>5. HasIn(Segment(i, j, c), "updPartial") <=> i <= 20 /\ j = 22
  <2>1. i <= 20 /\ j = 22 <=> 20 \in i .. j
    BY <1>1 DEF Ends
  <2> QED
    BY <1>2, <1>3, <2>1, StepNamed, StepIs
<1>6. Segment(i, j, c) = <<>> <=> i = j + 1
  <2>1. CASE i = j + 1
    BY <1>1, <2>1, SegmentEnds
  <2>2. CASE i <= j
    <3>1. i \in 1 .. 22 /\ i # j + 1
      BY <1>1, <2>2
    <3>2. Segment(i, j, c) # <<>>
      BY <1>1, <2>2, <3>1, SegmentHead, Zenon
    <3> QED
      BY <3>1, <3>2
  <2> QED
    BY <1>1, <2>1, <2>2
<1> QED
  BY <1>4, <1>5, <1>6 DEF PhaseOf, PhaseAt

LEMMA PhaseIs == /\ ready => Phase = PhaseOf(todo)
                 /\ \A op : Has(op) = HasIn(todo, op)
BY DEF Phase, PhaseOf, Has, HasIn, Idle

LEMMA NextPhaseIs == /\ ready' => Phase' = PhaseOf(todo')
                     /\ \A op : Has(op)' = HasIn(todo', op)
BY DEF Phase, PhaseOf, Has, HasIn, Idle

LEMMA NothingToCome == PhaseOf(<<>>) = "idle" /\ \A op : ~HasIn(<<>>, op)
<1>1. DOMAIN <<>> = {}
  OBVIOUS
<1> QED
  BY <1>1 DEF PhaseOf, HasIn

LEMMA SleepPhase ==
    ASSUME NEW s \in {Sleep, <<Op("modeNone")>>}
    PROVE  PhaseOf(s) = "busy" /\ ~HasIn(s, "updFull")
<1>1. CASE s = Sleep
  BY <1>1 DEF Sleep, PhaseOf, HasIn, Op
<1>2. CASE s = <<Op("modeNone")>>
  BY <1>2 DEF PhaseOf, HasIn, Op
<1> QED
  BY <1>1, <1>2

-----------------------------------------------------------------------------
(* The callers' steps.                                                     *)

LEMMA DisplayInit == Init => Display!Init
<1> SUFFICES ASSUME Init PROVE Display!Init
  OBVIOUS
<1>1. Phase = "off" /\ (seeded /\ ~late /\ ~Has("updFull")) = FALSE
  BY DEF Init, Phase
<1> QED
  BY <1>1 DEF Init, Display!Init, Display!Image, Picture

LEMMA MappedCalls ==
    ASSUME IInv, IInv', Place,
           ssd1680_init \/ Draw \/ ssd1680_refresh_full \/ ssd1680_sleep \/ ssd1680_wake \/ Restart
    PROVE  Mapped
<1>0. {} \in SUBSET Cells /\ 8 \in Ends /\ 12 \in Ends /\ TypeOK /\ TypeOK'
  BY DEF Ends, IInv
<1>1. Idle => AtRest /\ ~Has("updFull") /\ (ready => Phase = "idle")
  BY IdlePlace, NothingToCome, PhaseIs DEF Idle
<1>2. todo' = Segment(1, 8, {}) /\ ready' => Phase' = "busy"
  <2>1. PhaseAt(1, 8) = "busy"
    BY DEF PhaseAt
  <2>2. PhaseOf(Segment(1, 8, {})) = PhaseAt(1, 8)
    BY <1>0, SegmentHas
  <2> QED
    BY <2>1, <2>2, NextPhaseIs
<1>3. CASE ssd1680_init
  <2>1. Phase = "off" /\ ~Trusted
    BY <1>1, <1>3 DEF ssd1680_init, Phase, AtRest, Trusted
  <2>2. Phase' = "busy" /\ ~Trusted'
    BY <1>2, <1>3, WakeIs DEF ssd1680_init, Trusted
  <2>3. fb' = [c \in Cells |-> White] /\ UNCHANGED <<shown, want>>
    BY <1>3 DEF ssd1680_init
  <2>4. Trusted' = Trusted
    BY <2>1, <2>2 DEF Trusted
  <2>5. Display!ai_display_init
    BY <2>1, <2>2, <2>3, <2>4 DEF Display!ai_display_init, Trusted
  <2> QED
    BY <2>5 DEF Mapped, Display!Next
<1>4. CASE Draw
  <2>1. Phase = "idle" /\ Phase' = Phase /\ Trusted' = Trusted
    BY <1>1, <1>4 DEF Draw, Phase, Trusted, Has, Idle
  <2>2. Display!Draw
    BY <1>4, <2>1 DEF Draw, Display!Draw, Display!Image, Picture, Trusted
  <2> QED
    BY <2>2 DEF Mapped, Display!Next
<1>5. CASE ssd1680_refresh_full
  <2>1. Phase = "idle" /\ ready'
    BY <1>1, <1>5 DEF ssd1680_refresh_full
  <2>2. PhaseAt(1, 12) = "full"
    BY DEF PhaseAt
  <2>3. PhaseOf(Segment(1, 12, {})) = PhaseAt(1, 12) /\ HasIn(Segment(1, 12, {}), "updFull")
    BY <1>0, SegmentHas
  <2>4. Phase' = "full" /\ Has("updFull")'
    BY <1>0, <1>5, <2>1, <2>2, <2>3, NextPhaseIs, RefreshFullIs DEF ssd1680_refresh_full
  <2>5. Display!ai_display_flush_full
    BY <1>5, <2>1, <2>4 DEF ssd1680_refresh_full, Display!ai_display_flush_full
  <2> QED
    BY <2>5 DEF Mapped, Display!Next
<1>6. CASE ssd1680_sleep
  <2>1. Phase = "idle" /\ Phase' = "busy"
    BY <1>1, <1>6, NextPhaseIs, SleepPhase DEF ssd1680_sleep
  <2>2. Display!SleepOrWakeup
    BY <1>6, <2>1 DEF ssd1680_sleep, Display!SleepOrWakeup
  <2> QED
    BY <2>2 DEF Mapped, Display!Next
<1>7. CASE ssd1680_wake
  <2>1. Phase = "idle" /\ Phase' = "busy"
    BY <1>1, <1>2, <1>7, WakeIs DEF ssd1680_wake
  <2>2. Display!SleepOrWakeup
    BY <1>7, <2>1 DEF ssd1680_wake, Display!SleepOrWakeup
  <2> QED
    BY <2>2 DEF Mapped, Display!Next
<1>8. CASE Restart
  <2>1. Phase' = "off" /\ UNCHANGED <<fb, shown, want>> /\ ~seeded'
    BY <1>8 DEF Restart, Phase
  <2>2. Display!Restart
    BY <2>1 DEF Display!Restart
  <2> QED
    BY <2>2 DEF Mapped, Display!Next
<1> QED
  BY <1>3, <1>4, <1>5, <1>6, <1>7, <1>8

\* A partial refresh is a flush of the region, or a full one when the driver was asleep.
LEMMA MappedPartial ==
    ASSUME IInv, Place, NEW r \in Rects, ssd1680_refresh_partial(r)
    PROVE  Mapped
<1> DEFINE c == Touched(r)
           i == IF mode = "NONE" THEN 1 ELSE IF mode = "FULL" THEN 13 ELSE 19
           j == IF c = {} THEN 18 ELSE 22
<1>1. Region(r) = c /\ c \in SUBSET Cells
  BY RegionIsTouched DEF Touched
<1>2. AtRest /\ TypeOK /\ ready /\ Phase = "idle" /\ ~Has("updFull")
  BY IdlePlace, NothingToCome, PhaseIs DEF ssd1680_refresh_partial, IInv, Idle
<1>3. mode \in {"NONE", "FULL", "PARTIAL"} /\ seeded \in BOOLEAN /\ late \in BOOLEAN
  BY <1>2 DEF TypeOK
<1>4. todo' = Segment(i, j, c)
  BY <1>1, <1>3, RefreshPartialIs DEF ssd1680_refresh_partial
<1>5. /\ UNCHANGED <<fb, ready, shown, late>>
      /\ want' = Overlay(IF mode = "NONE" THEN Cells ELSE c)
      /\ seeded' = (seeded \/ mode = "NONE")
  BY DEF ssd1680_refresh_partial
<1>6. j \in Ends /\ i \in 1 .. 23 /\ i <= j + 1
  BY DEF Ends
<1>7. Phase' = PhaseAt(i, j) /\ (Has("updFull")' <=> i <= 11 /\ j >= 12)
  BY <1>1, <1>2, <1>4, <1>5, <1>6, SegmentHas, NextPhaseIs
<1>8. CASE mode = "NONE"
  <2>1. Phase' = "full" /\ Has("updFull")' /\ ~seeded
    BY <1>2, <1>7, <1>8 DEF PhaseAt, AtRest
  <2>2. want' = fb
    BY <1>2, <1>5, <1>8 DEF Overlay, TypeOK, Picture
  <2>3. Display!ai_display_flush_full
    BY <1>2, <1>5, <2>1, <2>2 DEF Display!ai_display_flush_full
  <2> QED
    BY <2>3 DEF Mapped, Display!Next
<1>9. CASE mode # "NONE"
  <2>1. Phase' \in IF c = {} THEN {"idle", "busy"} ELSE {"partial"}
    BY <1>3, <1>7, <1>9 DEF PhaseAt
  <2>2. ~Has("updFull")'
    BY <1>3, <1>7, <1>9
  <2>3. seeded' = seeded
    BY <1>3, <1>5, <1>9
  <2>4. Trusted' = Trusted
    BY <1>2, <1>5, <2>2, <2>3 DEF Trusted
  <2> HIDE DEF c
  <2>5. want' = [x \in Cells |-> IF x \in c THEN fb[x] ELSE want[x]]
    BY <1>5, <1>9 DEF Overlay
  <2>6. Display!FlushRegion(c)
    BY <1>2, <1>5, <2>1, <2>4, <2>5 DEF Display!FlushRegion, Trusted
  <2>7. Display!ai_display_flush_partial(c)
    BY <2>6 DEF Display!ai_display_flush_partial
  <2> QED
    BY <1>1, <2>7 DEF Mapped, Display!Next
<1> QED
  BY <1>8, <1>9

-----------------------------------------------------------------------------
(* The driver's and the panel's steps.                                     *)

\* What a command of a call leaves to the HAL's eye.
LEMMA CommandSeen ==
    ASSUME IInv, NEW j \in Ends, NEW i \in 1 .. j, NEW c \in SUBSET Cells, InProgress(i, j, c), DriverStep
    PROVE  /\ i \in 1 .. 22 /\ UNCHANGED <<fb, want, seeded>> /\ Facts(i + 1, j, c)'
           /\ Phase = PhaseAt(i, j) /\ Phase' = PhaseAt(i + 1, j)
           /\ Has("updFull") <=> i <= 11 /\ j >= 12
           /\ Has("updFull")' <=> i + 1 <= 11 /\ j >= 12
           /\ i # 1 => (late => late')
           /\ i \in {11, 20} => late' = late
           /\ i \notin {11, 20} => shown' = shown
<1>1. todo # <<>> /\ Head(todo).op = Steps[i] /\ i \in 1 .. 22 /\ j \in 1 .. 22 /\ i <= j
  BY OnePlace
<1>2. /\ todo' = Tail(todo) /\ ready' = ready /\ UNCHANGED <<fb, want, seeded>>
      /\ (Head(todo).op # "reset" => (late => late'))
      /\ (Head(todo).op \notin {"wait", "reset"} => late' = late)
      /\ (Head(todo).op \notin {"updFull", "updPartial"} => shown' = shown)
  BY DEF DriverStep, WaitOver, WaitTimesOut, SetMode, Reset, CommandHeard, CommandMissed,
         Waiting, Sending, IsCommand, Displayed
<1>3. ready /\ ready' /\ TypeOK
  BY <1>1, <1>2 DEF IInv
<1>4. todo = Segment(i, j, c) /\ todo' = Segment(i + 1, j, c)
  BY <1>1, <1>2, NextCommand DEF InProgress
<1>5. Facts(i + 1, j, c)'
  BY <1>3, QuietStep, ResetStep, HeardStep, MissedStep DEF DriverStep
<1>6. i \in 1 .. 23 /\ i <= j + 1 /\ i + 1 \in 1 .. 23 /\ i + 1 <= j + 1
  BY <1>1
<1>7. Phase = PhaseAt(i, j) /\ (Has("updFull") <=> i <= 11 /\ j >= 12)
  BY <1>3, <1>4, <1>6, SegmentHas, PhaseIs
<1>8. Phase' = PhaseAt(i + 1, j) /\ (Has("updFull")' <=> i + 1 <= 11 /\ j >= 12)
  BY <1>3, <1>4, <1>6, SegmentHas, NextPhaseIs
<1> QED
  BY <1>1, <1>2, <1>5, <1>7, <1>8, StepNamed

LEMMA MappedCommand ==
    ASSUME IInv, IInv', NEW j \in Ends, NEW i \in 1 .. j, NEW c \in SUBSET Cells, InProgress(i, j, c), DriverStep
    PROVE  Mapped
<1>1. /\ i \in 1 .. 22 /\ UNCHANGED <<fb, want, seeded>> /\ Facts(i + 1, j, c)'
      /\ Phase = PhaseAt(i, j) /\ Phase' = PhaseAt(i + 1, j)
      /\ Has("updFull") <=> i <= 11 /\ j >= 12
      /\ Has("updFull")' <=> i + 1 <= 11 /\ j >= 12
      /\ i # 1 => (late => late')
      /\ i \in {11, 20} => late' = late
      /\ i \notin {11, 20} => shown' = shown
  BY CommandSeen
<1>2. shown' \in [Cells -> Inks] /\ seeded \in BOOLEAN /\ late \in BOOLEAN /\ late' \in BOOLEAN
  BY DEF IInv, TypeOK, Picture
<1>3. j \in {8, 12, 18, 22} /\ i <= j
  BY <1>1 DEF Ends
<1>4. CASE i = 11
  <2>1. Phase = "full" /\ Phase' \in {"partial", "busy"}
    BY <1>1, <1>3, <1>4 DEF PhaseAt
  <2>2. seeded' /\ ~late' => shown' = want'
    BY <1>1, <1>4 DEF Facts, Banks
  <2>3. Display!DriveAll
    BY <1>1, <1>2, <2>1, <2>2 DEF Display!DriveAll, Display!Image
  <2> QED
    BY <2>3 DEF Mapped, Display!Next
<1>5. CASE i = 20
  <2>1. Phase = "partial" /\ Phase' = "busy" /\ ~Has("updFull") /\ ~Has("updFull")'
    BY <1>1, <1>3, <1>5 DEF PhaseAt
  <2>2. seeded /\ ~late => shown' = want
    BY <1>1, <1>5 DEF Facts, Banks
  <2>3. Trusted' = Trusted
    BY <1>1, <1>5, <2>1 DEF Trusted
  <2>4. Display!DriveRegion
    BY <1>1, <1>2, <2>1, <2>2, <2>3 DEF Display!DriveRegion, Display!Image, Trusted
  <2> QED
    BY <2>4 DEF Mapped, Display!Next
<1>6. CASE i \notin {11, 20}
  <2>1. Trusted' => Trusted
    <3>1. CASE i = 1
      <4>1. Modes(1, j)
        BY <3>1 DEF InProgress, Facts
      <4> QED
        BY <1>1, <1>3, <3>1, <4>1 DEF Trusted, Modes
    <3>2. CASE i # 1
      BY <1>1, <1>3, <1>6, <3>2 DEF Trusted
    <3> QED
      BY <3>1, <3>2
  <2>2. Trusted \in BOOLEAN /\ Trusted' \in BOOLEAN
    BY DEF Trusted
  <2>3. UNCHANGED <<fb, shown, want>>
    BY <1>1, <1>6
  <2>4. CASE i = j
    <3>1. Phase = "busy" /\ Phase' = "idle"
      BY <1>1, <1>3, <2>4 DEF PhaseAt
    <3>2. Display!Return
      BY <2>1, <2>2, <2>3, <3>1 DEF Display!Return, Trusted
    <3> QED
      BY <3>2 DEF Mapped, Display!Next
  <2>5. CASE i # j
    <3>1. Phase' = Phase /\ Phase \in {"full", "partial", "busy"}
      BY <1>1, <1>3, <1>6, <2>5 DEF PhaseAt
    <3>2. CASE Trusted' = Trusted
      BY <2>3, <3>1, <3>2 DEF Mapped, Seen
    <3>3. CASE ~Trusted'
      <4>1. Display!Overrun
        BY <2>3, <3>1, <3>3 DEF Display!Overrun, Trusted
      <4> QED
        BY <4>1 DEF Mapped, Display!Next
    <3> QED
      BY <2>1, <2>2, <3>2, <3>3
  <2> QED
    BY <2>4, <2>5
<1> QED
  BY <1>4, <1>5, <1>6

LEMMA MappedDriver ==
    ASSUME IInv, IInv', Place, DriverStep
    PROVE  Mapped
<1>1. todo # <<>> /\ todo' = Tail(todo) /\ ready' = ready /\ UNCHANGED <<fb, want, seeded>>
      /\ (Head(todo).op \notin {"updFull", "updPartial"} => shown' = shown)
  BY DEF DriverStep, WaitOver, WaitTimesOut, SetMode, Reset, CommandHeard, CommandMissed,
         Waiting, Sending, IsCommand, Displayed
<1>2. ready /\ ready' /\ ~AtRest
  BY <1>1 DEF IInv, AtRest
<1>3. CASE Sleeps
  <2>1. Phase = "busy" /\ ~Trusted /\ ~Trusted' /\ Trusted' = Trusted
    BY <1>1, <1>2, <1>3, PhaseIs, SleepPhase DEF Sleeps, Trusted
  <2>2. /\ \/ Head(todo) = Op("sleep") /\ todo' = <<Op("modeNone")>>
           \/ Head(todo) = Op("modeNone") /\ todo' = <<>>
        /\ UNCHANGED <<fb, want, shown>>
    BY <1>1, <1>3, SleepsOn DEF Op
  <2>3. CASE todo' = <<Op("modeNone")>>
    <3>1. Phase' = "busy"
      BY <1>2, <2>3, NextPhaseIs, SleepPhase
    <3> QED
      BY <2>1, <2>2, <3>1 DEF Mapped, Seen
  <2>4. CASE todo' = <<>>
    <3>1. Phase' = "idle"
      BY <1>2, <2>4, NextPhaseIs, NothingToCome
    <3>2. Display!Return
      BY <2>1, <2>2, <3>1 DEF Display!Return, Trusted
    <3> QED
      BY <3>2 DEF Mapped, Display!Next
  <2> QED
    BY <2>2, <2>3, <2>4
<1> QED
  BY <1>2, <1>3, MappedCommand DEF Place

LEMMA MappedPanel ==
    ASSUME BusyEnds \/ BanksDecay \/ UNCHANGED vars
    PROVE  Mapped
<1>1. UNCHANGED <<fb, shown, want, todo, ready, seeded, late>>
  BY DEF BusyEnds, BanksDecay, vars
<1> QED
  BY <1>1 DEF Mapped, Seen, Phase, Trusted, Has, Idle

-----------------------------------------------------------------------------

\* Whatever the panel, its callers and their restarts, this driver gives them what
\* the Display HAL offers: the image changes in the update of a flush alone, and then
\* to exactly what was asked for, as long as the panel can be trusted.
THEOREM DriverIsDisplay == Spec => ImplementsDisplay
<1>1. IInv /\ IInv' /\ Place /\ [Next]_vars => [Display!Next]_(Display!vars)
  <2> SUFFICES ASSUME IInv, IInv', Place, [Next]_vars PROVE [Display!Next]_(Display!vars)
    OBVIOUS
  <2>1. Mapped
    BY MappedCalls, MappedPartial, MappedDriver, MappedPanel DEF Next
  <2>2. Seen' = Seen => UNCHANGED Display!vars
    BY DEF Seen, Trusted, Display!vars
  <2> QED
    BY <2>1, <2>2 DEF Mapped
<1> QED
  BY <1>1, DisplayInit, AlwaysIInv, AlwaysPlace, PTL DEF Spec, ImplementsDisplay, Display!Spec
=============================================================================
