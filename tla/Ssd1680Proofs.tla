---------------------------- MODULE Ssd1680Proofs --------------------------
(***************************************************************************)
(* What Ssd1680 guarantees for every panel size, set of inks and caller:   *)
(* type correctness, and that no command is lost before a wait times out.  *)
(***************************************************************************)
EXTENDS Ssd1680, TLAPS

-----------------------------------------------------------------------------
(* The window of a partial refresh.                                        *)

LEMMA DivMod ==
    ASSUME NEW x \in Int
    PROVE  /\ x \div 8 \in Int /\ x % 8 \in 0 .. 7
           /\ x = 8 * (x \div 8) + (x % 8)
  OBVIOUS

\* A quotient is bounded by the multiples of eight on either side.
LEMMA Quotient ==
    ASSUME NEW x \in Int, NEW b \in Int
    PROVE  /\ b <= x \div 8 <=> 8 * b <= x
           /\ x \div 8 <= b <=> x <= 8 * b + 7
  BY DivMod

LEMMA ByteStartIs ==
    ASSUME NEW x \in Int
    PROVE  ByteStart(x) = 8 * (x \div 8)
  BY DivMod DEF ByteStart

\* The columns of a byte window between two pixels, clipped to the panel.
LEMMA Columns ==
    ASSUME NEW x \in Int, NEW w \in Nat \ {0}, NEW b \in Int
    PROVE  LET x0 == AtLeast(ByteStart(x), 0)
               x1 == AtMost(ByteStart(x + w + 7) - 1, Width - 1)
           IN  /\ x0 \in Int /\ x1 \in Int
               /\ x0 \div 8 <= b /\ b <= x1 \div 8 <=>
                      /\ b \in 0 .. RowBytes - 1
                      /\ \E px \in 8 * b .. 8 * b + 7 : px \in x .. x + w - 1
  <1> DEFINE x0 == AtLeast(ByteStart(x), 0)
             x1 == AtMost(ByteStart(x + w + 7) - 1, Width - 1)
  <1> HIDE DEF x0, x1
  <1>1. Width \in Nat \ {0}
    BY RegionAssumption
  <1>2. x0 \in Int /\ (8 * b + 7 >= x0 <=> 8 * b + 7 >= 0 /\ 8 * b + 7 >= x)
    BY ByteStartIs, DivMod DEF x0, AtLeast
  <1>3. x1 \in Int /\ (8 * b <= x1 <=> 8 * b <= Width - 1 /\ 8 * b <= x + w - 1)
    <2>1. ByteStart(x + w + 7) - 1 \in Int
              /\ (8 * b <= ByteStart(x + w + 7) - 1 <=> 8 * b <= x + w - 1)
      BY ByteStartIs, DivMod
    <2> QED
      BY <1>1, <2>1 DEF x1, AtMost
  <1>4. x0 \div 8 <= b /\ b <= x1 \div 8 <=>
            8 * b + 7 >= 0 /\ 8 * b <= Width - 1 /\ 8 * b + 7 >= x /\ 8 * b <= x + w - 1
    BY <1>2, <1>3, Quotient
  <1>5. b \in 0 .. RowBytes - 1 <=> 8 * b + 7 >= 0 /\ 8 * b <= Width - 1
    <2>1. RowBytes \in Int /\ (b + 1 <= RowBytes <=> 8 * (b + 1) <= Width + 7)
      BY <1>1, DivMod, Quotient DEF RowBytes
    <2> QED
      BY <1>1, <2>1
  <1>6. (\E px \in 8 * b .. 8 * b + 7 : px \in x .. x + w - 1)
            <=> 8 * b + 7 >= x /\ 8 * b <= x + w - 1
    <2>1. ASSUME 8 * b + 7 >= x, 8 * b <= x + w - 1
          PROVE  \E px \in 8 * b .. 8 * b + 7 : px \in x .. x + w - 1
      <3>1. CASE 8 * b >= x
        <4> WITNESS 8 * b \in 8 * b .. 8 * b + 7
        <4> QED
          BY <2>1, <3>1
      <3>2. CASE 8 * b < x
        <4>1. x \in 8 * b .. 8 * b + 7
          BY <2>1, <3>2
        <4> WITNESS x \in 8 * b .. 8 * b + 7
        <4> QED
          BY <2>1, <3>2
      <3> QED
        BY <3>1, <3>2
    <2> QED
      BY <2>1
  <1> QED
    BY <1>2, <1>3, <1>4, <1>5, <1>6 DEF x0, x1

\* The bytes that ssd1680_refresh_partial sends are those a pixel of the region
\* lies in: no cell outside the panel is addressed, none that was asked for is
\* left out and none beside the region is driven, on every edge of every panel.
THEOREM RegionIsTouched == \A r \in Rects : Region(r) = Touched(r)
  <1> SUFFICES ASSUME NEW r \in Rects PROVE Region(r) = Touched(r)
    OBVIOUS
  <1> DEFINE x0 == AtLeast(ByteStart(r.x), 0)
             x1 == AtMost(ByteStart(r.x + r.w + 7) - 1, Width - 1)
             y0 == AtLeast(r.y, 0)
             y1 == AtMost(r.y + r.h - 1, Height - 1)
  <1>1. /\ r.x \in Int /\ r.y \in Int /\ r.w \in Nat \ {0} /\ r.h \in Nat \ {0}
        /\ Height \in Nat \ {0}
    BY RegionAssumption
  <1>2. /\ x0 \in Int /\ x1 \in Int
        /\ \A b \in Int : x0 \div 8 <= b /\ b <= x1 \div 8 <=>
               /\ b \in 0 .. RowBytes - 1
               /\ \E px \in 8 * b .. 8 * b + 7 : px \in r.x .. r.x + r.w - 1
    BY <1>1, Columns
  <1>3. /\ y0 \in Int /\ y1 \in Int
        /\ \A y \in Int : y \in y0 .. y1 <=> y \in 0 .. Height - 1 /\ y \in r.y .. r.y + r.h - 1
    BY <1>1 DEF AtLeast, AtMost
  <1>4. Region(r) = Window(x0, y0, x1, y1)
    BY DEF Region
  <1> HIDE DEF x0, x1, y0, y1
  <1>5. x1 < x0 => \A b \in Int : ~(x0 \div 8 <= b /\ b <= x1 \div 8)
    <2> SUFFICES ASSUME x1 < x0, NEW b \in Int, x0 \div 8 <= b, b <= x1 \div 8 PROVE FALSE
      OBVIOUS
    <2>1. x0 = AtLeast(ByteStart(r.x), 0)
      BY DEF x0
    <2>2. 8 * b <= x1 /\ x0 <= 8 * b + 7
      BY <1>2, Quotient
    <2>3. x0 % 8 = 0
      BY <1>1, <2>1, ByteStartIs, DivMod DEF AtLeast
    <2> QED
      BY <1>2, <2>2, <2>3, DivMod
  <1>6. x1 \div 8 \in Int /\ x0 \div 8 \in Int
    BY <1>2, DivMod
  <1>7. Window(x0, y0, x1, y1) =
            {c \in Int \X Int : x0 \div 8 <= c[1] /\ c[1] <= x1 \div 8 /\ c[2] \in y0 .. y1}
    <2>1. CASE x1 < x0 \/ y1 < y0
      BY <1>3, <1>5, <2>1 DEF Window
    <2>2. CASE ~(x1 < x0 \/ y1 < y0)
      BY <1>3, <1>6, <2>2 DEF Window
    <2> QED
      BY <2>1, <2>2
  <1>8. RowBytes \in Int /\ Cells \subseteq Int \X Int
    BY <1>1, DivMod, RegionAssumption DEF Cells, RowBytes
  <1> QED
    BY <1>2, <1>3, <1>4, <1>7, <1>8 DEF Touched, Cells

-----------------------------------------------------------------------------
(* Command sequences.                                                      *)

Ops == {"reset", "wait", "swreset", "config", "lutFull", "vcomPartial", "lutPartial", "loadLut",
        "ram24", "ram26", "updFull", "updPartial", "sleep",
        "modeFull", "modePartial", "modeNone"}

Command == [op : Ops, cells : SUBSET Cells]

\* What makes the panel busy is waited for at once.
Waits(s) ==
    \A k \in 1 .. Len(s) :
        s[k].op \in {"reset", "swreset", "loadLut", "updFull", "updPartial"} =>
            k < Len(s) /\ s[k + 1].op = "wait"

Sleepless(s) == \A k \in 1 .. Len(s) : s[k].op # "sleep"

Program == {s \in Seq(Command) : Waits(s) /\ Sleepless(s)}

\* One call's commands after another's.
LEMMA Concatenation ==
    ASSUME NEW s \in Program, NEW t \in Program
    PROVE  s \o t \in Program
  <1>1. s \in Seq(Command) /\ t \in Seq(Command) /\ s \o t \in Seq(Command)
    BY DEF Program
  <1>2. /\ Len(s) \in Nat /\ Len(t) \in Nat /\ Len(s \o t) = Len(s) + Len(t)
        /\ \A k \in 1 .. Len(s) : (s \o t)[k] = s[k]
        /\ \A k \in 1 .. Len(t) : (s \o t)[Len(s) + k] = t[k]
    BY <1>1
  <1>3. ASSUME NEW k \in 1 .. Len(s \o t)
        PROVE  /\ (s \o t)[k].op # "sleep"
               /\ (s \o t)[k].op \in {"reset", "swreset", "loadLut", "updFull", "updPartial"} =>
                      k < Len(s \o t) /\ (s \o t)[k + 1].op = "wait"
    <2>1. CASE k \in 1 .. Len(s)
      <3>1. (s \o t)[k] = s[k]
        BY <1>2, <2>1
      <3>2. s[k].op # "sleep" /\ (s[k].op \in {"reset", "swreset", "loadLut", "updFull", "updPartial"}
                => k < Len(s) /\ s[k + 1].op = "wait")
        BY <2>1 DEF Program, Waits, Sleepless
      <3>3. k < Len(s) => (s \o t)[k + 1] = s[k + 1]
        BY <1>2, <2>1
      <3> QED
        BY <1>2, <3>1, <3>2, <3>3
    <2>2. CASE k \notin 1 .. Len(s)
      <3> DEFINE j == k - Len(s)
      <3>1. j \in 1 .. Len(t) /\ (s \o t)[k] = t[j]
        BY <1>2, <2>2
      <3>2. t[j].op # "sleep" /\ (t[j].op \in {"reset", "swreset", "loadLut", "updFull", "updPartial"}
                => j < Len(t) /\ t[j + 1].op = "wait")
        BY <3>1 DEF Program, Waits, Sleepless
      <3>3. j < Len(t) => (s \o t)[k + 1] = t[j + 1]
        BY <1>2, <3>1
      <3> QED
        BY <1>2, <3>1, <3>2, <3>3
    <2> QED
      BY <2>1, <2>2
  <1> QED
    BY <1>1, <1>3 DEF Program, Waits, Sleepless

LEMMA AppendedMode ==
    ASSUME NEW s \in Program, NEW op \in {"modeFull", "modePartial"}
    PROVE  Append(s, Op(op)) \in Program
  <1>1. <<Op(op)>> \in Program
    BY DEF Program, Waits, Sleepless, Command, Ops, Op
  <1>2. Append(s, Op(op)) = s \o <<Op(op)>>
    BY DEF Program
  <1> QED
    BY <1>1, <1>2, Concatenation

LEMMA InitFullProgram == InitFull \in Program
  BY DEF InitFull, Program, Waits, Sleepless, Command, Ops, Op

LEMMA WakeProgram == Wake \in Program
  BY InitFullProgram, AppendedMode DEF Wake

LEMMA RefreshFullProgram == RefreshFull \in Program
  <1>1. <<Op("modeFull"), OpOn("ram24", Cells), OpOn("ram26", Cells), Op("updFull"), Op("wait")>>
            \in Program
    BY DEF Program, Waits, Sleepless, Command, Ops, Op, OpOn
  <1> QED
    BY <1>1, InitFullProgram, Concatenation DEF RefreshFull

LEMMA RefreshPartialProgram ==
    ASSUME NEW cells \in SUBSET Cells
    PROVE  RefreshPartial(cells) \in Program
  <1>1. InitPartial \in Program
    BY DEF InitPartial, Program, Waits, Sleepless, Command, Ops, Op
  <1>2. WriteAndUpdate(cells) \in Program
    BY DEF WriteAndUpdate, Program, Waits, Sleepless, Command, Ops, Op, OpOn
  <1>3. <<>> \in Program
    BY DEF Program, Waits, Sleepless
  <1>4. Append(InitPartial, Op("modePartial")) \in Program
    BY <1>1, AppendedMode
  <1> QED
    BY <1>2, <1>3, <1>4, RefreshFullProgram, Concatenation DEF RefreshPartial

LEMMA HeadOfConcatenation ==
    ASSUME NEW s \in Seq(Command), NEW t \in Seq(Command), Len(s) # 0
    PROVE  s \o t \in Seq(Command) /\ s \o t # <<>> /\ Head(s \o t) = s[1]
  <1>1. /\ Len(s) \in Nat /\ Len(t) \in Nat /\ Len(s \o t) = Len(s) + Len(t)
        /\ \A k \in 1 .. Len(s) : (s \o t)[k] = s[k]
    OBVIOUS
  <1>2. \A u \in Seq(Command) : Len(u) # 0 => u # <<>> /\ Head(u) = u[1]
    OBVIOUS
  <1> QED
    BY <1>1, <1>2

\* A call that finds the panel asleep resets it before anything else.
LEMMA StartsWithReset ==
    /\ Wake # <<>> /\ Head(Wake).op = "reset"
    /\ RefreshFull # <<>> /\ Head(RefreshFull).op = "reset"
    /\ \A cells \in SUBSET Cells :
          mode = "NONE" => RefreshPartial(cells) # <<>> /\ Head(RefreshPartial(cells)).op = "reset"
  <1>1. InitFull \in Seq(Command) /\ Len(InitFull) = 7 /\ InitFull[1].op = "reset"
    BY InitFullProgram DEF InitFull, Op, Program
  <1>2. ASSUME NEW t \in Seq(Command)
        PROVE  /\ InitFull \o t \in Seq(Command)
               /\ InitFull \o t # <<>> /\ Head(InitFull \o t).op = "reset"
    BY <1>1, <1>2, HeadOfConcatenation
  <1>3. Wake # <<>> /\ Head(Wake).op = "reset"
    <2>1. Op("modeFull") \in Command
      BY DEF Op, Command, Ops
    <2> QED
      BY <1>1, <2>1 DEF Wake
  <1>4. RefreshFull # <<>> /\ Head(RefreshFull).op = "reset"
    <2>1. <<Op("modeFull"), OpOn("ram24", Cells), OpOn("ram26", Cells), Op("updFull"), Op("wait")>>
             \in Seq(Command)
      BY DEF Op, OpOn, Command, Ops
    <2> QED
      BY <1>2, <2>1 DEF RefreshFull
  <1>5. ASSUME NEW cells \in SUBSET Cells, mode = "NONE"
        PROVE  RefreshPartial(cells) # <<>> /\ Head(RefreshPartial(cells)).op = "reset"
    <2> DEFINE P == Append(InitPartial, Op("modePartial"))
               W == IF cells # {} THEN WriteAndUpdate(cells) ELSE <<>>
    <2>1. P \in Seq(Command) /\ W \in Seq(Command) /\ RefreshFull \in Seq(Command)
      <3>1. InitPartial \in Seq(Command) /\ WriteAndUpdate(cells) \in Seq(Command)
        BY DEF Op, OpOn, Command, Ops, InitPartial, WriteAndUpdate
      <3>2. Op("modePartial") \in Command
        BY DEF Op, Command, Ops
      <3> QED
        BY <3>1, <3>2, RefreshFullProgram DEF Program
    <2>2. RefreshPartial(cells) = RefreshFull \o P \o W
      BY <1>5 DEF RefreshPartial
    <2> HIDE DEF P, W
    <2> QED
      BY <1>4, <2>1, <2>2
  <1> QED
    BY <1>3, <1>4, <1>5

\* The call in progress.
InCall == todo \in Program \/ todo = Sleep

\* What is left after a command is a program again, and begins with a wait if the
\* command made the panel busy.
LEMMA AfterCommand ==
    ASSUME InCall, todo # <<>>
    PROVE  /\ Head(todo) \in Command
           /\ Tail(todo) \in Program
           /\ Head(todo).op \in {"reset", "swreset", "loadLut", "updFull", "updPartial"} =>
                  Tail(todo) # <<>> /\ Head(Tail(todo)).op = "wait"
           /\ Head(todo).op = "sleep" => Tail(todo) = <<Op("modeNone")>>
  <1>1. CASE todo \in Program
    <2>1. /\ todo \in Seq(Command) /\ Len(todo) \in Nat \ {0}
          /\ Head(todo) = todo[1] /\ Head(todo) \in Command
          /\ Tail(todo) \in Seq(Command) /\ Len(Tail(todo)) = Len(todo) - 1
          /\ \A k \in 1 .. Len(todo) - 1 : Tail(todo)[k] = todo[k + 1]
      BY <1>1 DEF Program
    <2>2. ASSUME NEW k \in 1 .. Len(Tail(todo))
          PROVE  /\ Tail(todo)[k].op # "sleep"
                 /\ Tail(todo)[k].op \in {"reset", "swreset", "loadLut", "updFull", "updPartial"} =>
                        k < Len(Tail(todo)) /\ Tail(todo)[k + 1].op = "wait"
      <3>1. Tail(todo)[k] = todo[k + 1] /\ k + 1 \in 1 .. Len(todo)
        BY <2>1
      <3>2. todo[k + 1].op # "sleep"
               /\ (todo[k + 1].op \in {"reset", "swreset", "loadLut", "updFull", "updPartial"}
                      => k + 1 < Len(todo) /\ todo[k + 2].op = "wait")
        BY <1>1, <3>1 DEF Program, Waits, Sleepless
      <3>3. k + 1 < Len(todo) => Tail(todo)[k + 1] = todo[k + 2]
        BY <2>1
      <3> QED
        BY <2>1, <3>1, <3>2, <3>3
    <2>3. Tail(todo) \in Program
      BY <2>1, <2>2 DEF Program, Waits, Sleepless
    <2>4. /\ todo[1].op # "sleep"
          /\ todo[1].op \in {"reset", "swreset", "loadLut", "updFull", "updPartial"} =>
                 1 < Len(todo) /\ todo[2].op = "wait"
      BY <1>1, <2>1 DEF Program, Waits, Sleepless
    <2>5. 1 < Len(todo) => Tail(todo) # <<>> /\ Head(Tail(todo)) = todo[2]
      <3>1. SUFFICES ASSUME 1 < Len(todo) PROVE Tail(todo) # <<>> /\ Head(Tail(todo)) = todo[2]
        OBVIOUS
      <3>2. Tail(todo)[1] = todo[2] /\ Len(Tail(todo)) # 0
        BY <2>1, <3>1
      <3>3. \A u \in Seq(Command) : Len(u) # 0 => u # <<>> /\ Head(u) = u[1]
        OBVIOUS
      <3> QED
        BY <2>1, <3>2, <3>3
    <2> QED
      BY <2>1, <2>3, <2>4, <2>5
  <1>2. CASE todo = Sleep
    BY <1>2 DEF Sleep, Program, Waits, Sleepless, Command, Ops, Op
  <1> QED
    BY <1>1, <1>2 DEF InCall

-----------------------------------------------------------------------------
(* The inductive invariant.                                                *)

PanelState ==
    [awake : BOOLEAN, busy : BOOLEAN, config : BOOLEAN,
     lut : {"none", "full", "partial"}, vcom : {"none", "full", "partial"}]

\* Unless a wait timed out, the driver waits for a busy panel or resets it.
BusyAwaited ==
    panel.busy /\ ~late => IF todo = <<>> THEN ~ready ELSE Head(todo).op \in {"wait", "reset"}

\* A sleeping panel gets nothing but a reset or the end of ssd1680_sleep.
AsleepLeftAlone ==
    ~panel.awake =>
        \/ todo = <<>> /\ (ready => mode = "NONE")
        \/ todo = Sleep \/ todo = <<Op("modeNone")>>
        \/ todo # <<>> /\ Head(todo).op = "reset"

IInv ==
    /\ TypeOK
    /\ InCall
    /\ ~ready => todo = <<>>
    /\ BusyAwaited
    /\ AsleepLeftAlone
    /\ NoCommandLost

LEMMA InitInv == Init => IInv
  <1> SUFFICES ASSUME Init PROVE IInv
    OBVIOUS
  <1>1. TypeOK
    BY PanelAssumption DEF Init, TypeOK, Picture
  <1>2. <<>> \in Program
    BY DEF Program, Waits, Sleepless
  <1> QED
    BY <1>1, <1>2 DEF Init, IInv, InCall, BusyAwaited, AsleepLeftAlone, NoCommandLost

\* A call starts on an idle driver.
LEMMA CallStarts ==
    ASSUME IInv, Idle,
           ready', InCall', TypeOK',
           UNCHANGED <<mode, panel, late, lost>>,
           \/ todo' # <<>> /\ Head(todo').op = "reset"
           \/ todo' = Sleep /\ ready
           \/ ready /\ mode # "NONE"
    PROVE  IInv'
  <1>1. ready => (panel.busy => late)
    BY DEF IInv, BusyAwaited, Idle
  <1>2. ready /\ mode # "NONE" => panel.awake
    BY DEF IInv, AsleepLeftAlone, Idle, Sleep
  <1>3. NoCommandLost'
    BY DEF IInv, NoCommandLost
  <1>4. BusyAwaited'
    BY <1>1 DEF BusyAwaited
  <1>5. AsleepLeftAlone'
    BY <1>2 DEF AsleepLeftAlone, Sleep
  <1> QED
    BY <1>3, <1>4, <1>5 DEF IInv

LEMMA CallInv ==
    ASSUME IInv,
           \/ ssd1680_init \/ Draw \/ ssd1680_refresh_full \/ ssd1680_sleep \/ ssd1680_wake
           \/ \E r \in Rects : ssd1680_refresh_partial(r)
    PROVE  IInv'
  <1> USE DEF IInv
  <1>1. CASE ssd1680_init
    <2>1. TypeOK'
      BY <1>1, PanelAssumption DEF ssd1680_init, TypeOK, Picture
    <2>2. InCall'
      BY <1>1, WakeProgram DEF ssd1680_init, InCall
    <2> QED
      BY <1>1, <2>1, <2>2, StartsWithReset, CallStarts DEF ssd1680_init
  <1>2. CASE Draw
    <2>1. TypeOK'
      BY <1>2 DEF Draw, TypeOK
    <2> QED
      BY <1>2, <2>1 DEF Draw, InCall, BusyAwaited, AsleepLeftAlone, NoCommandLost
  <1>3. CASE ssd1680_refresh_full
    <2>1. TypeOK'
      BY <1>3 DEF ssd1680_refresh_full, TypeOK
    <2>2. InCall'
      BY <1>3, RefreshFullProgram DEF ssd1680_refresh_full, InCall
    <2> QED
      BY <1>3, <2>1, <2>2, StartsWithReset, CallStarts DEF ssd1680_refresh_full
  <1>4. CASE ssd1680_sleep
    <2>1. TypeOK'
      BY <1>4 DEF ssd1680_sleep, TypeOK
    <2>2. InCall'
      BY <1>4 DEF ssd1680_sleep, InCall
    <2> QED
      BY <1>4, <2>1, <2>2, CallStarts DEF ssd1680_sleep
  <1>5. CASE ssd1680_wake
    <2>1. TypeOK'
      BY <1>5 DEF ssd1680_wake, TypeOK
    <2>2. InCall'
      BY <1>5, WakeProgram DEF ssd1680_wake, InCall
    <2> QED
      BY <1>5, <2>1, <2>2, StartsWithReset, CallStarts DEF ssd1680_wake
  <1>6. ASSUME NEW r \in Rects, ssd1680_refresh_partial(r) PROVE IInv'
    <2> DEFINE cells == Region(r)
    <2>0. cells \in SUBSET Cells
      BY RegionIsTouched DEF Touched
    <2> HIDE DEF cells
    <2>1. want' \in Picture
      BY <1>6 DEF ssd1680_refresh_partial, TypeOK, Overlay, Picture
    <2>2. seeded' \in BOOLEAN
      BY <1>6 DEF ssd1680_refresh_partial, TypeOK
    <2>3. TypeOK'
      BY <1>6, <2>1, <2>2 DEF ssd1680_refresh_partial, TypeOK
    <2>4. InCall'
      BY <1>6, <2>0, RefreshPartialProgram DEF ssd1680_refresh_partial, InCall, cells
    <2>5. mode = "NONE" => todo' # <<>> /\ Head(todo').op = "reset"
      BY <1>6, <2>0, StartsWithReset DEF ssd1680_refresh_partial, cells
    <2> QED
      BY <1>6, <2>3, <2>4, <2>5, CallStarts DEF ssd1680_refresh_partial
  <1> QED
    BY <1>1, <1>2, <1>3, <1>4, <1>5, <1>6

\* The commands of a call, one by one.
LEMMA DriverInv ==
    ASSUME IInv, DriverStep
    PROVE  IInv'
  <1> USE DEF IInv
  <1>1. todo # <<>> /\ todo' = Tail(todo) /\ ready' = ready
    BY DEF DriverStep, WaitOver, WaitTimesOut, SetMode, Reset, CommandHeard, CommandMissed,
           Waiting, Sending, IsCommand
  <1>2. /\ Head(todo).op \in Ops
        /\ InCall'
        /\ (~ready => todo = <<>>)'
        /\ Head(todo).op \in {"reset", "swreset", "loadLut", "updFull", "updPartial"} =>
               todo' # <<>> /\ Head(todo').op = "wait"
        /\ Head(todo).op = "sleep" => todo' = <<Op("modeNone")>>
    BY <1>1, AfterCommand DEF InCall, Command
  <1>3. ~panel.awake =>
            \/ Head(todo).op = "reset"
            \/ Head(todo).op = "sleep" /\ todo' = <<Op("modeNone")>>
            \/ Head(todo).op = "modeNone" /\ todo' = <<>>
    <2>1. /\ Head(Sleep).op = "sleep" /\ Tail(Sleep) = <<Op("modeNone")>>
          /\ Head(<<Op("modeNone")>>).op = "modeNone" /\ Tail(<<Op("modeNone")>>) = <<>>
      <3>1. \A a, b : Head(<<a, b>>) = a /\ Tail(<<a, b>>) = <<b>>
                       /\ Head(<<a>>) = a /\ Tail(<<a>>) = <<>>
        OBVIOUS
      <3>2. Head(Sleep) = Op("sleep") /\ Tail(Sleep) = <<Op("modeNone")>>
        BY <3>1, Zenon DEF Sleep
      <3>3. Head(<<Op("modeNone")>>) = Op("modeNone") /\ Tail(<<Op("modeNone")>>) = <<>>
        BY <3>1, Zenon
      <3>4. Op("sleep").op = "sleep" /\ Op("modeNone").op = "modeNone"
        BY DEF Op
      <3> QED
        BY <3>2, <3>3, <3>4
    <2> QED
      BY <1>1, <2>1 DEF AsleepLeftAlone
  <1>4. panel.busy /\ ~late => Head(todo).op \in {"wait", "reset"}
    BY <1>1 DEF BusyAwaited
  <1>5. CASE WaitOver \/ WaitTimesOut
    <2>1. Head(todo).op = "wait" /\ (panel.busy => late')
      BY <1>5 DEF WaitOver, WaitTimesOut, Waiting, Sending
    <2>2. TypeOK' /\ UNCHANGED panel /\ NoCommandLost'
      <3>1. CASE WaitOver
        BY <3>1 DEF WaitOver, TypeOK, NoCommandLost
      <3>2. CASE WaitTimesOut
        BY <3>2 DEF WaitTimesOut, TypeOK, NoCommandLost
      <3> QED
        BY <1>5, <3>1, <3>2
    <2>3. BusyAwaited'
      BY <2>1, <2>2 DEF BusyAwaited
    <2>4. AsleepLeftAlone'
      BY <1>3, <2>1, <2>2 DEF AsleepLeftAlone
    <2> QED
      BY <1>2, <2>2, <2>3, <2>4
  <1>6. CASE SetMode
    <2>1. Head(todo).op \in {"modeFull", "modePartial", "modeNone"}
      BY <1>6 DEF SetMode, ModeOf
    <2>2. /\ mode' \in {"NONE", "FULL", "PARTIAL"}
          /\ Head(todo).op = "modeNone" => mode' = "NONE"
      BY <1>6, <2>1 DEF SetMode, ModeOf
    <2>3. TypeOK' /\ UNCHANGED <<panel, late>> /\ NoCommandLost'
      BY <1>6, <2>2 DEF SetMode, TypeOK, NoCommandLost
    <2>4. BusyAwaited'
      BY <1>4, <2>1, <2>3 DEF BusyAwaited
    <2>5. AsleepLeftAlone'
      BY <1>3, <2>1, <2>2, <2>3 DEF AsleepLeftAlone
    <2> QED
      BY <1>2, <2>3, <2>4, <2>5
  <1>7. CASE Reset
    <2>1. /\ Head(todo).op = "reset"
          /\ panel'.awake /\ panel' \in PanelState
      BY <1>7 DEF Reset, Sending, PanelState
    <2>2. TypeOK'
      BY <1>7, <2>1 DEF Reset, TypeOK, PanelState
    <2>3. BusyAwaited' /\ AsleepLeftAlone' /\ NoCommandLost'
      BY <1>2, <1>7, <2>1 DEF Reset, BusyAwaited, AsleepLeftAlone, NoCommandLost
    <2> QED
      BY <1>2, <2>2, <2>3
  <1>8. CASE CommandHeard
    <2> DEFINE op == Head(todo).op
    <2>1. panel.awake /\ ~panel.busy /\ panel \in PanelState
      BY <1>8 DEF CommandHeard, Hears, TypeOK, PanelState
    <2>2. /\ panel' \in PanelState
          /\ panel'.busy => op \in {"swreset", "loadLut", "updFull", "updPartial"}
          /\ ~panel'.awake => op = "sleep"
      BY <1>2, <1>8, <2>1 DEF CommandHeard, Registers, PanelState
    <2>3. ram24' \in Picture /\ ram26' \in Picture /\ shown' \in Picture
      BY <1>8 DEF CommandHeard, Written, Displayed, TypeOK, Picture
    <2>4. TypeOK'
      BY <1>8, <2>2, <2>3 DEF CommandHeard, TypeOK, PanelState
    <2>5. BusyAwaited'
      BY <1>2, <2>2 DEF BusyAwaited
    <2>6. AsleepLeftAlone'
      BY <1>2, <2>2 DEF AsleepLeftAlone
    <2>7. NoCommandLost'
      BY <1>8 DEF CommandHeard, NoCommandLost
    <2> QED
      BY <1>2, <2>4, <2>5, <2>6, <2>7
  <1>9. CASE CommandMissed
    <2>1. Head(todo).op \notin {"wait", "reset", "modeNone"}
      BY <1>9 DEF CommandMissed, IsCommand, ModeOf
    <2>2. UNCHANGED <<panel, late, mode>>
      BY <1>9 DEF CommandMissed
    <2>3. ~late => ~panel.busy /\ ~panel.awake /\ Head(todo).op = "sleep"
      BY <1>3, <1>4, <1>9, <2>1 DEF CommandMissed, Hears
    <2>4. NoCommandLost'
      <3>1. CASE late
        BY <2>2, <3>1 DEF NoCommandLost
      <3>2. CASE ~late
        <4>1. ~lost /\ Sending("sleep")
          BY <1>1, <2>3, <3>2 DEF NoCommandLost, Sending
        <4>2. ~lost'
          BY <1>9, <4>1 DEF CommandMissed
        <4> QED
          BY <4>2 DEF NoCommandLost
      <3> QED
        BY <3>1, <3>2
    <2>5. TypeOK'
      BY <1>9 DEF CommandMissed, TypeOK
    <2>6. BusyAwaited' /\ AsleepLeftAlone'
      BY <1>3, <2>1, <2>2, <2>3 DEF BusyAwaited, AsleepLeftAlone
    <2> QED
      BY <1>2, <2>4, <2>5, <2>6
  <1> QED
    BY <1>5, <1>6, <1>7, <1>8, <1>9 DEF DriverStep

LEMMA NextInv == IInv /\ [Next]_vars => IInv'
  <1> SUFFICES ASSUME IInv, [Next]_vars PROVE IInv'
    OBVIOUS
  <1> USE DEF IInv
  <1>1. CASE Restart
    <2>1. <<>> \in Program
      BY DEF Program, Waits, Sleepless
    <2>2. TypeOK'
      BY <1>1 DEF Restart, TypeOK
    <2> QED
      BY <1>1, <2>1, <2>2 DEF Restart, InCall, BusyAwaited, AsleepLeftAlone, NoCommandLost
  <1>2. CASE BusyEnds
    <2>1. panel' \in PanelState /\ ~panel'.busy /\ panel'.awake = panel.awake
      BY <1>2 DEF BusyEnds, TypeOK, PanelState
    <2>2. TypeOK'
      BY <1>2, <2>1 DEF BusyEnds, TypeOK, PanelState
    <2> QED
      BY <1>2, <2>1, <2>2 DEF BusyEnds, InCall, BusyAwaited, AsleepLeftAlone, NoCommandLost
  <1>3. CASE BanksDecay
    <2>1. TypeOK'
      BY <1>3 DEF BanksDecay, TypeOK
    <2> QED
      BY <1>3, <2>1 DEF BanksDecay, InCall, BusyAwaited, AsleepLeftAlone, NoCommandLost
  <1>4. CASE UNCHANGED vars
    <2>1. TypeOK'
      BY <1>4 DEF vars, TypeOK
    <2> QED
      BY <1>4, <2>1 DEF vars, InCall, BusyAwaited, AsleepLeftAlone, NoCommandLost
  <1> QED
    BY <1>1, <1>2, <1>3, <1>4, CallInv, DriverInv DEF Next

LEMMA AlwaysIInv == Spec => []IInv
  BY InitInv, NextInv, PTL DEF Spec

-----------------------------------------------------------------------------
(* What the invariant gives.                                               *)

\* Every variable keeps its type, whatever the panel does.
THEOREM TypeCorrect == Spec => []TypeOK
  <1>1. IInv => TypeOK
    BY DEF IInv
  <1> QED
    BY <1>1, AlwaysIInv, PTL

\* Over every sequence of calls and restarts, the panel misses a command only
\* after a wait has timed out.
THEOREM CommandsAreHeard == Spec => []NoCommandLost
  <1>1. IInv => NoCommandLost
    BY DEF IInv
  <1> QED
    BY <1>1, AlwaysIInv, PTL
=============================================================================
