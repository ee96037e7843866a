----------------------------- MODULE GuestProofs -----------------------------
(***************************************************************************)
(* Proofs about the console and a guest, for a screen of any size, any     *)
(* texts and any size of the scancode buffer and the guest's stack.        *)
(***************************************************************************)
EXTENDS Guest, FiniteSetTheorems, SequenceTheorems, TLAPS

-----------------------------------------------------------------------------
(***************************************************************************)
(* The console driver.                                                     *)
(***************************************************************************)

\* The colours terminal.current_color may have: the values of a char.
SChars == -(CharValues \div 2)..(CharValues \div 2 - 1)

\* A console whose cursor is on the screen.
ConOK(c) ==
  \E row \in 0..CONSOLE_HEIGHT - 1, col \in 0..CONSOLE_WIDTH - 1, color \in SChars :
    c = Con(row, col, color)

\* The fields of a console.
LEMMA ConFields ==
  ASSUME NEW row, NEW col, NEW color
  PROVE  /\ Con(row, col, color).row = row /\ Con(row, col, color).col = col
         /\ Con(row, col, color).color = color
BY DEF Con

\* Products grow with their factors.
LEMMA TimesMonotonic ==
  ASSUME NEW w \in Nat, NEW a \in Int, NEW b \in Int, a <= b
  PROVE  a * w <= b * w
<1>1. PICK c \in Nat : b = a + c
  <2>1. b - a \in Nat /\ b = a + (b - a)
    OBVIOUS
  <2> QED BY <2>1
<1>2. b * w = a * w + c * w
  BY <1>1
<1>3. c * w \in Nat
  BY <1>1
<1>4. a * w \in Int
  OBVIOUS
<1> QED BY <1>2, <1>3, <1>4

\* A number has one quotient and one remainder.
LEMMA Quotient ==
  ASSUME NEW w \in Nat \ {0}, NEW q \in Int, NEW r \in 0..w - 1
  PROVE  (q * w + r) \div w = q
<1>1. PICK n \in Int : n = q * w + r
  OBVIOUS
<1>2. PICK x \in Int, y \in 0..w - 1 : x = n \div w /\ n = x * w + y
  <2>1. n \div w \in Int /\ n % w \in 0..w - 1 /\ n = (n \div w) * w + (n % w)
    BY <1>1
  <2> QED BY <2>1
<1>3. CASE x <= q - 1
  <2>1. x * w <= (q - 1) * w
    BY <1>3, TimesMonotonic
  <2>2. (q - 1) * w = q * w - w
    OBVIOUS
  <2>3. PICK a \in Int, b \in Int : a = x * w /\ b = q * w
    OBVIOUS
  <2> QED BY <1>1, <1>2, <2>1, <2>2, <2>3
<1>4. CASE x >= q + 1
  <2>1. (q + 1) * w <= x * w
    BY <1>4, TimesMonotonic
  <2>2. (q + 1) * w = q * w + w
    OBVIOUS
  <2>3. PICK a \in Int, b \in Int : a = x * w /\ b = q * w
    OBVIOUS
  <2> QED BY <1>1, <1>2, <2>1, <2>2, <2>3
<1>5. CASE x = q
  BY <1>1, <1>2, <1>5
<1> QED BY <1>2, <1>3, <1>4, <1>5

\* Half of the values of a byte.
LEMMA HalfByte ==
  /\ CharValues \in Nat /\ CharValues > 1
  /\ CharValues \div 2 \in Nat \ {0}
  /\ CharValues = 2 * (CharValues \div 2)
BY ConsoleAssumption

\* A colour that set_term_color accepts is stored as a char, ...
LEMMA CharType ==
  ASSUME NEW color \in Int
  PROVE  SChar(color) \in SChars
<1>1. PICK h \in Nat \ {0} : h = CharValues \div 2 /\ CharValues = 2 * h
  BY HalfByte
<1>2. color % CharValues \in 0..CharValues - 1
  BY HalfByte
<1>3. PICK x : x = color % CharValues
  OBVIOUS
<1> QED BY <1>1, <1>2, <1>3 DEF SChar, UChar, SChars

\* ... and comes back unchanged from get_term_color and set_term_color.
LEMMA CharRoundTrip ==
  ASSUME NEW color \in SChars
  PROVE  UChar(color) \in Int /\ SChar(UChar(color)) = color
<1>1. PICK h \in Nat \ {0} : h = CharValues \div 2 /\ CharValues = 2 * h
  BY HalfByte
<1>2. color \in -h..h - 1
  BY <1>1 DEF SChars
<1>3. CASE color >= 0
  <2>1. color % CharValues = color
    BY <1>1, <1>2, <1>3
  <2> QED BY <1>1, <1>2, <1>3, <2>1 DEF SChar, UChar
<1>4. CASE color < 0
  <2>1. color % CharValues = color + CharValues
    BY <1>1, <1>2, <1>4
  <2>2. (color + CharValues) % CharValues = color + CharValues
    BY <1>1, <1>2, <1>4
  <2> QED BY <1>1, <1>2, <1>4, <2>1, <2>2 DEF SChar, UChar
<1> QED BY <1>2, <1>3, <1>4

\* The cursor on a console that is in order.
LEMMA ConFacts ==
  ASSUME NEW c, ConOK(c)
  PROVE  /\ c.row \in 0..CONSOLE_HEIGHT - 1 /\ c.col \in 0..CONSOLE_WIDTH - 1
         /\ c.color \in SChars /\ c = Con(c.row, c.col, c.color)
         /\ ValidatePos(c.row, c.col)
BY ConFields DEF ConOK, ValidatePos

\* set_cursor on the screen.
LEMMA PlaceOK ==
  ASSUME NEW c, ConOK(c), NEW row, NEW col, ValidatePos(row, col)
  PROVE  ConOK(Place(c, row, col))
BY ConFacts DEF ConOK, Place, ValidatePos

\* convert_to_pos gives the place of a pixel.
LEMMA PosOf ==
  ASSUME NEW row \in Nat, NEW col \in 0..CONSOLE_WIDTH - 1
  PROVE  /\ RowOf(row * CONSOLE_WIDTH + col) = row
         /\ ColOf(row * CONSOLE_WIDTH + col) = col
<1>1. CONSOLE_WIDTH \in Nat \ {0}
  BY ConsoleAssumption
<1>2. PICK idx \in Int : idx = row * CONSOLE_WIDTH + col
  BY <1>1
<1>3. idx >= 0
  <2>1. row * CONSOLE_WIDTH \in Nat
    BY <1>1
  <2> QED BY <1>2, <2>1
<1>4. idx \div CONSOLE_WIDTH = row
  BY <1>1, <1>2, Quotient
<1>5. RowOf(idx) = row
  BY <1>3, <1>4 DEF RowOf
<1>6. ColOf(idx) = col
  <2>1. row * CONSOLE_WIDTH \in Int
    BY <1>1
  <2> QED BY <1>2, <1>5, <2>1 DEF ColOf
<1> QED BY <1>2, <1>5, <1>6

\* The screen has two lines at least.
LEMMA Screen ==
  CONSOLE_WIDTH \in Nat \ {0} /\ CONSOLE_HEIGHT \in Nat /\ CONSOLE_HEIGHT > 1
BY ConsoleAssumption

\* A letter at any place of the screen.
LEMMA ForwardOK ==
  ASSUME NEW c, ConOK(c)
  PROVE  ConOK(Forward(c))
<1>1. PICK row, col : row = c.row /\ col = c.col
  OBVIOUS
<1>2. row \in 0..CONSOLE_HEIGHT - 1 /\ col \in 0..CONSOLE_WIDTH - 1
  BY <1>1, ConFacts
<1>3. PICK idx : idx = ToIdx(row, col) + 1
  OBVIOUS
<1>4. Forward(c) = IF ValidatePos(RowOf(idx), ColOf(idx))
                   THEN Place(c, RowOf(idx), ColOf(idx))
                   ELSE Place(c, RowOf(idx) - 1, ColOf(idx))
  BY <1>1, <1>3 DEF Forward
<1>5. row * CONSOLE_WIDTH \in Int /\ (row + 1) * CONSOLE_WIDTH = row * CONSOLE_WIDTH + CONSOLE_WIDTH
  BY <1>2, Screen
<1>6. CASE col < CONSOLE_WIDTH - 1
  <2>1. idx = row * CONSOLE_WIDTH + (col + 1)
    BY <1>2, <1>3, <1>5, Screen DEF ToIdx
  <2>2. RowOf(idx) = row /\ ColOf(idx) = col + 1
    <3>1. row \in Nat /\ col + 1 \in 0..CONSOLE_WIDTH - 1
      BY <1>2, <1>6, Screen
    <3> QED BY <2>1, <3>1, PosOf
  <2>3. ValidatePos(row, col + 1)
    BY <1>2, <1>6, Screen DEF ValidatePos
  <2> QED BY <1>4, <2>2, <2>3, PlaceOK
<1>7. CASE col = CONSOLE_WIDTH - 1
  <2>1. idx = (row + 1) * CONSOLE_WIDTH + 0
    BY <1>2, <1>3, <1>5, <1>7, Screen DEF ToIdx
  <2>2. RowOf(idx) = row + 1 /\ ColOf(idx) = 0
    <3>1. row + 1 \in Nat /\ 0 \in 0..CONSOLE_WIDTH - 1
      BY <1>2, Screen
    <3> QED BY <2>1, <3>1, PosOf
  <2>3. ValidatePos(row, 0) /\ RowOf(idx) - 1 = row
    BY <1>2, <2>2, Screen DEF ValidatePos
  <2>4. \/ Forward(c) = Place(c, row + 1, 0) /\ ValidatePos(row + 1, 0)
        \/ Forward(c) = Place(c, row, 0)
    BY <1>4, <2>2, <2>3
  <2> QED BY <2>3, <2>4, PlaceOK
<1> QED BY <1>2, <1>6, <1>7, Screen

\* A newline.
LEMMA NewLineOK ==
  ASSUME NEW c, ConOK(c)
  PROVE  ConOK(NewLine(c))
<1>1. ValidatePos(c.row, 0)
  BY ConFacts, Screen DEF ValidatePos
<1> QED BY <1>1, PlaceOK DEF NewLine

\* A backspace, also at the first place.
LEMMA BackOK ==
  ASSUME NEW c, ConOK(c)
  PROVE  ConOK(Back(c))
<1>1. PICK row, col : row = c.row /\ col = c.col
  OBVIOUS
<1>2. row \in 0..CONSOLE_HEIGHT - 1 /\ col \in 0..CONSOLE_WIDTH - 1
  BY <1>1, ConFacts
<1>3. PICK idx : idx = ToIdx(row, col) - 1
  OBVIOUS
<1>4. Back(c) = IF ValidatePos(RowOf(idx), ColOf(idx))
                THEN Place(c, RowOf(idx), ColOf(idx))
                ELSE Place(c, RowOf(idx) + 1, 0)
  BY <1>1, <1>3 DEF Back
<1>5. row * CONSOLE_WIDTH \in Int /\ (row - 1) * CONSOLE_WIDTH = row * CONSOLE_WIDTH - CONSOLE_WIDTH
  BY <1>2, Screen
<1>6. CASE col > 0
  <2>1. idx = row * CONSOLE_WIDTH + (col - 1)
    BY <1>2, <1>3, <1>5, Screen DEF ToIdx
  <2>2. RowOf(idx) = row /\ ColOf(idx) = col - 1
    <3>1. row \in Nat /\ col - 1 \in 0..CONSOLE_WIDTH - 1
      BY <1>2, <1>6, Screen
    <3> QED BY <2>1, <3>1, PosOf
  <2>3. ValidatePos(row, col - 1)
    BY <1>2, <1>6, Screen DEF ValidatePos
  <2> QED BY <1>4, <2>2, <2>3, PlaceOK
<1>7. CASE col = 0 /\ row > 0
  <2>1. idx = (row - 1) * CONSOLE_WIDTH + (CONSOLE_WIDTH - 1)
    BY <1>2, <1>3, <1>5, <1>7, Screen DEF ToIdx
  <2>2. RowOf(idx) = row - 1 /\ ColOf(idx) = CONSOLE_WIDTH - 1
    <3>1. row - 1 \in Nat /\ CONSOLE_WIDTH - 1 \in 0..CONSOLE_WIDTH - 1
      BY <1>2, <1>7, Screen
    <3> QED BY <2>1, <3>1, PosOf
  <2>3. ValidatePos(row - 1, CONSOLE_WIDTH - 1)
    BY <1>2, <1>7, Screen DEF ValidatePos
  <2> QED BY <1>4, <2>2, <2>3, PlaceOK
<1>8. CASE col = 0 /\ row = 0
  <2>1. idx = -1
    BY <1>3, <1>8, Screen DEF ToIdx
  <2>2. RowOf(idx) = -(1 \div CONSOLE_WIDTH)
    BY <2>1 DEF RowOf
  <2>3. CASE CONSOLE_WIDTH = 1
    <3>1. RowOf(idx) = -1
      BY <2>2, <2>3
    <3>2. ~ValidatePos(RowOf(idx), ColOf(idx)) /\ RowOf(idx) + 1 = 0
      BY <3>1 DEF ValidatePos
    <3>3. ValidatePos(0, 0)
      BY Screen DEF ValidatePos
    <3> QED BY <1>4, <3>2, <3>3, PlaceOK
  <2>4. CASE CONSOLE_WIDTH > 1
    <3>1. 1 \div CONSOLE_WIDTH = 0
      <4>1. 1 \in 0..CONSOLE_WIDTH - 1 /\ 0 * CONSOLE_WIDTH + 1 = 1
        BY <2>4, Screen
      <4> QED BY <4>1, Quotient, Screen
    <3>2. RowOf(idx) = 0 /\ ColOf(idx) = -1
      BY <2>1, <2>2, <3>1, Screen DEF ColOf
    <3>3. ~ValidatePos(RowOf(idx), ColOf(idx)) /\ RowOf(idx) + 1 = 1
      BY <3>2 DEF ValidatePos
    <3>4. ValidatePos(1, 0)
      BY Screen DEF ValidatePos
    <3> QED BY <1>4, <3>3, <3>4, PlaceOK
  <2> QED BY <2>3, <2>4, Screen
<1> QED BY <1>2, <1>6, <1>7, <1>8, Screen

\* putbyte keeps the cursor on the screen, whatever it prints.
LEMMA PutByteOK ==
  ASSUME NEW c, ConOK(c), NEW b \in Bytes
  PROVE  ConOK(PutByte(c, b))
<1>1. c.color \in Int
  BY ConFacts, HalfByte DEF SChars
<1>2. ValidatePos(c.row, 0)
  BY ConFacts, Screen DEF ValidatePos
<1>3. \/ PutByte(c, b) = c
      \/ PutByte(c, b) = Forward(c)
      \/ PutByte(c, b) = NewLine(c)
      \/ PutByte(c, b) = Place(c, c.row, 0)
      \/ PutByte(c, b) = Back(c)
  BY <1>1 DEF PutByte, Bytes
<1> QED BY <1>2, <1>3, ForwardOK, NewLineOK, BackOK, PlaceOK

\* set_term_color.
LEMMA SetColorOK ==
  ASSUME NEW c, ConOK(c), NEW color \in Int
  PROVE  ConOK(SetColor(c, color))
BY ConFacts, CharType DEF ConOK, SetColor

\* The end of hv_print_at puts back what its beginning found.
LEMMA RestoreExact ==
  ASSUME NEW c, NEW o, ConOK(o)
  PROVE  SetColor(Place(c, o.row, o.col), GetColor(o)) = o
BY ConFacts, ConFields, CharRoundTrip DEF SetColor, Place, GetColor

-----------------------------------------------------------------------------
(***************************************************************************)
(* The inductive invariant.                                                *)
(***************************************************************************)
IFrame == [vector : Vectors, flag : BOOLEAN]

GuestType ==
  /\ cpu \in {"guest", "printer", "reader"}
  /\ ConOK(con) /\ ConOK(old)
  /\ output_lock \in {"free", "guest", "printer"}
  /\ scancode_buf \in 0..BUF_LEN
  /\ gat \in {"run", "timer", "dead", "pa_put"} \cup ConCalls
  /\ readable = TRUE
  /\ interrupt_enable_flag \in BOOLEAN
  /\ virtual_idt \subseteq Vectors
  /\ frames \in Seq(IFrame)
  /\ hat \in {"user", "print", "color", "cursor"}
  /\ asleep \in BOOLEAN

\* The guest has output_lock in a call only, and all through the printing of
\* hv_print_at.
LockInCall ==
  /\ output_lock = "guest" => gat \in ConCalls \cup {"pa_put"}
  /\ gat = "pa_put" => output_lock = "guest"

\* From a timer or key interrupt on interrupts are off, and were at the faults
\* that came after it.
IsIrq(f) == f.vector \in {"timer", "key"}
OffInHandler ==
  \A i \in 1..Len(frames) : IsIrq(frames[i]) =>
    /\ interrupt_enable_flag = FALSE
    /\ \A j \in 1..Len(frames) : i < j => frames[j].flag = FALSE /\ ~IsIrq(frames[j])

GuestInv == GuestType /\ LockInCall /\ OffInHandler /\ ReaderNotMissed

-----------------------------------------------------------------------------
(***************************************************************************)
(* Steps of the guest and of the host.                                     *)
(***************************************************************************)
\* The first console.
LEMMA StartCon == ConOK(Con(0, 0, 0))
<1>1. 0 \in 0..CONSOLE_HEIGHT - 1 /\ 0 \in 0..CONSOLE_WIDTH - 1
  BY Screen
<1>2. 0 \in SChars
  BY HalfByte DEF SChars
<1> QED BY <1>1, <1>2 DEF ConOK

\* Which threads may run.
LEMMA RunnableType == Runnable \subseteq {"guest", "printer", "reader"}
BY DEF Runnable

\* The empty stack.
LEMMA NoFrames == <<>> \in Seq(IFrame) /\ Len(<<>>) = 0
OBVIOUS

\* A stack that loses its innermost frame.
LEMMA FramesType ==
  ASSUME frames \in Seq(IFrame), frames # <<>>
  PROVE  /\ Front(frames) \in Seq(IFrame) /\ Len(frames) \in Nat \ {0}
         /\ Len(Front(frames)) = Len(frames) - 1
         /\ \A i \in 1..Len(frames) - 1 : Front(frames)[i] = frames[i]
         /\ Last(frames) = frames[Len(frames)] /\ Last(frames) \in IFrame
<1>1. Len(frames) \in Nat \ {0} /\ \A i \in 1..Len(frames) : frames[i] \in IFrame
  BY LenProperties, EmptySeq, ElementOfSeq
<1>2. /\ SubSeq(frames, 1, Len(frames) - 1) \in Seq(IFrame)
      /\ Len(SubSeq(frames, 1, Len(frames) - 1)) = Len(frames) - 1
      /\ \A i \in 1..Len(frames) - 1 : SubSeq(frames, 1, Len(frames) - 1)[i] = frames[i]
  <2>1. PICK n \in Nat : n = Len(frames) - 1
    BY <1>1
  <2>2. \A i \in 1..n : frames[i] \in IFrame
    BY <1>1, <2>1
  <2>3. /\ SubSeq(frames, 1, n) \in Seq(IFrame)
        /\ Len(SubSeq(frames, 1, n)) = IF 1 <= n THEN n - 1 + 1 ELSE 0
        /\ \A i \in 1..n - 1 + 1 : SubSeq(frames, 1, n)[i] = frames[1 + i - 1]
    BY <2>2, SubSeqProperties
  <2> QED BY <2>1, <2>3
<1> QED BY <1>1, <1>2 DEF Front, Last

\* A step that leaves the stack and the flag of the guest alone.
LEMMA StackStays ==
  ASSUME OffInHandler, UNCHANGED <<frames, interrupt_enable_flag>>
  PROVE  OffInHandler'
BY DEF OffInHandler, IsIrq

\* The guest exits, without the lock.
LEMMA ExitKeeps ==
  ASSUME GuestInv, Exit, ConOK(con'), output_lock' \in {"free", "printer"},
         scancode_buf' \in 0..BUF_LEN, asleep' = asleep, asleep => scancode_buf' = 0,
         UNCHANGED <<virtual_idt, hat>>,
         interrupt_enable_flag' \in BOOLEAN
  PROVE  GuestInv'
<1>1. /\ gat' = "dead" /\ cpu' \in {"guest", "printer", "reader"} /\ readable' = TRUE
      /\ old' = Con(0, 0, 0) /\ frames' = <<>>
  BY RunnableType DEF Exit
<1>2. GuestType'
  BY <1>1, StartCon, NoFrames DEF GuestInv, GuestType, ConOK
<1>3. LockInCall'
  BY <1>1 DEF LockInCall
<1>4. OffInHandler'
  BY <1>1, NoFrames DEF OffInHandler
<1>5. ReaderNotMissed'
  BY DEF ReaderNotMissed
<1> QED BY <1>2, <1>3, <1>4, <1>5 DEF GuestInv

\* The delivery of an interrupt, which a timer or a key does only when the
\* guest has enabled interrupts.
LEMMA DeliverKeeps ==
  ASSUME GuestInv, NEW v \in Vectors, Deliver(v), gat \in {"run", "timer"},
         v # "fault" => interrupt_enable_flag,
         UNCHANGED <<con, output_lock, asleep, virtual_idt, hat>>,
         scancode_buf' \in 0..BUF_LEN, asleep => scancode_buf' = 0
  PROVE  GuestInv'
<1>0. output_lock \in {"free", "printer"}
  BY DEF GuestInv, GuestType, LockInCall, ConCalls
<1>1. CASE Exit /\ UNCHANGED interrupt_enable_flag
  BY <1>0, <1>1, ExitKeeps DEF GuestInv, GuestType
<1>2. CASE /\ frames' = Append(frames, [vector |-> v, flag |-> SavedFlag])
           /\ interrupt_enable_flag' = FALSE
           /\ gat' = "run"
           /\ UNCHANGED <<cpu, readable, old>>
  <2>1. PICK f : f = [vector |-> v, flag |-> interrupt_enable_flag]
    OBVIOUS
  <2>2. f \in IFrame /\ f.vector = v /\ f.flag = interrupt_enable_flag
    BY <2>1 DEF IFrame, GuestInv, GuestType
  <2>3. /\ frames' \in Seq(IFrame) /\ Len(frames) \in Nat /\ Len(frames') = Len(frames) + 1
        /\ \A i \in 1..Len(frames) : frames'[i] = frames[i]
        /\ frames'[Len(frames) + 1] = f
    BY <1>2, <2>1, <2>2, AppendProperties, LenProperties DEF SavedFlag, GuestInv, GuestType
  <2>4. GuestType'
    BY <1>2, <2>3 DEF GuestInv, GuestType
  <2>5. LockInCall'
    BY <1>0, <1>2 DEF LockInCall
  <2>6. OffInHandler'
    <3> SUFFICES ASSUME NEW i \in 1..Len(frames) + 1, IsIrq(frames'[i]),
                        NEW j \in 1..Len(frames) + 1, i < j
                 PROVE  frames'[j].flag = FALSE /\ ~IsIrq(frames'[j])
      BY <1>2, <2>3 DEF OffInHandler, IsIrq
    <3>1. i \in 1..Len(frames) /\ IsIrq(frames[i])
      BY <2>3
    <3>2. /\ interrupt_enable_flag = FALSE
          /\ \A k \in 1..Len(frames) : i < k => frames[k].flag = FALSE /\ ~IsIrq(frames[k])
      BY <3>1 DEF GuestInv, OffInHandler
    <3>3. CASE j \in 1..Len(frames)
      BY <2>3, <3>2, <3>3
    <3>4. CASE j = Len(frames) + 1
      BY <2>2, <2>3, <3>2, <3>4 DEF IsIrq, Vectors
    <3>5. j \in 1..Len(frames) \/ j = Len(frames) + 1
      BY <2>3
    <3> QED BY <3>3, <3>4, <3>5
  <2>7. ReaderNotMissed'
    BY DEF ReaderNotMissed
  <2> QED BY <2>4, <2>5, <2>6, <2>7 DEF GuestInv
<1> QED BY <1>1, <1>2 DEF Deliver

\* Interrupts while the guest runs its own code.
LEMMA GuestInterrupts ==
  ASSUME GuestInv, Fault \/ GuestTimer \/ GuestTimerBack \/ GuestKey
  PROVE  GuestInv'
<1>0. BUF_LEN \in Nat \ {0} /\ scancode_buf \in 0..BUF_LEN /\ (asleep => scancode_buf = 0)
      /\ GuestType /\ LockInCall /\ OffInHandler /\ ReaderNotMissed
      /\ "fault" \in Vectors /\ "timer" \in Vectors /\ "key" \in Vectors
  BY GuestAssumption DEF GuestInv, GuestType, ReaderNotMissed, Vectors
<1>1. CASE Fault
  BY <1>0, <1>1, DeliverKeeps DEF Fault, InGuest, keyvars
<1>2. CASE GuestTimer
  <2>1. GuestType'
    BY <1>0, <1>2, RunnableType DEF GuestTimer, GuestType, keyvars
  <2>2. LockInCall'
    BY <1>0, <1>2 DEF GuestTimer, InGuest, LockInCall, ConCalls
  <2>3. OffInHandler' /\ ReaderNotMissed'
    BY <1>0, <1>2, StackStays DEF GuestTimer, ReaderNotMissed, keyvars
  <2> QED BY <2>1, <2>2, <2>3 DEF GuestInv
<1>3. CASE GuestTimerBack
  <2>1. CASE interrupt_enable_flag /\ Deliver("timer")
    BY <1>0, <1>3, <2>1, DeliverKeeps DEF GuestTimerBack, keyvars
  <2>2. CASE gat' = "run" /\ UNCHANGED <<cpu, readable, old, interrupt_enable_flag, frames>>
    <3>1. GuestType'
      BY <1>0, <1>3, <2>2 DEF GuestTimerBack, GuestType, keyvars
    <3>2. LockInCall'
      BY <1>0, <1>3, <2>2 DEF GuestTimerBack, LockInCall, ConCalls
    <3>3. OffInHandler' /\ ReaderNotMissed'
      BY <1>0, <1>3, <2>2, StackStays DEF GuestTimerBack, ReaderNotMissed, keyvars
    <3> QED BY <3>1, <3>2, <3>3 DEF GuestInv
  <2> QED BY <1>3, <2>1, <2>2 DEF GuestTimerBack
<1>4. CASE GuestKey
  <2>1. scancode_buf' \in 0..BUF_LEN /\ (asleep => scancode_buf' = 0)
    BY <1>0, <1>4 DEF GuestKey, PushTail
  <2>2. CASE interrupt_enable_flag /\ Deliver("key")
    BY <1>0, <1>4, <2>1, <2>2, DeliverKeeps DEF GuestKey, InGuest
  <2>3. CASE UNCHANGED <<cpu, readable, old, interrupt_enable_flag, frames, gat>>
    <3>1. GuestType'
      BY <1>0, <1>4, <2>1, <2>3 DEF GuestKey, GuestType
    <3>2. LockInCall'
      BY <1>0, <1>4, <2>3 DEF GuestKey, LockInCall
    <3>3. OffInHandler' /\ ReaderNotMissed'
      BY <1>0, <1>4, <2>1, <2>3, StackStays DEF GuestKey, ReaderNotMissed
    <3> QED BY <3>1, <3>2, <3>3 DEF GuestInv
  <2> QED BY <1>4, <2>2, <2>3 DEF GuestKey
<1> QED BY <1>1, <1>2, <1>3, <1>4

\* Hypervisor calls that do not use the console.
LEMMA GuestCalls ==
  ASSUME GuestInv,
         \/ \E b \in BOOLEAN : HvSetFlag(b)
         \/ \E v \in Vectors \cup {"flag"}, null \in BOOLEAN : HvSetIdt(v, null)
         \/ HvIret \/ HvExit
  PROVE  GuestInv'
<1>0. GuestType /\ LockInCall /\ OffInHandler /\ ReaderNotMissed
  BY DEF GuestInv
<1>1. ASSUME NEW b \in BOOLEAN, HvSetFlag(b) PROVE GuestInv'
  <2>1. GuestType' /\ LockInCall' /\ ReaderNotMissed'
    BY <1>0, <1>1 DEF HvSetFlag, GuestType, LockInCall, ReaderNotMissed, hostvars, keyvars
  <2>2. OffInHandler'
    <3>1. frames' = frames /\ interrupt_enable_flag' = b /\ (b = TRUE => ~InHandler)
      BY <1>1 DEF HvSetFlag
    <3>2. DOMAIN frames = 1..Len(frames)
      BY <1>0, LenProperties DEF GuestType
    <3>3. CASE b = FALSE
      BY <1>0, <3>1, <3>3 DEF OffInHandler, IsIrq
    <3>4. CASE b = TRUE
      BY <1>0, <3>1, <3>2, <3>4 DEF OffInHandler, IsIrq, InHandler
    <3> QED BY <3>3, <3>4
  <2> QED BY <2>1, <2>2 DEF GuestInv
<1>2. ASSUME NEW v \in Vectors \cup {"flag"}, NEW null \in BOOLEAN, HvSetIdt(v, null)
      PROVE  GuestInv'
  <2>1. virtual_idt' \subseteq Vectors /\ interrupt_enable_flag' \in BOOLEAN
    BY <1>0, <1>2 DEF HvSetIdt, GuestType
  <2>2. GuestType' /\ LockInCall' /\ ReaderNotMissed'
    BY <1>0, <1>2, <2>1 DEF HvSetIdt, GuestType, LockInCall, ReaderNotMissed, hostvars, keyvars
  <2>3. OffInHandler'
    <3>1. /\ frames' = frames
          /\ \/ UNCHANGED interrupt_enable_flag
             \/ interrupt_enable_flag' = FALSE
             \/ ~InHandler
      BY <1>2 DEF HvSetIdt
    <3>2. DOMAIN frames = 1..Len(frames)
      BY <1>0, LenProperties DEF GuestType
    <3>3. CASE UNCHANGED interrupt_enable_flag
      BY <1>0, <3>1, <3>3, StackStays
    <3>4. CASE interrupt_enable_flag' = FALSE
      BY <1>0, <3>1, <3>4 DEF OffInHandler, IsIrq
    <3>5. CASE ~InHandler
      BY <1>0, <3>1, <3>2, <3>5 DEF OffInHandler, IsIrq, InHandler
    <3> QED BY <3>1, <3>3, <3>4, <3>5
  <2> QED BY <2>2, <2>3 DEF GuestInv
<1>3. CASE HvIret
  <2>1. /\ frames # <<>> /\ frames' = Front(frames)
        /\ interrupt_enable_flag' = Last(frames).flag
        /\ UNCHANGED <<hostvars, keyvars, gat, readable, old, virtual_idt, hat>>
    BY <1>3 DEF HvIret
  <2>2. /\ frames' \in Seq(IFrame) /\ Len(frames) \in Nat \ {0}
        /\ Len(frames') = Len(frames) - 1
        /\ \A i \in 1..Len(frames) - 1 : frames'[i] = frames[i]
        /\ interrupt_enable_flag' = frames[Len(frames)].flag
        /\ interrupt_enable_flag' \in BOOLEAN
    BY <1>0, <2>1, FramesType DEF GuestType, IFrame
  <2>3. GuestType' /\ LockInCall' /\ ReaderNotMissed'
    BY <1>0, <2>1, <2>2 DEF GuestType, LockInCall, ReaderNotMissed, hostvars, keyvars
  <2>4. OffInHandler'
    BY <1>0, <2>2 DEF OffInHandler, IsIrq
  <2> QED BY <2>3, <2>4 DEF GuestInv
<1>4. CASE HvExit
  <2>1. output_lock \in {"free", "printer"}
    BY <1>0, <1>4 DEF HvExit, InGuest, LockInCall, GuestType, ConCalls
  <2> QED BY <1>0, <1>4, <2>1, ExitKeeps DEF HvExit, GuestType, ReaderNotMissed, keyvars
<1> QED BY <1>1, <1>2, <1>3, <1>4

-----------------------------------------------------------------------------
(***************************************************************************)
(* Steps that leave the guest's interrupts and the keys alone.             *)
(***************************************************************************)

\* What such a step must keep.
LEMMA ConsoleKeeps ==
  ASSUME GuestInv,
         UNCHANGED <<interrupt_enable_flag, virtual_idt, frames, keyvars>>,
         cpu' \in {"guest", "printer", "reader"},
         ConOK(con'), ConOK(old'), readable' = TRUE,
         output_lock' \in {"free", "guest", "printer"},
         gat' \in {"run", "timer", "dead", "pa_put"} \cup ConCalls,
         hat' \in {"user", "print", "color", "cursor"},
         LockInCall'
  PROVE  GuestInv'
<1>1. GuestType'
  BY DEF GuestInv, GuestType, keyvars
<1>2. OffInHandler'
  BY StackStays DEF GuestInv
<1>3. ReaderNotMissed'
  BY DEF GuestInv, ReaderNotMissed, keyvars
<1> QED BY <1>1, <1>2, <1>3 DEF GuestInv

\* Such a step as it ends a call, and the guest too if it crashes.
LEMMA DoneKeeps ==
  ASSUME GuestInv, NEW c, ConOK(c), Done(c) \/ DoneCrash(c)
  PROVE  GuestInv'
<1>1. CASE Done(c)
  <2>1. LockInCall'
    BY <1>1 DEF Done, LockInCall
  <2> QED BY <1>1, <2>1, ConsoleKeeps DEF Done, GuestInv, GuestType, keyvars
<1>2. CASE DoneCrash(c)
  BY <1>2, ExitKeeps DEF DoneCrash, GuestInv, GuestType, ReaderNotMissed, keyvars
<1> QED BY <1>1, <1>2

\* Another byte on the console.
LEMMA PutNextKeeps ==
  ASSUME GuestInv, NEW b \in Bytes, PutNext(b)
  PROVE  GuestInv'
<1>1. ConOK(con')
  BY PutByteOK DEF PutNext, GuestInv, GuestType
<1>2. LockInCall'
  BY DEF PutNext, LockInCall, GuestInv, guestvars
<1> QED BY <1>1, <1>2, ConsoleKeeps DEF PutNext, GuestInv, GuestType, guestvars, keyvars

\* Hypervisor calls that use the console: the call, the lock and the output.
LEMMA GuestPrints ==
  ASSUME GuestInv,
         \/ \E o \in ConCalls, b \in BOOLEAN : HvCall(o, b)
         \/ HvLock \/ HvGetCursor \/ HvPrintDone
         \/ \E b \in Bytes : HvPrint(b) \/ PrintAtPut(b)
  PROVE  GuestInv'
<1>0. GuestType /\ LockInCall /\ OffInHandler /\ ReaderNotMissed /\ ConOK(con) /\ ConOK(old)
  BY DEF GuestInv, GuestType
<1>1. ASSUME NEW o \in ConCalls, NEW b \in BOOLEAN, HvCall(o, b) PROVE GuestInv'
  <2>1. output_lock \in {"free", "printer"} /\ gat = "run"
    BY <1>0, <1>1 DEF HvCall, InGuest, LockInCall, GuestType, ConCalls
  <2>2. CASE HostReadable(b) /\ gat' = o /\ readable' = b /\ UNCHANGED <<cpu, old, frames>>
    <3>1. readable' = TRUE
      BY <2>2 DEF HostReadable
    <3>2. LockInCall'
      BY <1>1, <2>1, <2>2 DEF HvCall, LockInCall, ConCalls
    <3> QED BY <1>0, <1>1, <2>2, <3>1, <3>2, ConsoleKeeps DEF HvCall, GuestType, keyvars
  <2>3. CASE Exit
    BY <1>0, <1>1, <2>1, <2>3, ExitKeeps DEF HvCall, GuestType, ReaderNotMissed, keyvars
  <2> QED BY <1>1, <2>2, <2>3 DEF HvCall
<1>2. CASE HvLock
  <2>1. LockInCall'
    BY <1>0, <1>2 DEF HvLock, TakeOutput, LockInCall, ConCalls, guestvars
  <2>2. cpu' \in {"guest", "printer", "reader"} /\ output_lock' \in {"free", "guest", "printer"}
    BY <1>0, <1>2, RunnableType DEF HvLock, TakeOutput, GuestType
  <2> QED BY <1>0, <1>2, <2>1, <2>2, ConsoleKeeps DEF HvLock, GuestType, guestvars, keyvars
<1>3. CASE HvGetCursor \/ HvPrintDone
  BY <1>0, <1>3, DoneKeeps DEF HvGetCursor, HvPrintDone
<1>4. ASSUME NEW b \in Bytes, HvPrint(b) \/ PrintAtPut(b) PROVE GuestInv'
  BY <1>0, <1>4, PutNextKeeps DEF HvPrint, PrintAtPut, GuestType
<1> QED BY <1>1, <1>2, <1>3, <1>4

\* Hypervisor calls that set the cursor or the colour.
LEMMA GuestPlaces ==
  ASSUME GuestInv,
         \/ \E color \in Colors : HvColor(color)
         \/ \E row \in Rows, col \in Cols : HvCursor(row, col)
         \/ \E row \in Rows, col \in Cols, color \in Colors : PrintAtSet(row, col, color)
         \/ PrintAtRestore
  PROVE  GuestInv'
<1>0. GuestType /\ LockInCall /\ OffInHandler /\ ReaderNotMissed /\ ConOK(con) /\ ConOK(old)
  BY DEF GuestInv, GuestType
<1>1. ASSUME NEW color \in Colors, HvColor(color) PROVE GuestInv'
  <2>1. ConOK(SetColor(con, color))
    BY <1>0, SetColorOK, GuestAssumption
  <2> QED BY <1>0, <1>1, <2>1, DoneKeeps DEF HvColor
<1>2. ASSUME NEW row \in Rows, NEW col \in Cols, HvCursor(row, col) PROVE GuestInv'
  BY <1>0, <1>2, PlaceOK, DoneKeeps DEF HvCursor
<1>3. ASSUME NEW row \in Rows, NEW col \in Cols, NEW color \in Colors, PrintAtSet(row, col, color)
      PROVE GuestInv'
  <2>1. CASE ValidatePos(row, col) /\ ColorOK(color)
    <3>1. ConOK(con')
      <4>1. ConOK(Place(con, row, col))
        BY <1>0, <2>1, PlaceOK
      <4>2. ConOK(SetColor(Place(con, row, col), color))
        BY <4>1, SetColorOK, GuestAssumption
      <4> QED BY <1>3, <2>1, <4>2 DEF PrintAtSet
    <3>2. /\ old' = con /\ gat' = "pa_put" /\ output_lock = "guest"
          /\ UNCHANGED <<cpu, output_lock, keyvars, readable, interrupt_enable_flag,
                         virtual_idt, frames, hat>>
      BY <1>3, <2>1 DEF PrintAtSet, Locked
    <3>3. LockInCall'
      BY <3>2 DEF LockInCall
    <3> QED BY <1>0, <3>1, <3>2, <3>3, ConsoleKeeps DEF GuestType
  <2>2. CASE ~(ValidatePos(row, col) /\ ColorOK(color))
    BY <1>0, <1>3, <2>2, DoneKeeps DEF PrintAtSet
  <2> QED BY <2>1, <2>2
<1>4. CASE PrintAtRestore
  <2>1. ConOK(con') /\ ConOK(old')
    BY <1>0, <1>4, RestoreExact, StartCon DEF PrintAtRestore
  <2>2. LockInCall'
    BY <1>4 DEF PrintAtRestore, LockInCall
  <2> QED BY <1>0, <1>4, <2>1, <2>2, ConsoleKeeps DEF PrintAtRestore, GuestType, keyvars
<1> QED BY <1>1, <1>2, <1>3, <1>4

\* The host's thread that prints.
LEMMA PrinterKeeps ==
  ASSUME GuestInv,
         \/ \E o \in {"print", "color", "cursor"} : PrinterCall(o)
         \/ \E b \in Bytes : PrinterPut(b)
         \/ PrinterLock \/ PrinterDone
  PROVE  GuestInv'
<1>0. GuestType /\ LockInCall /\ OffInHandler /\ ReaderNotMissed /\ ConOK(con) /\ ConOK(old)
  BY DEF GuestInv, GuestType
<1>1. ASSUME NEW o \in {"print", "color", "cursor"}, PrinterCall(o) PROVE GuestInv'
  <2>1. LockInCall'
    BY <1>0, <1>1 DEF PrinterCall, LockInCall, guestvars, hostvars
  <2> QED BY <1>0, <1>1, <2>1, ConsoleKeeps DEF PrinterCall, GuestType, guestvars, hostvars, keyvars
<1>2. ASSUME NEW b \in Bytes, PrinterPut(b) PROVE GuestInv'
  BY <1>2, PutNextKeeps DEF PrinterPut
<1>3. CASE PrinterLock
  <2>1. LockInCall'
    BY <1>0, <1>3 DEF PrinterLock, TakeOutput, LockInCall, guestvars
  <2>2. cpu' \in {"guest", "printer", "reader"} /\ output_lock' \in {"free", "guest", "printer"}
    BY <1>0, <1>3, RunnableType DEF PrinterLock, TakeOutput, GuestType
  <2> QED BY <1>0, <1>3, <2>1, <2>2, ConsoleKeeps DEF PrinterLock, GuestType, guestvars, keyvars
<1>4. ASSUME NEW o, NEW c, ConOK(c), PrinterUse(o, c) PROVE GuestInv'
  <2>1. LockInCall'
    BY <1>0, <1>4 DEF PrinterUse, PrinterHas, LockInCall, guestvars
  <2> QED BY <1>0, <1>4, <2>1, ConsoleKeeps DEF PrinterUse, GuestType, guestvars, keyvars
<1>5. CASE PrinterDone
  <2>1. CASE PrinterUse("print", con)
    BY <1>0, <1>4, <2>1
  <2>2. ASSUME NEW color \in Colors,
               PrinterUse("color", IF ColorOK(color) THEN SetColor(con, color) ELSE con)
        PROVE  GuestInv'
    <3>1. ConOK(IF ColorOK(color) THEN SetColor(con, color) ELSE con)
      BY <1>0, SetColorOK, GuestAssumption
    <3> QED BY <1>4, <2>2, <3>1
  <2>3. ASSUME NEW row \in Rows, NEW col \in Cols,
               PrinterUse("cursor", IF ValidatePos(row, col) THEN Place(con, row, col) ELSE con)
        PROVE  GuestInv'
    <3>1. ConOK(IF ValidatePos(row, col) THEN Place(con, row, col) ELSE con)
      BY <1>0, PlaceOK
    <3> QED BY <1>4, <2>3, <3>1
  <2> QED BY <1>5, <2>1, <2>2, <2>3 DEF PrinterDone
<1> QED BY <1>1, <1>2, <1>3, <1>5

\* The reader, and the interrupts of the host.
LEMMA HostKeeps ==
  ASSUME GuestInv, ReaderStep \/ HostKey \/ HostTimer
  PROVE  GuestInv'
<1>0. GuestType /\ LockInCall /\ OffInHandler /\ ReaderNotMissed /\ BUF_LEN \in Nat \ {0}
  BY GuestAssumption DEF GuestInv
<1>1. LockInCall' /\ OffInHandler'
  BY <1>0, StackStays DEF LockInCall, ReaderStep, HostKey, HostTimer, guestvars
<1>2. ReaderNotMissed'
  BY <1>0 DEF ReaderNotMissed, ReaderStep, HostKey, HostTimer, keyvars, GuestType
<1>3. scancode_buf' \in 0..BUF_LEN /\ asleep' \in BOOLEAN /\ cpu' \in {"guest", "printer", "reader"}
  <2>0. scancode_buf \in 0..BUF_LEN /\ asleep \in BOOLEAN /\ cpu \in {"guest", "printer", "reader"}
    BY <1>0 DEF GuestType
  <2>1. CASE ReaderStep
    <3>1. CASE scancode_buf = 0
      BY <2>0, <2>1, <3>1, RunnableType DEF ReaderStep
    <3>2. CASE scancode_buf # 0
      <4>1. scancode_buf' = scancode_buf - 1 /\ asleep' = asleep /\ cpu' = cpu
        BY <2>1, <3>2 DEF ReaderStep
      <4> QED BY <1>0, <2>0, <3>2, <4>1
    <3> QED BY <3>1, <3>2
  <2>2. CASE HostKey
    <3>1. scancode_buf' = PushTail(scancode_buf) /\ asleep' = FALSE
          /\ (cpu' = "reader" \/ cpu' = cpu)
      BY <2>2 DEF HostKey
    <3>2. PushTail(scancode_buf) \in 0..BUF_LEN
      BY <1>0, <2>0 DEF PushTail
    <3> QED BY <2>0, <3>1, <3>2
  <2>3. CASE HostTimer
    BY <1>0, <2>0, <2>3, RunnableType DEF HostTimer, keyvars
  <2> QED BY <2>1, <2>2, <2>3
<1>4. GuestType'
  BY <1>0, <1>3 DEF GuestType, ReaderStep, HostKey, HostTimer, guestvars
<1> QED BY <1>1, <1>2, <1>4 DEF GuestInv

-----------------------------------------------------------------------------
(***************************************************************************)
(* The theorems.                                                           *)
(***************************************************************************)

\* A guest that starts.
LEMMA GuestStarts == GInit => GuestInv
<1> SUFFICES ASSUME GInit PROVE GuestInv
  OBVIOUS
<1>1. GuestType
  <2>1. scancode_buf \in 0..BUF_LEN /\ ConOK(con) /\ ConOK(old) /\ frames \in Seq(IFrame)
    BY StartCon, NoFrames, GuestAssumption DEF GInit
  <2> QED BY <2>1 DEF GInit, GuestType
<1>2. LockInCall /\ OffInHandler /\ ReaderNotMissed
  BY NoFrames DEF GInit, LockInCall, OffInHandler, ReaderNotMissed
<1> QED BY <1>1, <1>2 DEF GuestInv

\* Every step of the guest and the host.
LEMMA GuestSteps == GuestInv /\ [GNext]_gvars => GuestInv'
<1> SUFFICES ASSUME GuestInv, [GNext]_gvars PROVE GuestInv'
  OBVIOUS
<1>1. CASE UNCHANGED gvars
  BY <1>1 DEF gvars, hostvars, keyvars, guestvars, GuestInv, GuestType, LockInCall,
     OffInHandler, IsIrq, ReaderNotMissed
<1>2. CASE GNext
  BY <1>2, GuestInterrupts, GuestCalls, GuestPrints, GuestPlaces, PrinterKeeps, HostKeeps DEF GNext
<1> QED BY <1>1, <1>2

\* The inductive invariant.
THEOREM GuestInvariant == GSpec => []GuestInv
BY GuestStarts, GuestSteps, PTL DEF GSpec

\* The cursor of the console stays on the screen, for a screen of any size and
\* any sequence of bytes, positions and colours, from the guest and from the
\* host.
THEOREM CursorStaysOnScreen == GSpec => []CursorOnScreen
<1>1. GuestInv => CursorOnScreen
  BY ConFacts DEF GuestInv, GuestType, CursorOnScreen
<1> QED BY <1>1, GuestInvariant, PTL

\* No exit of the guest, by itself or by a crash in any of its calls, leaves
\* output_lock locked.
THEOREM LockOutlivesGuest == GSpec => []LockSurvivesGuest
<1>1. GuestInv => LockSurvivesGuest
  BY DEF GuestInv, LockInCall, LockSurvivesGuest, ConCalls
<1> QED BY <1>1, GuestInvariant, PTL

\* Timer and key interrupts do not nest on the guest's stack, whatever its size
\* and however many faults come between them and hv_iret.
THEOREM InterruptsDoNotNest == GSpec => []OneInterrupt
<1>1. GuestInv => OneInterrupt
  <2> SUFFICES ASSUME GuestInv PROVE OneInterrupt
    OBVIOUS
  <2> DEFINE S == {i \in DOMAIN frames : frames[i].vector \in {"timer", "key"}}
  <2>1. DOMAIN frames = 1..Len(frames) /\ Len(frames) \in Nat
    BY LenProperties DEF GuestInv, GuestType
  <2>2. ASSUME NEW i \in S, NEW j \in S PROVE i = j
    <3>1. /\ i \in 1..Len(frames) /\ j \in 1..Len(frames)
          /\ IsIrq(frames[i]) /\ IsIrq(frames[j])
      BY <2>1, <2>2 DEF IsIrq
    <3>2. ~(i < j) /\ ~(j < i)
      BY <3>1 DEF GuestInv, OffInHandler
    <3> QED BY <2>1, <3>1, <3>2
  <2>3. CASE S = {}
    BY <2>3, FS_EmptySet DEF OneInterrupt
  <2>4. CASE S # {}
    <3>1. PICK i : i \in S
      BY <2>4
    <3>2. S = {i}
      BY <2>2, <3>1
    <3>3. Cardinality(S) = 1
      BY <3>2, FS_Singleton
    <3> QED BY <3>3 DEF OneInterrupt
  <2> QED BY <2>3, <2>4
<1> QED BY <1>1, GuestInvariant, PTL

\* The host's reader never sleeps while scancode_buf has a key, for a buffer of
\* any size, though the guest's key interrupts use the same buffer.
THEOREM ReaderSeesKeys == GSpec => []ReaderNotMissed
<1>1. GuestInv => ReaderNotMissed
  BY DEF GuestInv
<1> QED BY <1>1, GuestInvariant, PTL

\* hv_print_at leaves the cursor and the colour as they were, for every
\* position, colour and text, whether it ends well or crashes the guest, and
\* whatever the host does in the meantime.
THEOREM PrintAtLeavesNoTrace == GSpec => PrintAtInvisible
<1>1. ASSUME GuestInv, [GNext]_gvars, output_lock = "guest", gat \in {"hv_print_at", "pa_put"}
      PROVE  Visible' = Visible
  <2>0. ConOK(old) /\ readable = TRUE
    BY <1>1 DEF GuestInv, GuestType
  <2>1. CASE con' = con /\ old' = old /\ gat' = gat
    BY <2>1 DEF Visible
  <2>2. CASE UNCHANGED gvars
    BY <2>1, <2>2 DEF gvars, hostvars, guestvars
  <2>3. CASE GNext
    <3>1. ~InGuest /\ ~(cpu = "guest" /\ gat = "timer") /\ ~(output_lock = "printer")
          /\ ~(gat \in {"hv_print", "hv_color", "hv_cursor", "hv_get_cursor"})
      BY <1>1 DEF InGuest
    <3>2. \/ HvLock
          \/ \E b \in Bytes : PrintAtPut(b)
          \/ \E row \in Rows, col \in Cols, color \in Colors : PrintAtSet(row, col, color)
          \/ PrintAtRestore
          \/ \E o \in {"print", "color", "cursor"} : PrinterCall(o)
          \/ PrinterLock \/ ReaderStep \/ HostKey \/ HostTimer
      BY <2>3, <3>1 DEF GNext, Fault, GuestTimer, GuestTimerBack, GuestKey, HvSetFlag, HvSetIdt,
         HvIret, HvExit, HvCall, HvGetCursor, HvPrint, PrinterPut, HvPrintDone, HvColor,
         HvCursor, PrinterDone, PrinterUse, PrinterHas, Locked
    <3>3. CASE HvLock \/ PrinterLock \/ ReaderStep \/ HostKey \/ HostTimer
               \/ \E o \in {"print", "color", "cursor"} : PrinterCall(o)
      BY <2>1, <3>3 DEF HvLock, PrinterLock, ReaderStep, HostKey, HostTimer, PrinterCall,
         guestvars, hostvars
    <3>4. CASE \E b \in Bytes : PrintAtPut(b)
      BY <2>0, <3>4 DEF PrintAtPut, PutNext, Visible, guestvars
    <3>5. ASSUME NEW row \in Rows, NEW col \in Cols, NEW color \in Colors,
                 PrintAtSet(row, col, color)
          PROVE  Visible' = Visible
      BY <3>5 DEF PrintAtSet, Locked, DoneCrash, Exit, Visible
    <3>6. CASE PrintAtRestore
      BY <2>0, <3>6, RestoreExact DEF PrintAtRestore, Visible
    <3> QED BY <3>2, <3>3, <3>4, <3>5, <3>6
  <2> QED BY <1>1, <2>2, <2>3
<1>2. GuestInv /\ [GNext]_gvars
      => [output_lock = "guest" /\ gat \in {"hv_print_at", "pa_put"} => Visible' = Visible]_gvars
  BY <1>1
<1> QED BY <1>2, GuestInvariant, PTL DEF GSpec, PrintAtInvisible
=============================================================================
