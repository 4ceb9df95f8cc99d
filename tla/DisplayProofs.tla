----------------------------- MODULE DisplayProofs -----------------------------
(***************************************************************************)
(* Proofs about Display, for a panel of any height and words of any width. *)
(* CleanLinesShown follows the loop of DMD_updateDisplay(): the flags in   *)
(* hand are those of the lines that are left of the word, and every line   *)
(* before the series under way shows the frame buffer. That the display    *)
(* implements Screen needs more: an update that follows a print has exactly*)
(* the lines of one row marked, so that its one series is that row.        *)
(***************************************************************************)
EXTENDS Display, Integers, SequenceTheorems, TLAPS

-----------------------------------------------------------------------------
(* Lines, words and bits.                                                  *)

\* Quotient and remainder of a natural number.
LEMMA Division ==
  ASSUME NEW w \in Nat, w > 0, NEW p \in Nat
  PROVE  /\ p \div w \in Nat
         /\ p % w \in 0..w - 1
         /\ p = (p \div w) * w + (p % w)
  BY SMTT(30)

\* They are unique.
LEMMA Quotient ==
  ASSUME NEW w \in Nat, w > 0, NEW q \in Nat, NEW r \in 0..w - 1
  PROVE  (q * w + r) \div w = q /\ (q * w + r) % w = r
  BY SMTT(30)

\* The next line lies one bit further up, or at the bottom of the next word.
LEMMA NextLine ==
  ASSUME NEW w \in Nat, w > 0, NEW p \in Nat
  PROVE  /\ (p + 1) % w # 0 => /\ (p + 1) \div w = p \div w
                               /\ (p + 1) % w = (p % w) + 1
         /\ (p + 1) % w = 0 => (p + 1) \div w = (p \div w) + 1
  BY Division, Quotient, SMTT(30)

\* There is a line, and every line has its word and its bit.
LEMMA LineHasBit ==
  /\ Height > 0
  /\ 0 \in Words
  /\ \A l \in Lines : l \div WordBits \in Words /\ l % WordBits \in Bits
<1>1. WordBits \in Nat /\ WordBits > 0 /\ Height \in Nat
  BY SizeAssumption
<1>2. Height > 0
  <2>1. (NumberOfRows - 1) * Pitch >= 0
    <3>1. NumberOfRows - 1 \in Nat /\ Pitch \in Nat
      BY SizeAssumption DEF Pitch
    <3> QED BY <3>1, SMT
  <2>2. (NumberOfRows - 1) * Pitch \in Int
    BY SizeAssumption DEF Pitch
  <2> QED BY <1>1, <2>1, <2>2, SizeAssumption, RowsFit
<1>3. Height = (Height \div WordBits) * WordBits /\ Height \div WordBits \in Nat
  BY <1>1, Division, WholeWords
<1>4. Height \div WordBits > 0
  BY <1>1, <1>2, <1>3, SMT
<1>5. ASSUME NEW l \in Lines
      PROVE  l \div WordBits \in Words /\ l % WordBits \in Bits
  <2>1. l \in Nat /\ l < Height
    BY <1>1 DEF Lines
  <2>2. /\ l \div WordBits \in Nat /\ l % WordBits \in 0..WordBits - 1
        /\ l = (l \div WordBits) * WordBits + (l % WordBits)
    BY <1>1, <2>1, Division
  <2>3. l \div WordBits < Height \div WordBits
    <3> DEFINE a == l \div WordBits
               h == Height \div WordBits
               r == l % WordBits
    <3>1. a \in Nat /\ h \in Nat /\ r \in 0..WordBits - 1
      BY <1>3, <2>2
    <3>2. a * WordBits + r < h * WordBits
      BY <1>3, <2>1, <2>2
    <3> HIDE DEF a, h, r
    <3>3. a < h
      BY <1>1, <3>1, <3>2, SMTT(30)
    <3> QED BY <3>3 DEF a, h
  <2> QED BY <1>1, <1>3, <2>2, <2>3 DEF Words, Bits
<1>6. 0 \in Words
  BY <1>3, <1>4 DEF Words
<1> QED BY <1>2, <1>5, <1>6

-----------------------------------------------------------------------------
(* The invariant.                                                          *)

Pos == startRow + consecutiveDirtyRows

Types ==
  /\ pc \in {"off", "idle", "scan"}
  /\ dirtyRows \in [Words -> SUBSET Bits]
  /\ startRow \in Nat
  /\ consecutiveDirtyRows \in Nat
  /\ dirtyWordCnt \in Nat

\* Each line of the frame buffer is a function of the columns.
Shaped == \A l \in Lines : framebuffer[l] = [c \in Columns |-> framebuffer[l][c]]

\* The flags in hand are those of line Pos and of what is left of its word.
FlagsInHand ==
  /\ dirtyFlags = {b \in Bits : b + (Pos % WordBits) \in dirtyRows[Pos \div WordBits]}
  /\ dirtyWordCnt = (Pos \div WordBits) + 1

Scan ==
  pc = "scan" =>
    /\ Pos <= Height
    /\ Pos < Height => FlagsInHand
    /\ \A l \in Lines : l < startRow => panel[l] = framebuffer[l]

DisplayInv == Types /\ Shaped /\ Scan /\ CleanLinesShown

LEMMA InitInv == Init => DisplayInv
<1> SUFFICES ASSUME Init PROVE DisplayInv OBVIOUS
<1>1. Types
  BY DEF Init, Types
<1>2. Shaped
  BY DEF Init, Shaped, Plain
<1> QED BY <1>1, <1>2 DEF Init, DisplayInv, Scan, CleanLinesShown

\* An update begins with the flags of line 0 in hand.
LEMMA BeginScan ==
  ASSUME dirtyRows' \in [Words -> SUBSET Bits], BeginUpdate
  PROVE  Types' /\ Scan'
<1>1. pc' = "scan" /\ startRow' = 0 /\ consecutiveDirtyRows' = 0 /\ dirtyWordCnt' = 1
  BY DEF BeginUpdate
<1>2. Types'
  BY <1>1 DEF Types
<1>3. 0 \div WordBits = 0 /\ 0 % WordBits = 0
  BY SizeAssumption, SMT
<1>4. dirtyFlags' = dirtyRows'[0] /\ dirtyRows'[0] \subseteq Bits
  BY LineHasBit DEF BeginUpdate
<1>5. Pos' = 0
  BY <1>1 DEF Pos
<1>6. \A b \in Bits : b + 0 = b
  BY SizeAssumption DEF Bits
<1>7. FlagsInHand'
  BY <1>1, <1>3, <1>4, <1>5, <1>6 DEF FlagsInHand
<1>8. \A l \in Lines : ~(l < 0)
  BY SizeAssumption DEF Lines
<1>9. 0 <= Height
  BY SizeAssumption
<1>10. Pos' <= Height
  BY <1>5, <1>9
<1>11. \A l \in Lines : l < startRow' => panel'[l] = framebuffer'[l]
  BY <1>1, <1>8
<1> QED BY <1>2, <1>7, <1>10, <1>11, Zenon DEF Scan

\* One pass of the loop has the flags of the next line in hand.
LEMMA NextScan ==
  ASSUME Types, Scanning, FlagsInHand, NextFlags, dirtyRows' = dirtyRows,
         startRow' \in Nat, consecutiveDirtyRows' \in Nat, Pos' = Pos + 1
  PROVE  /\ Pos' <= Height
         /\ Pos' < Height => FlagsInHand'
         /\ dirtyWordCnt' \in Nat
<1> DEFINE q == Pos \div WordBits
           r == Pos % WordBits
<1>1. WordBits \in Nat /\ WordBits > 0 /\ Height \in Nat
  BY SizeAssumption
<1>2. Pos \in Nat /\ Pos < Height
  BY DEF Types, Scanning, Pos
<1>3. Pos' <= Height /\ Pos' \in Nat
  BY <1>1, <1>2
<1>4. q \in Nat /\ r \in 0..WordBits - 1
  BY <1>1, <1>2, Division
<1>5. startRow' + consecutiveDirtyRows' = Pos'
  BY DEF Pos
<1>6. CASE (Pos + 1) % WordBits # 0
  <2>1. (Pos + 1) \div WordBits = q /\ (Pos + 1) % WordBits = r + 1
    BY <1>1, <1>2, <1>6, NextLine
  <2>2. /\ dirtyFlags' = {b \in Bits : b + 1 \in dirtyFlags}
        /\ dirtyWordCnt' = dirtyWordCnt
    BY <1>5, <1>6 DEF NextFlags
  <2>3. dirtyFlags = {b \in Bits : b + r \in dirtyRows[q]} /\ dirtyWordCnt = q + 1
    BY DEF FlagsInHand
  <2>4. Pos < Height => dirtyRows[q] \subseteq Bits
    <3>1. Pos \in Lines
      BY <1>1, <1>2 DEF Lines
    <3>2. q \in Words
      BY <3>1, LineHasBit
    <3> QED BY <3>2 DEF Types
  <2>5. \A b \in Bits : b + 1 \in dirtyFlags <=> b + (r + 1) \in dirtyRows[q]
    <3> SUFFICES ASSUME NEW b \in Bits
                 PROVE  b + 1 \in dirtyFlags <=> b + (r + 1) \in dirtyRows[q]
      OBVIOUS
    <3> HIDE DEF q, r
    <3>1. b \in Int /\ b >= 0
      BY <1>1 DEF Bits
    <3>2. (b + 1) + r = b + (r + 1)
      BY <3>1, <1>4
    <3>3. b + (r + 1) \in dirtyRows[q] => b + 1 \in Bits
      <4> SUFFICES ASSUME b + (r + 1) \in dirtyRows[q] PROVE b + 1 \in Bits
        OBVIOUS
      <4>1. b + (r + 1) \in Bits
        BY <2>4, <1>2
      <4> QED BY <4>1, <3>1, <1>1, <1>4 DEF Bits
    <3> QED BY <2>3, <3>2, <3>3
  <2>6. dirtyFlags' = {b \in Bits : b + (Pos' % WordBits) \in dirtyRows'[Pos' \div WordBits]}
    BY <2>1, <2>2, <2>5
  <2>7. dirtyWordCnt' = (Pos' \div WordBits) + 1
    BY <2>1, <2>2, <2>3
  <2>8. FlagsInHand'
    BY <2>6, <2>7 DEF FlagsInHand
  <2> QED BY <1>3, <1>4, <2>2, <2>3, <2>8
<1>7. CASE (Pos + 1) % WordBits = 0
  <2>1. (Pos + 1) \div WordBits = q + 1
    BY <1>1, <1>2, <1>7, NextLine
  <2>2. dirtyWordCnt = q + 1
    BY DEF FlagsInHand
  <2>3. /\ dirtyWordCnt \in Words => dirtyFlags' = dirtyRows[dirtyWordCnt]
        /\ dirtyWordCnt' = dirtyWordCnt + 1
    BY <1>5, <1>7 DEF NextFlags
  <2>4. ASSUME Pos' < Height PROVE FlagsInHand'
    <3>1. Pos' \in Lines
      BY <1>1, <1>3, <2>4 DEF Lines
    <3>2. q + 1 \in Words
      BY <2>1, <3>1, LineHasBit
    <3>3. dirtyFlags' = dirtyRows[q + 1] /\ dirtyRows[q + 1] \subseteq Bits
      BY <2>2, <2>3, <3>2 DEF Types
    <3>4. \A b \in Bits : b + 0 = b
      BY <1>1 DEF Bits
    <3>5. dirtyFlags' = {b \in Bits : b + 0 \in dirtyRows[q + 1]}
      BY <3>3, <3>4
    <3>6. dirtyWordCnt' = (Pos' \div WordBits) + 1
      BY <2>1, <2>2, <2>3
    <3> QED BY <1>7, <2>1, <3>5, <3>6 DEF FlagsInHand
  <2> QED BY <1>3, <1>4, <2>2, <2>3, <2>4
<1> QED BY <1>6, <1>7

\* A row has marks on all its lines, and drawing it changes no other line.
LEMMA PrintKeeps ==
  ASSUME NEW row \in Rows, NEW text \in Texts, DisplayInv, displayPrintf(row, text)
  PROVE  DisplayInv'
<1>1. pc # "off" /\ panel' = panel /\ BeginUpdate /\ pc' = "scan"
  BY DEF displayPrintf, BeginUpdate
<1>2. dirtyRows' \in [Words -> SUBSET Bits]
  BY DEF displayPrintf, Marked, DisplayInv, Types
<1>3. Types' /\ Scan'
  BY <1>1, <1>2, BeginScan
<1>4. Shaped'
  BY DEF displayPrintf, Drawn, Shaped
<1>5. ASSUME NEW l \in Lines, l \notin RowLines(row)
      PROVE  framebuffer'[l] = framebuffer[l]
  BY <1>5 DEF displayPrintf, Drawn, DisplayInv, Shaped
<1>6. ASSUME NEW l \in Lines, l \notin Marks'
      PROVE  l \notin RowLines(row) /\ l \notin Marks
  <2>1. l \div WordBits \in Words /\ l % WordBits \in Bits
    BY LineHasBit
  <2>2. l = (l \div WordBits) * WordBits + (l % WordBits)
    <3>1. l \in Nat /\ WordBits \in Nat /\ WordBits > 0
      BY SizeAssumption DEF Lines
    <3> QED BY <3>1, Division
  <2>3. dirtyRows'[l \div WordBits] =
          dirtyRows[l \div WordBits]
            \cup {b \in Bits : (l \div WordBits) * WordBits + b \in RowLines(row)}
    BY <2>1 DEF displayPrintf, Marked
  <2>4. l % WordBits \notin dirtyRows'[l \div WordBits]
    BY <1>6 DEF Marks
  <2> QED BY <2>1, <2>2, <2>3, <2>4 DEF Marks
<1>7. CleanLinesShown'
  BY <1>1, <1>5, <1>6 DEF CleanLinesShown, DisplayInv
<1> QED BY <1>3, <1>4, <1>7 DEF DisplayInv

LEMMA StepInv == DisplayInv /\ [Next]_vars => DisplayInv'
<1> SUFFICES ASSUME DisplayInv, [Next]_vars PROVE DisplayInv'
  OBVIOUS
<1> USE SizeAssumption
<1>a. Types /\ Shaped /\ Scan /\ CleanLinesShown
  BY DEF DisplayInv
<1>b. Scanning => /\ pc = "scan" /\ FlagsInHand /\ Pos < Height /\ Pos \in Lines
                  /\ \A l \in Lines : l < startRow => panel[l] = framebuffer[l]
                  /\ \A l \in Lines : l \notin Marks => panel[l] = framebuffer[l]
  BY <1>a DEF Scanning, Scan, Pos, Types, Lines, CleanLinesShown
\* The lowest flag in hand is that of line Pos.
<1>c. Scanning /\ 0 \notin dirtyFlags => Pos \notin Marks
  <2> SUFFICES ASSUME Scanning, 0 \notin dirtyFlags PROVE Pos \notin Marks
    OBVIOUS
  <2>1. 0 \in Bits /\ Pos % WordBits \in Bits /\ 0 + (Pos % WordBits) = Pos % WordBits
    BY <1>b, LineHasBit DEF Bits
  <2> QED BY <1>b, <2>1 DEF FlagsInHand, Marks
<1>1. CASE displayInit
  <2>1. BeginUpdate /\ pc' = "scan" /\ dirtyRows' = [w \in Words |-> Bits]
        /\ panel' = Plain(White) /\ framebuffer' = Plain(White)
    BY <1>1 DEF displayInit, BeginUpdate
  <2>2. Types' /\ Scan'
    BY <2>1, BeginScan
  <2> QED BY <2>1, <2>2 DEF DisplayInv, Shaped, CleanLinesShown, Plain
<1>2. CASE \E row \in Rows, text \in Texts : displayPrintf(row, text)
  BY <1>2, PrintKeeps
<1>3. CASE PassDirtyLine
  <2>1. /\ Scanning /\ NextFlags /\ dirtyRows' = dirtyRows /\ pc' = pc
        /\ framebuffer' = framebuffer /\ panel' = panel /\ startRow' = startRow
        /\ consecutiveDirtyRows' = consecutiveDirtyRows + 1
    BY <1>3 DEF PassDirtyLine
  <2>2. startRow' \in Nat /\ consecutiveDirtyRows' \in Nat /\ Pos' = Pos + 1
    BY <1>a, <2>1 DEF Types, Pos
  <2>3. Pos' <= Height /\ (Pos' < Height => FlagsInHand') /\ dirtyWordCnt' \in Nat
    BY <1>a, <1>b, <2>1, <2>2, NextScan
  <2>4. Types'
    BY <1>a, <2>1, <2>2, <2>3 DEF Types
  <2>5. Scan'
    BY <1>b, <2>1, <2>3 DEF Scan
  <2> QED BY <1>a, <2>1, <2>4, <2>5 DEF DisplayInv, Shaped, CleanLinesShown, Marks
<1>4. CASE DrawSeries
  <2>1. /\ Scanning /\ NextFlags /\ dirtyRows' = dirtyRows /\ pc' = pc
        /\ framebuffer' = framebuffer /\ 0 \notin dirtyFlags
        /\ sl_memlcd_draw(startRow, consecutiveDirtyRows)
        /\ startRow' = startRow + consecutiveDirtyRows + 1
        /\ consecutiveDirtyRows' = 0
    BY <1>4 DEF DrawSeries
  <2>2. startRow' \in Nat /\ consecutiveDirtyRows' \in Nat /\ Pos' = Pos + 1
    BY <1>a, <2>1 DEF Types, Pos
  <2>3. Pos' <= Height /\ (Pos' < Height => FlagsInHand') /\ dirtyWordCnt' \in Nat
    BY <1>a, <1>b, <2>1, <2>2, NextScan
  <2>4. Types'
    BY <1>a, <2>1, <2>2, <2>3 DEF Types
  <2>5. \A l \in Lines : panel[l] = framebuffer[l] => panel'[l] = framebuffer[l]
    BY <2>1 DEF sl_memlcd_draw
  <2>6. ASSUME NEW l \in Lines, l < startRow'
        PROVE  panel'[l] = framebuffer'[l]
    <3>1. CASE l < startRow
      BY <1>b, <2>1, <2>5, <3>1
    <3>2. CASE l \in startRow .. startRow + consecutiveDirtyRows - 1
      BY <2>1, <3>2 DEF sl_memlcd_draw
    <3>3. CASE l = Pos
      BY <1>b, <1>c, <2>1, <2>5, <3>3
    <3>4. l < startRow \/ l \in startRow .. startRow + consecutiveDirtyRows - 1 \/ l = Pos
      BY <1>a, <2>1, <2>6 DEF Types, Pos, Lines
    <3> QED BY <3>1, <3>2, <3>3, <3>4
  <2>7. Scan'
    BY <2>3, <2>6 DEF Scan
  <2>8. CleanLinesShown'
    BY <1>b, <2>1, <2>5 DEF CleanLinesShown, Marks
  <2> QED BY <1>a, <2>1, <2>4, <2>7, <2>8 DEF DisplayInv, Shaped
<1>5. CASE PassCleanLine
  <2>1. /\ Scanning /\ NextFlags /\ dirtyRows' = dirtyRows /\ pc' = pc
        /\ framebuffer' = framebuffer /\ panel' = panel /\ 0 \notin dirtyFlags
        /\ startRow' = startRow + 1 /\ consecutiveDirtyRows = 0
        /\ consecutiveDirtyRows' = consecutiveDirtyRows
    BY <1>5 DEF PassCleanLine
  <2>2. startRow' \in Nat /\ consecutiveDirtyRows' \in Nat /\ Pos' = Pos + 1
    BY <1>a, <2>1 DEF Types, Pos
  <2>3. Pos' <= Height /\ (Pos' < Height => FlagsInHand') /\ dirtyWordCnt' \in Nat
    BY <1>a, <1>b, <2>1, <2>2, NextScan
  <2>4. Types'
    BY <1>a, <2>1, <2>2, <2>3 DEF Types
  <2>5. ASSUME NEW l \in Lines, l < startRow'
        PROVE  panel'[l] = framebuffer'[l]
    <3>1. l < startRow \/ l = Pos
      BY <1>a, <2>1, <2>5 DEF Types, Pos, Lines
    <3> QED BY <1>b, <1>c, <2>1, <3>1
  <2>6. Scan'
    BY <2>3, <2>5 DEF Scan
  <2> QED BY <1>a, <2>1, <2>4, <2>6 DEF DisplayInv, Shaped, CleanLinesShown, Marks
<1>6. CASE EndUpdate
  <2>1. /\ pc = "scan" /\ ~Scanning /\ pc' = "idle"
        /\ sl_memlcd_draw(startRow, consecutiveDirtyRows)
        /\ dirtyRows' = [w \in Words |-> {}]
        /\ framebuffer' = framebuffer /\ UNCHANGED scanVars
    BY <1>6 DEF EndUpdate, DrawRest
  <2>2. Types'
    BY <1>a, <2>1 DEF Types, scanVars
  <2>3. Pos = Height
    BY <1>a, <2>1 DEF Scan, Scanning, Pos, Types
  <2>4. ASSUME NEW l \in Lines PROVE panel'[l] = framebuffer'[l]
    <3>1. CASE l < startRow
      BY <1>a, <2>1, <3>1 DEF Scan, sl_memlcd_draw
    <3>2. CASE ~(l < startRow)
      <4>1. l \in startRow .. startRow + consecutiveDirtyRows - 1
        BY <1>a, <2>3, <3>2 DEF Types, Pos, Lines
      <4> QED BY <2>1, <4>1 DEF sl_memlcd_draw
    <3> QED BY <3>1, <3>2
  <2> QED BY <1>a, <2>1, <2>2, <2>4 DEF DisplayInv, Shaped, Scan, CleanLinesShown
<1>7. CASE UNCHANGED vars
  BY <1>a, <1>7 DEF vars, scanVars, DisplayInv, Types, Shaped, Scan, FlagsInHand, Pos,
                    CleanLinesShown, Marks
<1> QED BY <1>1, <1>2, <1>3, <1>4, <1>5, <1>6, <1>7 DEF Next

\* No mark is lost before its line was sent (DMD_updateDisplay), for every height of
\* the panel and every width of the words of flags.
THEOREM CleanLinesAreShown == Spec => []CleanLinesShown
<1>1. DisplayInv => CleanLinesShown
  BY DEF DisplayInv
<1> QED BY <1>1, InitInv, StepInv, PTL DEF Spec

-----------------------------------------------------------------------------
(* The types.                                                              *)

\* What is drawn is a sequence of characters no longer than a row.
LEMMA Erasing ==
  /\ strToErase \in Seq(Chars) /\ Len(strToErase) = RowLen
  /\ \A i \in 1..RowLen : strToErase[i] = Space
<1>1. RowLen \in Nat /\ Space \in Chars
  BY SizeAssumption, Zenon DEF Chars
<1>2. strToErase = [i \in 1..RowLen |-> Space]
  BY DEF strToErase
<1> HIDE DEF strToErase
<1>3. strToErase \in [1..RowLen -> Chars]
  BY <1>1, <1>2
<1>4. strToErase \in Seq(Chars)
  BY <1>1, <1>3, SeqDef
<1>5. Len(strToErase) = RowLen
  BY <1>1, <1>2
<1> QED BY <1>2, <1>4, <1>5

LEMMA Printing ==
  ASSUME NEW text \in Texts
  PROVE  /\ strToDisplay(text) \in Seq(Chars)
         /\ Len(strToDisplay(text)) \in 1..RowLen
         /\ text = <<>> => /\ Len(strToDisplay(text)) = 1
                           /\ strToDisplay(text)[1] = Space
         /\ text # <<>> =>
              /\ Len(strToDisplay(text)) = Min2(Len(text), RowLen)
              /\ \A i \in 1..Len(strToDisplay(text)) : strToDisplay(text)[i] = text[i]
<1>1. RowLen \in Nat /\ RowLen > 0 /\ Space \in Chars
  BY SizeAssumption, Zenon DEF Chars
<1>2. text \in Seq(Chars)
  BY TextAssumption
<1>3. Len(text) \in Nat /\ \A i \in 1..Len(text) : text[i] \in Chars
  BY <1>2, LenProperties, ElementOfSeq
<1>4. CASE text = <<>>
  <2>1. strToDisplay(text) = <<Space>>
    BY <1>4 DEF strToDisplay
  <2>2. <<Space>> \in Seq(Chars) /\ Len(<<Space>>) = 1 /\ <<Space>>[1] = Space
    BY <1>1
  <2>3. 1 \in 1..RowLen
    BY <1>1
  <2> QED BY <1>4, <2>1, <2>2, <2>3, Zenon
<1>5. CASE text # <<>>
  <2> DEFINE n == Min2(Len(text), RowLen)
  <2>1. Len(text) > 0
    BY <1>2, <1>3, <1>5, EmptySeq
  <2>2. n \in Int /\ n \in 1..RowLen /\ n <= Len(text)
    BY <1>1, <1>3, <2>1 DEF Min2
  <2>3. strToDisplay(text) = SubSeq(text, 1, n)
    BY <1>5 DEF strToDisplay
  <2> HIDE DEF n
  <2>4. \A i \in 1..n : text[i] \in Chars
    BY <1>3, <2>2
  <2>5. /\ SubSeq(text, 1, n) \in Seq(Chars)
        /\ Len(SubSeq(text, 1, n)) = IF 1 <= n THEN n - 1 + 1 ELSE 0
        /\ \A i \in 1..n - 1 + 1 : SubSeq(text, 1, n)[i] = text[1 + i - 1]
    BY <2>2, <2>4, SubSeqProperties
  <2>6. n - 1 + 1 = n /\ \A i \in 1..n : 1 + i - 1 = i
    BY <2>2
  <2>7. /\ Len(SubSeq(text, 1, n)) = n
        /\ \A i \in 1..n : SubSeq(text, 1, n)[i] = text[i]
    BY <2>2, <2>5, <2>6
  <2> QED BY <1>5, <2>2, <2>3, <2>5, <2>7 DEF n
<1> QED BY <1>4, <1>5

\* The half characters of a text lie in the columns after its margin.
LEMMA HalfCharacters ==
  ASSUME NEW n \in Nat, NEW i \in Int, 0 <= i, i < 2 * n
  PROVE  /\ i \div 2 + 1 \in 1..n
         /\ i % 2 = 0 => (i + 1) % 2 = 1 /\ (i + 2) \div 2 = i \div 2 + 1
         /\ i % 2 # 0 => (i + 1) % 2 # 1 /\ (i + 1) \div 2 = i \div 2 + 1
BY SMTT(30)

LEMMA DrawnIsCells ==
  ASSUME NEW buffer \in [Lines -> [Columns -> Cells]], NEW row \in Rows,
         NEW text \in Seq(Chars)
  PROVE  Drawn(buffer, row, text) \in [Lines -> [Columns -> Cells]]
<1>1. RowLen \in Nat /\ Space \in Chars
  BY SizeAssumption, Zenon DEF Chars
<1>2. Len(text) \in Nat /\ \A i \in 1..Len(text) : text[i] \in Chars
  BY LenProperties, ElementOfSeq
<1>3. \A char \in Chars : Glyph(char, "left") \in Cells /\ Glyph(char, "right") \in Cells
  BY <1>1 DEF Glyph, Cells, White
<1>4. ASSUME NEW c \in Columns, c >= Centre(text), c - Centre(text) < 2 * Len(text)
      PROVE  Glyph(text[(c - Centre(text)) \div 2 + 1],
                   IF (c - Centre(text)) % 2 = 0 THEN "left" ELSE "right") \in Cells
  <2>1. c \in Int /\ Centre(text) \in Int
    BY <1>1, <1>2 DEF Columns, Centre
  <2> DEFINE i == c - Centre(text)
  <2>2. i \in Int /\ 0 <= i /\ i < 2 * Len(text)
    BY <1>4, <2>1
  <2> HIDE DEF i
  <2>3. i \div 2 + 1 \in 1..Len(text)
    BY <1>2, <2>2, HalfCharacters
  <2>4. text[i \div 2 + 1] \in Chars
    BY <1>2, <2>3
  <2>5. Glyph(text[i \div 2 + 1], IF i % 2 = 0 THEN "left" ELSE "right") \in Cells
    BY <1>3, <2>4
  <2> QED BY <2>5 DEF i
<1>5. \A l \in Lines, c \in Columns : buffer[l][c] \in Cells
  OBVIOUS
<1> QED BY <1>4, <1>5 DEF Drawn

\* One pass of the loop leaves line, flags and word in their ranges.
LEMMA NextTypes ==
  ASSUME TypeOK, Types, Scanning, FlagsInHand, NextFlags,
         startRow' \in Nat, consecutiveDirtyRows' \in Nat, Pos' = Pos + 1
  PROVE  /\ startRow' \in 0..Height /\ consecutiveDirtyRows' \in 0..Height
         /\ dirtyFlags' \subseteq Bits
         /\ dirtyWordCnt' \in 0..Height \div WordBits + 1
<1>1. WordBits \in Nat /\ WordBits > 0 /\ Height \in Nat
  BY SizeAssumption
<1>2. Pos \in Lines
  BY <1>1 DEF Types, Scanning, Pos, Lines
<1>3. startRow' \in 0..Height /\ consecutiveDirtyRows' \in 0..Height
  BY <1>1, <1>2 DEF Pos, Lines
<1>4. dirtyFlags' \subseteq Bits
  BY DEF NextFlags, TypeOK
<1>5. Pos \div WordBits \in Words /\ Height \div WordBits \in Nat
  BY <1>1, <1>2, LineHasBit, Division
<1>6. dirtyWordCnt \in Nat /\ dirtyWordCnt <= Height \div WordBits
  <2> DEFINE q == Pos \div WordBits
             h == Height \div WordBits
  <2>1. dirtyWordCnt = q + 1 /\ q \in 0..h - 1 /\ h \in Nat
    BY <1>5 DEF FlagsInHand, Words
  <2> HIDE DEF q, h
  <2>2. dirtyWordCnt \in Nat /\ dirtyWordCnt <= h
    BY <2>1
  <2> QED BY <2>2 DEF h
<1>7. dirtyWordCnt' = dirtyWordCnt \/ dirtyWordCnt' = dirtyWordCnt + 1
  BY DEF NextFlags
<1> QED BY <1>3, <1>4, <1>5, <1>6, <1>7

LEMMA InitTypes == Init => TypeOK
<1> SUFFICES ASSUME Init PROVE TypeOK OBVIOUS
<1>1. Height \in Nat /\ Height \div WordBits \in Nat
  BY SizeAssumption, Division
<1>2. Plain(White) \in [Lines -> [Columns -> Cells]]
  BY DEF Plain, Cells, White, Chars
<1>3. Plain(Black) \in [Lines -> [Columns -> Cells]]
  BY DEF Plain, Cells
<1>4. startRow \in 0..Height /\ consecutiveDirtyRows \in 0..Height
  BY <1>1 DEF Init
<1>5. dirtyWordCnt \in 0..Height \div WordBits + 1
  BY <1>1 DEF Init
<1> QED BY <1>2, <1>3, <1>4, <1>5 DEF Init, TypeOK

\* An update begins in range.
LEMMA BeginTypes ==
  ASSUME BeginUpdate, dirtyRows' \in [Words -> SUBSET Bits],
         framebuffer' \in [Lines -> [Columns -> Cells]],
         panel' \in [Lines -> [Columns -> Cells]]
  PROVE  TypeOK'
<1>1. Height \in Nat /\ Height \div WordBits \in Nat /\ 0 \in Words
  BY SizeAssumption, Division, LineHasBit
<1>2. /\ pc' = "scan" /\ startRow' = 0 /\ consecutiveDirtyRows' = 0
      /\ dirtyFlags' = dirtyRows'[0] /\ dirtyWordCnt' = 1
  BY DEF BeginUpdate
<1>3. startRow' \in 0..Height /\ consecutiveDirtyRows' \in 0..Height
  BY <1>1, <1>2
<1>4. dirtyWordCnt' \in 0..Height \div WordBits + 1
  BY <1>1, <1>2
<1>5. dirtyFlags' \subseteq Bits
  BY <1>1, <1>2
<1> QED BY <1>2, <1>3, <1>4, <1>5 DEF TypeOK

LEMMA StepTypes == TypeOK /\ DisplayInv /\ [Next]_vars => TypeOK'
<1> SUFFICES ASSUME TypeOK, DisplayInv, [Next]_vars PROVE TypeOK'
  OBVIOUS
<1>a. Types /\ (Scanning => FlagsInHand)
  BY DEF DisplayInv, Scan, Scanning, Pos
<1>b. Plain(White) \in [Lines -> [Columns -> Cells]]
  BY DEF Plain, Cells, White, Chars
<1>c. ASSUME NEW first, NEW count, sl_memlcd_draw(first, count)
      PROVE  panel' \in [Lines -> [Columns -> Cells]]
  BY <1>c DEF sl_memlcd_draw, TypeOK
<1>1. CASE displayInit
  <2>1. dirtyRows' \in [Words -> SUBSET Bits]
    BY <1>1 DEF displayInit
  <2> QED BY <1>1, <1>b, <2>1, BeginTypes DEF displayInit
<1>2. ASSUME NEW row \in Rows, NEW text \in Texts, displayPrintf(row, text)
      PROVE  TypeOK'
  <2>1. dirtyRows' \in [Words -> SUBSET Bits]
    BY <1>2 DEF displayPrintf, Marked, TypeOK
  <2>2. Drawn(framebuffer, row, strToErase) \in [Lines -> [Columns -> Cells]]
    BY Erasing, DrawnIsCells DEF TypeOK
  <2>3. framebuffer' \in [Lines -> [Columns -> Cells]]
    BY <1>2, <2>2, Printing, DrawnIsCells DEF displayPrintf
  <2>4. panel' \in [Lines -> [Columns -> Cells]] /\ BeginUpdate
    BY <1>2 DEF displayPrintf, TypeOK
  <2> QED BY <2>1, <2>3, <2>4, BeginTypes
<1>3. CASE PassDirtyLine
  <2>1. /\ Scanning /\ NextFlags /\ startRow' = startRow
        /\ consecutiveDirtyRows' = consecutiveDirtyRows + 1
        /\ UNCHANGED <<pc, framebuffer, panel, dirtyRows>>
    BY <1>3 DEF PassDirtyLine
  <2>2. startRow' \in Nat /\ consecutiveDirtyRows' \in Nat /\ Pos' = Pos + 1
    BY <1>a, <2>1 DEF Types, Pos
  <2> QED BY <1>a, <2>1, <2>2, NextTypes DEF TypeOK
<1>4. CASE DrawSeries
  <2>1. /\ Scanning /\ NextFlags /\ startRow' = startRow + consecutiveDirtyRows + 1
        /\ consecutiveDirtyRows' = 0 /\ sl_memlcd_draw(startRow, consecutiveDirtyRows)
        /\ UNCHANGED <<pc, framebuffer, dirtyRows>>
    BY <1>4 DEF DrawSeries
  <2>2. startRow' \in Nat /\ consecutiveDirtyRows' \in Nat /\ Pos' = Pos + 1
    BY <1>a, <2>1 DEF Types, Pos
  <2> QED BY <1>a, <1>c, <2>1, <2>2, NextTypes DEF TypeOK
<1>5. CASE PassCleanLine
  <2>1. /\ Scanning /\ NextFlags /\ startRow' = startRow + 1
        /\ consecutiveDirtyRows' = consecutiveDirtyRows
        /\ UNCHANGED <<pc, framebuffer, panel, dirtyRows>>
    BY <1>5 DEF PassCleanLine
  <2>2. startRow' \in Nat /\ consecutiveDirtyRows' \in Nat /\ Pos' = Pos + 1
    BY <1>a, <2>1 DEF Types, Pos
  <2> QED BY <1>a, <2>1, <2>2, NextTypes DEF TypeOK
<1>6. CASE EndUpdate
  <2>1. /\ pc' = "idle" /\ dirtyRows' = [w \in Words |-> {}]
        /\ UNCHANGED <<framebuffer, scanVars>>
        /\ sl_memlcd_draw(startRow, consecutiveDirtyRows)
    BY <1>6 DEF EndUpdate, DrawRest
  <2> QED BY <1>c, <2>1 DEF TypeOK, scanVars
<1>7. CASE UNCHANGED vars
  BY <1>7 DEF vars, scanVars, TypeOK
<1> QED BY <1>1, <1>2, <1>3, <1>4, <1>5, <1>6, <1>7 DEF Next

\* Frame buffer, panel and the registers of the loop stay in range: the loop of
\* DMD_updateDisplay() never counts beyond the panel, and reads at most one word of
\* flags behind it.
THEOREM TypeCorrect == Spec => []TypeOK
<1>1. TypeOK /\ DisplayInv /\ [Next]_vars => TypeOK'
  BY StepTypes
<1> QED BY <1>1, InitTypes, InitInv, StepInv, PTL DEF Spec

-----------------------------------------------------------------------------
(* What is drawn is what Screen asks for.                                  *)

\* The rows lie on the panel and apart from each other.
LEMMA RowsApart ==
  /\ \A row \in Rows : /\ RowLines(row) \subseteq Lines /\ row * Pitch \in RowLines(row)
                       /\ row * Pitch \in Nat /\ row * Pitch + FontHeight <= Height
                       /\ RowLines(row) = row * Pitch .. row * Pitch + FontHeight - 1
  /\ \A row, other \in Rows : row # other => RowLines(row) \cap RowLines(other) = {}
<1>1. /\ Pitch \in Nat /\ FontHeight \in Nat /\ LineSpacing \in Nat /\ Height \in Nat
      /\ NumberOfRows \in Nat /\ Pitch = FontHeight + LineSpacing /\ FontHeight > 0
  BY SizeAssumption DEF Pitch
<1>2. \A row \in Rows : row \in Nat /\ row <= NumberOfRows - 1
  BY <1>1 DEF Rows
\* Multiplication by the pitch is monotonic.
<1>3. \A m, n \in Nat : m <= n => m * Pitch <= n * Pitch /\ m * Pitch \in Nat
  <2> SUFFICES ASSUME NEW m \in Nat, NEW n \in Nat, m <= n
               PROVE  m * Pitch <= n * Pitch /\ m * Pitch \in Nat
    OBVIOUS
  <2> HIDE DEF Pitch
  <2>1. PICK d \in Nat : n = m + d
    <3>1. n - m \in Nat /\ n = m + (n - m)
      OBVIOUS
    <3> QED BY <3>1
  <2>2. n * Pitch = m * Pitch + d * Pitch
    BY <1>1, <2>1, SMTT(30)
  <2>3. m * Pitch \in Nat /\ d * Pitch \in Nat
    BY <1>1
  <2> QED BY <2>2, <2>3
<1>4. \A m, n \in Nat : m < n => m * Pitch + FontHeight <= n * Pitch
  <2> SUFFICES ASSUME NEW m \in Nat, NEW n \in Nat, m < n
               PROVE  m * Pitch + FontHeight <= n * Pitch
    OBVIOUS
  <2>1. (m + 1) * Pitch <= n * Pitch
    BY <1>3
  <2>2. (m + 1) * Pitch = m * Pitch + Pitch
    BY <1>1
  <2>3. m * Pitch \in Nat /\ n * Pitch \in Nat
    BY <1>1, <1>3
  <2> QED BY <1>1, <2>1, <2>2, <2>3
<1>5. ASSUME NEW row \in Rows
      PROVE  /\ row * Pitch \in Nat /\ row * Pitch + FontHeight <= Height
             /\ RowLines(row) = row * Pitch .. row * Pitch + FontHeight - 1
  <2>1. NumberOfRows - 1 \in Nat
    BY <1>1, SizeAssumption
  <2>2. row * Pitch <= (NumberOfRows - 1) * Pitch /\ row * Pitch \in Nat
    BY <1>2, <1>3, <2>1
  <2>3. (NumberOfRows - 1) * Pitch \in Nat
    BY <1>3, <2>1
  <2> QED BY <1>1, <2>2, <2>3, RowsFit DEF RowLines
<1>6. ASSUME NEW row \in Rows
      PROVE  RowLines(row) \subseteq Lines /\ row * Pitch \in RowLines(row)
  BY <1>1, <1>5 DEF Lines
<1>7. ASSUME NEW row \in Rows, NEW other \in Rows, row # other
      PROVE  RowLines(row) \cap RowLines(other) = {}
  <2>1. row < other \/ other < row
    BY <1>2, <1>7
  <2>2. \/ row * Pitch + FontHeight <= other * Pitch
        \/ other * Pitch + FontHeight <= row * Pitch
    BY <1>2, <1>4, <2>1
  <2> QED BY <1>1, <1>5, <2>2
<1> QED BY <1>5, <1>6, <1>7

\* What a line reads from left to right.
Reads(line) == [i \in 1..2 * RowLen |-> line[i - 1]]

\* A row that was erased is white, and the text lies in the middle of it.
LEMMA DrawnCell ==
  ASSUME NEW buffer, NEW row \in Rows, NEW text \in Texts, NEW l \in RowLines(row),
         NEW c \in Columns
  PROVE  LET t == strToDisplay(text)
             i == c - (RowLen - Len(t))
         IN  Drawn(Drawn(buffer, row, strToErase), row, t)[l][c] =
               IF 0 <= i /\ i < 2 * Len(t)
               THEN Glyph(t[i \div 2 + 1], IF i % 2 = 0 THEN "left" ELSE "right")
               ELSE White
<1> DEFINE t == strToDisplay(text)
           i == c - (RowLen - Len(t))
           erased == Drawn(buffer, row, strToErase)
<1>1. /\ RowLen \in Nat /\ l \in Lines /\ c \in Int /\ c >= 0 /\ c < 2 * RowLen
      /\ Len(t) \in Nat
  <2>1. RowLen \in Nat
    BY SizeAssumption
  <2>2. c \in Int /\ c >= 0 /\ c < 2 * RowLen
    BY <2>1 DEF Columns
  <2>3. l \in Lines
    BY RowsApart
  <2>4. Len(t) \in Nat
    BY <2>1, Printing
  <2> QED BY <2>1, <2>2, <2>3, <2>4
<1>2. erased[l][c] = White
  <2>1. Centre(strToErase) = 0 /\ c - 0 = c /\ Len(strToErase) = RowLen
    BY <1>1, Erasing DEF Centre
  <2>2. erased[l][c] = Glyph(strToErase[c \div 2 + 1], IF c % 2 = 0 THEN "left" ELSE "right")
    BY <1>1, <2>1 DEF Drawn
  <2>3. c \div 2 + 1 \in 1..RowLen
    BY <1>1, HalfCharacters
  <2>4. strToErase[c \div 2 + 1] = Space
    BY <2>3, Erasing
  <2> QED BY <2>2, <2>4 DEF Glyph
<1>3. Centre(t) = RowLen - Len(t) /\ (c >= Centre(t) <=> 0 <= i)
  BY <1>1 DEF Centre
<1> HIDE DEF erased, t
<1>4. Drawn(erased, row, t)[l][c] =
        IF l \in RowLines(row) /\ c >= Centre(t) /\ c - Centre(t) < 2 * Len(t)
        THEN Glyph(t[(c - Centre(t)) \div 2 + 1],
                   IF (c - Centre(t)) % 2 = 0 THEN "left" ELSE "right")
        ELSE erased[l][c]
  BY <1>1 DEF Drawn
<1>5. Drawn(erased, row, t)[l][c] =
        IF 0 <= i /\ i < 2 * Len(t)
        THEN Glyph(t[i \div 2 + 1], IF i % 2 = 0 THEN "left" ELSE "right")
        ELSE White
  BY <1>2, <1>3, <1>4
<1> QED BY <1>5 DEF erased, t

\* The picture of a text: a margin, the halves of its characters, a margin.
LEMMA PictureCell ==
  ASSUME NEW text \in Texts
  PROVE  LET cut == SubSeq(text, 1, IF Len(text) < RowLen THEN Len(text) ELSE RowLen)
             m   == RowLen - Len(cut)
         IN  /\ Len(cut) \in 0..RowLen
             /\ S!Picture(text) \in Seq(Cells) /\ Len(S!Picture(text)) = 2 * RowLen
             /\ \A j \in 1..2 * RowLen :
                  S!Picture(text)[j] =
                    IF j <= m \/ j > m + 2 * Len(cut) THEN White
                    ELSE IF (j - m) % 2 = 1 THEN Glyph(cut[(j - m + 1) \div 2], "left")
                    ELSE Glyph(cut[(j - m) \div 2], "right")
<1> DEFINE n     == IF Len(text) < RowLen THEN Len(text) ELSE RowLen
           cut   == SubSeq(text, 1, n)
           m     == RowLen - Len(cut)
           side  == S!Blanks(m)
           chars == [i \in 1..2 * Len(cut) |->
                      IF i % 2 = 1 THEN S!Half(cut[(i + 1) \div 2], "left")
                                   ELSE S!Half(cut[i \div 2], "right")]
<1>1. RowLen \in Nat /\ RowLen > 0 /\ text \in Seq(Chars) /\ Space \in Chars
  BY SizeAssumption, TextAssumption, Zenon DEF Chars
<1>2. Len(text) \in Nat /\ \A i \in 1..Len(text) : text[i] \in Chars
  BY <1>1, LenProperties, ElementOfSeq
<1>3. n \in 0..RowLen /\ n <= Len(text)
  BY <1>1, <1>2
<1>4. cut \in Seq(Chars) /\ Len(cut) = n
  <2> HIDE DEF n
  <2>1. \A i \in 1..n : text[i] \in Chars
    BY <1>1, <1>2, <1>3
  <2>2. n \in Int
    BY <1>1, <1>3
  <2>3. SubSeq(text, 1, n) \in Seq(Chars) /\ Len(SubSeq(text, 1, n)) = IF 1 <= n THEN n - 1 + 1 ELSE 0
    BY <2>1, <2>2, SubSeqProperties
  <2> QED BY <1>1, <1>3, <2>2, <2>3
<1>5. \A i \in 1..Len(cut) : cut[i] \in Chars
  BY <1>4, ElementOfSeq
<1>6. m \in Nat /\ Len(cut) \in Nat /\ Len(cut) \in 0..RowLen /\ 2 * m + 2 * Len(cut) = 2 * RowLen
  BY <1>1, <1>3, <1>4
<1>7. \A char \in Chars : /\ S!Half(char, "left") = Glyph(char, "left")
                          /\ S!Half(char, "right") = Glyph(char, "right")
                          /\ Glyph(char, "left") \in Cells /\ Glyph(char, "right") \in Cells
  BY <1>1 DEF S!Half, S!Blank, Glyph, White, Cells
<1> HIDE DEF cut, n
<1>8. /\ side \in Seq(Cells) /\ Len(side) = m
      /\ \A j \in 1..m : side[j] = White
  <2>1. side = [j \in 1..m |-> White] /\ White \in Cells
    BY <1>1 DEF S!Blanks, S!Blank, White, Cells
  <2> HIDE DEF side, m
  <2>2. side \in [1..m -> Cells]
    BY <2>1
  <2>3. side \in Seq(Cells)
    BY <1>6, <2>2, SeqDef
  <2> QED BY <1>6, <2>1, <2>3
<1>9. /\ chars \in Seq(Cells) /\ Len(chars) = 2 * Len(cut)
      /\ \A j \in 1..2 * Len(cut) :
           chars[j] = IF j % 2 = 1 THEN Glyph(cut[(j + 1) \div 2], "left")
                      ELSE Glyph(cut[j \div 2], "right")
  <2>1. ASSUME NEW j \in 1..2 * Len(cut)
        PROVE  chars[j] \in Cells
               /\ chars[j] = IF j % 2 = 1 THEN Glyph(cut[(j + 1) \div 2], "left")
                             ELSE Glyph(cut[j \div 2], "right")
    <3>1. /\ j % 2 = 1 => (j + 1) \div 2 \in 1..Len(cut)
          /\ j % 2 # 1 => j \div 2 \in 1..Len(cut)
      <4> DEFINE k == Len(cut)
      <4>1. k \in Nat /\ j \in 1..2 * k
        BY <1>6
      <4> HIDE DEF k
      <4>2. /\ j % 2 = 1 => (j + 1) \div 2 \in 1..k
            /\ j % 2 # 1 => j \div 2 \in 1..k
        BY <4>1, SMTT(30)
      <4> QED BY <4>2 DEF k
    <3>2. chars[j] = IF j % 2 = 1 THEN S!Half(cut[(j + 1) \div 2], "left")
                     ELSE S!Half(cut[j \div 2], "right")
      OBVIOUS
    <3> HIDE DEF chars
    <3> QED BY <1>5, <1>7, <3>1, <3>2
  <2>2. chars \in [1..2 * Len(cut) -> Cells]
    BY <2>1
  <2>3. 2 * Len(cut) \in Nat /\ DOMAIN chars = 1..2 * Len(cut)
    BY <1>6
  <2> HIDE DEF chars
  <2>4. chars \in Seq(Cells)
    BY <2>2, <2>3, SeqDef
  <2>5. Len(chars) = 2 * Len(cut)
    BY <2>3, <2>4, LenProperties
  <2> QED BY <2>1, <2>4, <2>5
<1>10. S!Picture(text) = (side \o chars) \o side
  BY DEF S!Picture, cut, n
<1> HIDE DEF side, chars, m
<1>11. /\ side \o chars \in Seq(Cells) /\ Len(side \o chars) = m + 2 * Len(cut)
       /\ \A j \in 1..m + 2 * Len(cut) :
            (side \o chars)[j] = IF j <= m THEN side[j] ELSE chars[j - m]
  <2> DEFINE both == side \o chars
  <2>1. /\ both \in Seq(Cells) /\ Len(both) = Len(side) + Len(chars)
        /\ \A j \in 1..Len(side) + Len(chars) :
             both[j] = IF j <= Len(side) THEN side[j] ELSE chars[j - Len(side)]
    BY <1>8, <1>9, ConcatProperties
  <2> HIDE DEF both
  <2>2. /\ both \in Seq(Cells) /\ Len(both) = m + 2 * Len(cut)
        /\ \A j \in 1..m + 2 * Len(cut) :
             both[j] = IF j <= m THEN side[j] ELSE chars[j - m]
    BY <1>8, <1>9, <2>1
  <2> QED BY <2>2 DEF both
<1>12. /\ S!Picture(text) \in Seq(Cells) /\ Len(S!Picture(text)) = m + 2 * Len(cut) + m
       /\ \A j \in 1..m + 2 * Len(cut) + m :
            S!Picture(text)[j] = IF j <= m + 2 * Len(cut) THEN (side \o chars)[j]
                                 ELSE side[j - (m + 2 * Len(cut))]
  <2> DEFINE both == side \o chars
             all  == both \o side
             b    == m + 2 * Len(cut)
  <2>1. /\ all \in Seq(Cells) /\ Len(all) = Len(both) + Len(side)
        /\ \A j \in 1..Len(both) + Len(side) :
             all[j] = IF j <= Len(both) THEN both[j] ELSE side[j - Len(both)]
    BY <1>8, <1>11, ConcatProperties
  <2>2. Len(both) = b /\ Len(side) = m
    BY <1>8, <1>11
  <2> HIDE DEF both, all, b
  <2>3. /\ all \in Seq(Cells) /\ Len(all) = b + m
        /\ \A j \in 1..b + m : all[j] = IF j <= b THEN both[j] ELSE side[j - b]
    BY <2>1, <2>2
  <2> QED BY <1>10, <2>3 DEF both, all, b
<1>13. m + 2 * Len(cut) + m = 2 * RowLen
  BY <1>6
<1>14. ASSUME NEW j \in 1..2 * RowLen
       PROVE  S!Picture(text)[j] =
                IF j <= m \/ j > m + 2 * Len(cut) THEN White
                ELSE IF (j - m) % 2 = 1 THEN Glyph(cut[(j - m + 1) \div 2], "left")
                ELSE Glyph(cut[(j - m) \div 2], "right")
  <2>0. j \in Int /\ j >= 1 /\ j <= 2 * RowLen /\ RowLen \in Nat
    BY <1>1
  <2>1. CASE j <= m
    BY <1>6, <1>8, <1>11, <1>12, <1>13, <2>0, <2>1
  <2>2. CASE j > m + 2 * Len(cut)
    <3>1. j - (m + 2 * Len(cut)) \in 1..m
      BY <1>6, <1>13, <2>0, <2>2
    <3> QED BY <1>6, <1>8, <1>12, <1>13, <2>0, <2>2, <3>1
  <2>3. CASE m < j /\ j <= m + 2 * Len(cut)
    <3>1. j - m \in 1..2 * Len(cut) /\ j \in 1..m + 2 * Len(cut)
      BY <1>6, <2>0, <2>3
    <3>2. S!Picture(text)[j] = (side \o chars)[j]
      BY <1>6, <1>12, <1>13, <2>0, <2>3
    <3>3. (side \o chars)[j] = chars[j - m]
      <4>1. ~(j <= m)
        BY <1>6, <2>0, <2>3
      <4> QED BY <1>11, <3>1, <4>1
    <3>4. ~(j <= m \/ j > m + 2 * Len(cut))
      BY <1>6, <2>0, <2>3
    <3> DEFINE k == j - m
    <3>5. k \in 1..2 * Len(cut) /\ S!Picture(text)[j] = chars[k]
      BY <3>1, <3>2, <3>3
    <3> HIDE DEF k
    <3>6. S!Picture(text)[j] = IF k % 2 = 1 THEN Glyph(cut[(k + 1) \div 2], "left")
                               ELSE Glyph(cut[k \div 2], "right")
      BY <1>9, <3>5
    <3> QED BY <3>4, <3>6, Zenon DEF k
  <2> QED BY <1>6, <2>0, <2>1, <2>2, <2>3
<1>15. /\ Len(cut) \in 0..RowLen
       /\ S!Picture(text) \in Seq(Cells) /\ Len(S!Picture(text)) = 2 * RowLen
       /\ \A j \in 1..2 * RowLen :
            S!Picture(text)[j] =
              IF j <= m \/ j > m + 2 * Len(cut) THEN White
              ELSE IF (j - m) % 2 = 1 THEN Glyph(cut[(j - m + 1) \div 2], "left")
              ELSE Glyph(cut[(j - m) \div 2], "right")
  BY <1>6, <1>12, <1>13, <1>14
<1> QED BY <1>15 DEF cut, n, m

\* Erasing a row and drawing a text on it (displayPrintf()) gives the picture of the
\* text, cut and centred, on every line of the row.
LEMMA DrawnIsPicture ==
  ASSUME NEW buffer, NEW row \in Rows, NEW text \in Texts, NEW l \in RowLines(row)
  PROVE  Reads(Drawn(Drawn(buffer, row, strToErase), row, strToDisplay(text))[l])
           = S!Picture(text)
<1> DEFINE line == Drawn(Drawn(buffer, row, strToErase), row, strToDisplay(text))[l]
           t    == strToDisplay(text)
           n    == IF Len(text) < RowLen THEN Len(text) ELSE RowLen
           cut  == SubSeq(text, 1, n)
           m    == RowLen - Len(cut)
<1>1. RowLen \in Nat /\ RowLen > 0 /\ text \in Seq(Chars)
  BY SizeAssumption, TextAssumption
<1>2. /\ Len(cut) \in 0..RowLen
      /\ S!Picture(text) \in Seq(Cells) /\ Len(S!Picture(text)) = 2 * RowLen
      /\ \A j \in 1..2 * RowLen :
           S!Picture(text)[j] =
             IF j <= m \/ j > m + 2 * Len(cut) THEN White
             ELSE IF (j - m) % 2 = 1 THEN Glyph(cut[(j - m + 1) \div 2], "left")
             ELSE Glyph(cut[(j - m) \div 2], "right")
  BY PictureCell
<1>3. Len(t) \in 1..RowLen
  BY Printing
<1>4. text # <<>> => t = cut
  <2>1. text # <<>> => strToDisplay(text) = SubSeq(text, 1, Min2(Len(text), RowLen))
    BY DEF strToDisplay
  <2>2. Min2(Len(text), RowLen) = n
    BY DEF Min2
  <2> QED BY <2>1, <2>2
<1>5. text = <<>> => cut = <<>> /\ Len(cut) = 0 /\ Len(t) = 1 /\ t[1] = Space
  <2> SUFFICES ASSUME text = <<>> PROVE cut = <<>> /\ Len(cut) = 0 /\ Len(t) = 1 /\ t[1] = Space
    OBVIOUS
  <2>1. Len(text) = 0 /\ n = 0
    BY <1>1, EmptySeq
  <2>2. cut = <<>>
    BY <2>1, SubSeqEmpty
  <2> QED BY <2>2, Printing, EmptySeq
<1>6. ASSUME NEW j \in 1..2 * RowLen
      PROVE  line[j - 1] = S!Picture(text)[j]
  <2> DEFINE c == j - 1
             i == c - (RowLen - Len(t))
  <2>1. c \in Columns /\ j \in Int
    BY <1>1 DEF Columns
  <2>2. line[c] = IF 0 <= i /\ i < 2 * Len(t)
                  THEN Glyph(t[i \div 2 + 1], IF i % 2 = 0 THEN "left" ELSE "right")
                  ELSE White
    BY <2>1, DrawnCell
  <2> HIDE DEF line, t, cut, n
  <2>3. CASE text = <<>>
    <3>1. S!Picture(text)[j] = White
      BY <1>1, <1>2, <1>5, <2>1, <2>3
    <3>2. line[c] = White
      <4>1. CASE 0 <= i /\ i < 2 * Len(t)
        <5>1. i \in 0..1
          <6>1. Len(t) = 1 /\ RowLen - 1 \in Int /\ c \in Int
            BY <1>1, <1>5, <2>1, <2>3
          <6>2. i = c - (RowLen - 1) /\ 2 * Len(t) = 2
            BY <6>1
          <6>3. i \in Int
            BY <6>1, <6>2
          <6> HIDE DEF i
          <6> QED BY <4>1, <6>2, <6>3
        <5>2. i \div 2 + 1 = 1
          BY <5>1
        <5> QED BY <1>5, <2>2, <2>3, <4>1, <5>2 DEF Glyph
      <4> QED BY <2>2, <4>1
    <3> QED BY <3>1, <3>2
  <2>4. CASE text # <<>>
    <3>1. t = cut /\ Len(t) \in Nat /\ m = RowLen - Len(t) /\ m \in Nat /\ m = RowLen - Len(cut)
      BY <1>1, <1>3, <1>4, <2>4
    <3>2. i \in Int /\ i = j - m - 1
      BY <1>1, <2>1, <3>1
    <3>3. (0 <= i /\ i < 2 * Len(t)) <=> ~(j <= m \/ j > m + 2 * Len(cut))
      BY <2>1, <3>1, <3>2
    <3>4. CASE 0 <= i /\ i < 2 * Len(t)
      <4>1. j - m = i + 1 /\ j - m + 1 = i + 2
        BY <2>1, <3>1, <3>2
      <4>2. S!Picture(text)[j] = IF (i + 1) % 2 = 1 THEN Glyph(cut[(i + 2) \div 2], "left")
                                 ELSE Glyph(cut[(i + 1) \div 2], "right")
        BY <1>2, <3>3, <3>4, <4>1
      <4>3. /\ i % 2 = 0 => (i + 1) % 2 = 1 /\ (i + 2) \div 2 = i \div 2 + 1
            /\ i % 2 # 0 => (i + 1) % 2 # 1 /\ (i + 1) \div 2 = i \div 2 + 1
        BY <3>1, <3>2, <3>4, HalfCharacters
      <4> HIDE DEF i, m
      <4> QED BY <2>2, <3>1, <3>4, <4>2, <4>3
    <3>5. CASE ~(0 <= i /\ i < 2 * Len(t))
      BY <1>2, <2>2, <3>3, <3>5
    <3> QED BY <3>4, <3>5
  <2> QED BY <2>3, <2>4
<1>7. S!Picture(text) = [j \in 1..2 * RowLen |-> S!Picture(text)[j]]
  BY <1>2, LenProperties
<1> HIDE DEF line
<1>8. Reads(line) = S!Picture(text)
  BY <1>6, <1>7 DEF Reads
<1> QED BY <1>8 DEF line

-----------------------------------------------------------------------------
(* A row changes in one transfer.                                          *)

AllShown == \A l \in Lines : panel[l] = framebuffer[l]

\* An update that began with this row printed: the row's lines are the marked ones
\* and read the text; the series is still to begin or grows over the row.
PrintUnderWay(row, text) ==
  /\ Marks = RowLines(row)
  /\ \A l \in RowLines(row) : /\ Reads(framebuffer[l]) = S!Picture(text)
                              /\ framebuffer[l] = framebuffer[row * Pitch]
  /\ \/ consecutiveDirtyRows = 0 /\ startRow <= row * Pitch
     \/ startRow = row * Pitch /\ Pos \in RowLines(row) \cup {row * Pitch + FontHeight}

InOneTransfer ==
  /\ pc = "idle" => AllShown /\ Marks = {}
  /\ pc = "scan" => AllShown \/ \E row \in Rows, text \in Texts : PrintUnderWay(row, text)

TransferInv == DisplayInv /\ InOneTransfer

\* The lowest flag in hand is that of line Pos.
LEMMA FlagOfLine ==
  ASSUME DisplayInv, Scanning
  PROVE  /\ pc = "scan" /\ Pos \in Lines /\ Pos = startRow + consecutiveDirtyRows
         /\ startRow \in Nat /\ consecutiveDirtyRows \in Nat
         /\ 0 \in dirtyFlags <=> Pos \in Marks
<1>1. /\ Height \in Nat /\ WordBits \in Nat
      /\ startRow \in Nat /\ consecutiveDirtyRows \in Nat /\ pc = "scan"
  BY SizeAssumption DEF DisplayInv, Types, Scanning
<1>2. Pos \in Lines /\ FlagsInHand
  BY <1>1 DEF DisplayInv, Scan, Scanning, Pos, Lines
<1>3. 0 \in Bits /\ Pos % WordBits \in Bits /\ 0 + (Pos % WordBits) = Pos % WordBits
  BY <1>1, <1>2, LineHasBit, SizeAssumption DEF Bits
<1> QED BY <1>1, <1>2, <1>3 DEF FlagsInHand, Marks, Pos

\* What the rows of the panel show; white as long as the display is off.
ScreenShown ==
  IF pc = "off" THEN [r \in Rows |-> [i \in 1..2 * RowLen |-> White]]
                ELSE [r \in Rows |-> Shown(r)]

LEMMA SameLinesSameRows ==
  ASSUME pc # "off", pc' # "off", \A l \in Lines : panel'[l] = panel[l]
  PROVE  ScreenShown' = ScreenShown
<1>1. ASSUME NEW r \in Rows PROVE Shown(r)' = Shown(r)
  BY RowsApart DEF Shown
<1> QED BY <1>1 DEF ScreenShown

LEMMA RowWritten ==
  ASSUME pc # "off", pc' # "off", NEW row \in Rows, NEW text \in Texts,
         \A l \in Lines \ RowLines(row) : panel'[l] = panel[l],
         \A l \in RowLines(row) : Reads(panel'[l]) = S!Picture(text)
                                  /\ panel'[l] = panel'[row * Pitch]
  PROVE  ScreenShown' = [ScreenShown EXCEPT ![row] = S!Picture(text)]
<1>1. ASSUME NEW r \in Rows, r # row PROVE Shown(r)' = Shown(r)
  <2>1. \A l \in RowLines(r) : panel'[l] = panel[l]
    BY <1>1, RowsApart
  <2>2. panel'[r * Pitch] = panel[r * Pitch]
    BY <2>1, RowsApart
  <2> QED BY <2>1, <2>2 DEF Shown
<1>2. Shown(row)' = S!Picture(text)
  <2>1. Reads(panel'[row * Pitch]) = S!Picture(text)
    BY RowsApart
  <2> QED BY <2>1 DEF Shown, Reads
<1>3. ScreenShown = [r \in Rows |-> Shown(r)] /\ ScreenShown' = [r \in Rows |-> Shown(r)']
  BY DEF ScreenShown
<1> QED BY <1>1, <1>2, <1>3

\* The transfer at the end of a series sends nothing, or nothing new, or exactly
\* the row that was printed.
LEMMA SeriesIsRow ==
  ASSUME TransferInv, pc = "scan", Pos \notin Marks, framebuffer' = framebuffer,
         pc' # "off", sl_memlcd_draw(startRow, consecutiveDirtyRows)
  PROVE  /\ consecutiveDirtyRows > 0 => AllShown'
         /\ \/ ScreenShown' = ScreenShown
            \/ \E row \in Rows, text \in Texts :
                 ScreenShown' = [ScreenShown EXCEPT ![row] = S!Picture(text)]
<1>1. /\ startRow \in Nat /\ consecutiveDirtyRows \in Nat
      /\ Pos = startRow + consecutiveDirtyRows /\ FontHeight \in Nat
  BY SizeAssumption DEF TransferInv, DisplayInv, Types, Pos
<1>2. \A l \in Lines :
        panel'[l] = IF l \in startRow .. startRow + consecutiveDirtyRows - 1
                    THEN framebuffer[l] ELSE panel[l]
  BY DEF sl_memlcd_draw
<1>3. CASE AllShown
  <2>1. \A l \in Lines : panel'[l] = panel[l] /\ panel'[l] = framebuffer'[l]
    BY <1>2, <1>3 DEF AllShown
  <2> QED BY <2>1, SameLinesSameRows DEF AllShown
<1>4. CASE consecutiveDirtyRows = 0
  <2>1. \A l \in Lines : panel'[l] = panel[l]
    BY <1>1, <1>2, <1>4 DEF Lines
  <2> QED BY <1>4, <2>1, SameLinesSameRows
<1>5. ASSUME NEW row \in Rows, NEW text \in Texts, PrintUnderWay(row, text),
             consecutiveDirtyRows > 0
      PROVE  /\ AllShown'
             /\ ScreenShown' = [ScreenShown EXCEPT ![row] = S!Picture(text)]
  <2>1. /\ startRow = row * Pitch /\ Pos = row * Pitch + FontHeight
        /\ Marks = RowLines(row)
        /\ \A l \in RowLines(row) : /\ Reads(framebuffer[l]) = S!Picture(text)
                                    /\ framebuffer[l] = framebuffer[row * Pitch]
    BY <1>5 DEF PrintUnderWay
  <2>2. /\ RowLines(row) = startRow .. startRow + consecutiveDirtyRows - 1
        /\ RowLines(row) \subseteq Lines /\ row * Pitch \in RowLines(row)
    BY <1>1, <2>1, RowsApart
  <2>3. \A l \in RowLines(row) : panel'[l] = framebuffer[l]
    BY <1>2, <2>2
  <2>4. \A l \in Lines \ RowLines(row) : panel'[l] = panel[l] /\ panel[l] = framebuffer[l]
    BY <1>2, <2>1, <2>2 DEF TransferInv, DisplayInv, CleanLinesShown
  <2>5. AllShown'
    BY <2>3, <2>4 DEF AllShown
  <2>6. \A l \in RowLines(row) : Reads(panel'[l]) = S!Picture(text)
                                 /\ panel'[l] = panel'[row * Pitch]
    <3>1. ASSUME NEW l \in RowLines(row)
          PROVE  panel'[l] = framebuffer[l] /\ panel'[l] = panel'[row * Pitch]
      BY <2>1, <2>2, <2>3
    <3> QED BY <2>1, <3>1
  <2>7. ScreenShown' = [ScreenShown EXCEPT ![row] = S!Picture(text)]
    BY <2>4, <2>6, RowWritten
  <2> QED BY <2>5, <2>7
<1>6. AllShown \/ \E row \in Rows, text \in Texts : PrintUnderWay(row, text)
  BY DEF TransferInv, InOneTransfer
<1>7. consecutiveDirtyRows = 0 \/ consecutiveDirtyRows > 0
  BY <1>1
<1> QED BY <1>3, <1>4, <1>5, <1>6, <1>7

\* Printing marks the lines of the row and no other, and they read the text.
LEMMA PrintBegins ==
  ASSUME NEW row \in Rows, NEW text \in Texts, TransferInv, displayPrintf(row, text)
  PROVE  PrintUnderWay(row, text)' /\ ScreenShown' = ScreenShown
<1>1. /\ pc = "idle" /\ pc' = "scan" /\ startRow' = 0 /\ consecutiveDirtyRows' = 0
      /\ panel' = panel
      /\ framebuffer' = Drawn(Drawn(framebuffer, row, strToErase), row, strToDisplay(text))
      /\ dirtyRows' = Marked(dirtyRows, RowLines(row))
  BY DEF displayPrintf, BeginUpdate
<1>2. Marks = {}
  BY <1>1 DEF TransferInv, InOneTransfer
<1>3. ASSUME NEW l \in Lines PROVE l \in Marks' <=> l \in RowLines(row)
  <2>1. l \div WordBits \in Words /\ l % WordBits \in Bits
    BY LineHasBit
  <2>2. l = (l \div WordBits) * WordBits + (l % WordBits)
    <3>1. l \in Nat /\ WordBits \in Nat /\ WordBits > 0
      BY SizeAssumption DEF Lines
    <3> QED BY <3>1, Division
  <2>3. dirtyRows'[l \div WordBits] =
          dirtyRows[l \div WordBits]
            \cup {b \in Bits : (l \div WordBits) * WordBits + b \in RowLines(row)}
    BY <1>1, <2>1 DEF Marked
  <2>4. l % WordBits \notin dirtyRows[l \div WordBits]
    BY <1>2 DEF Marks
  <2> QED BY <2>1, <2>2, <2>3, <2>4 DEF Marks
<1>4. Marks' = RowLines(row)
  <2>1. Marks' \subseteq Lines
    BY DEF Marks
  <2> QED BY <1>3, <2>1, RowsApart
<1>5. ASSUME NEW l \in RowLines(row)
      PROVE  /\ Reads(framebuffer'[l]) = S!Picture(text)
             /\ framebuffer'[l] = framebuffer'[row * Pitch]
  <2>1. Reads(framebuffer'[l]) = S!Picture(text)
    BY <1>1, DrawnIsPicture
  <2>2. l \in Lines /\ row * Pitch \in RowLines(row) /\ row * Pitch \in Lines
    BY RowsApart
  <2>3. \A c \in Columns : framebuffer'[l][c] = framebuffer'[row * Pitch][c]
    BY <1>1, <2>2, DrawnCell
  <2>4. \A k \in Lines : framebuffer'[k] = [c \in Columns |-> framebuffer'[k][c]]
    BY <1>1 DEF Drawn
  <2>5. framebuffer'[l] = framebuffer'[row * Pitch]
    BY <2>2, <2>3, <2>4
  <2> QED BY <2>1, <2>5
<1>6. startRow' <= row * Pitch
  BY <1>1, RowsApart
<1>7. PrintUnderWay(row, text)'
  BY <1>1, <1>4, <1>5, <1>6 DEF PrintUnderWay
<1>8. ScreenShown' = ScreenShown
  BY <1>1, SameLinesSameRows
<1> QED BY <1>7, <1>8

\* Each step keeps the invariant and is a step of Screen or none.
LEMMA StepTransfer ==
  ASSUME TransferInv, [Next]_vars
  PROVE  /\ InOneTransfer'
         /\ \/ ScreenShown' = ScreenShown
            \/ \E row \in Rows, text \in Texts :
                 ScreenShown' = [ScreenShown EXCEPT ![row] = S!Picture(text)]
<1>a. DisplayInv /\ InOneTransfer /\ DisplayInv'
  BY StepInv DEF TransferInv
<1>b. Pos' = startRow' + consecutiveDirtyRows'
  BY DEF Pos
<1>1. CASE displayInit
  <2>1. /\ pc = "off" /\ pc' = "scan" /\ panel' = Plain(White) /\ framebuffer' = Plain(White)
    BY <1>1 DEF displayInit, BeginUpdate
  <2>2. InOneTransfer'
    BY <2>1 DEF InOneTransfer, AllShown
  <2>3. ASSUME NEW r \in Rows PROVE Shown(r)' = [i \in 1..2 * RowLen |-> White]
    <3>1. \A l \in RowLines(r) : l \in Lines /\ panel'[l] = [c \in Columns |-> White]
      BY <2>1, RowsApart DEF Plain
    <3>2. panel'[r * Pitch] = [c \in Columns |-> White]
      BY <3>1, RowsApart
    <3>3. \A i \in 1..2 * RowLen : panel'[r * Pitch][i - 1] = White
      BY <3>2, SizeAssumption DEF Columns
    <3> QED BY <3>1, <3>2, <3>3 DEF Shown
  <2>4. ScreenShown' = ScreenShown
    BY <2>1, <2>3 DEF ScreenShown
  <2> QED BY <2>2, <2>4
<1>2. ASSUME NEW row \in Rows, NEW text \in Texts, displayPrintf(row, text)
      PROVE  InOneTransfer' /\ ScreenShown' = ScreenShown
  <2>1. pc' = "scan"
    BY <1>2 DEF displayPrintf, BeginUpdate
  <2> QED BY <1>2, <2>1, PrintBegins DEF InOneTransfer
<1>3. CASE PassDirtyLine
  <2>1. /\ Scanning /\ 0 \in dirtyFlags /\ startRow' = startRow
        /\ consecutiveDirtyRows' = consecutiveDirtyRows + 1
        /\ UNCHANGED <<pc, framebuffer, panel, dirtyRows>>
    BY <1>3 DEF PassDirtyLine
  <2>2. /\ pc = "scan" /\ pc' = "scan" /\ Pos \in Marks /\ Pos = startRow + consecutiveDirtyRows
        /\ startRow \in Nat /\ consecutiveDirtyRows \in Nat
    BY <1>a, <2>1, FlagOfLine
  <2>3. Marks' = Marks
    BY <2>1 DEF Marks
  <2>4. ASSUME NEW row \in Rows, NEW text \in Texts, PrintUnderWay(row, text)
        PROVE  PrintUnderWay(row, text)'
    <3>1. Pos \in row * Pitch .. row * Pitch + FontHeight - 1
      BY <2>2, <2>4, RowsApart DEF PrintUnderWay
    <3>2. row * Pitch \in Nat /\ FontHeight \in Nat
      BY RowsApart, SizeAssumption
    <3>3. startRow = row * Pitch
      BY <2>2, <2>4, <3>1, <3>2 DEF PrintUnderWay
    <3>4. Pos' \in row * Pitch .. row * Pitch + FontHeight - 1 \/ Pos' = row * Pitch + FontHeight
      BY <1>b, <2>1, <2>2, <3>1, <3>2
    <3>5. startRow' = row * Pitch /\ Pos' \in RowLines(row) \cup {row * Pitch + FontHeight}
      BY <2>1, <3>3, <3>4, RowsApart
    <3> QED BY <2>1, <2>3, <2>4, <3>5 DEF PrintUnderWay
  <2>5. InOneTransfer'
    BY <1>a, <2>1, <2>2, <2>4 DEF InOneTransfer, AllShown
  <2>6. ScreenShown' = ScreenShown
    BY <2>1, <2>2, SameLinesSameRows
  <2> QED BY <2>5, <2>6
<1>4. CASE DrawSeries
  <2>1. /\ Scanning /\ 0 \notin dirtyFlags /\ consecutiveDirtyRows > 0
        /\ sl_memlcd_draw(startRow, consecutiveDirtyRows)
        /\ UNCHANGED <<pc, framebuffer, dirtyRows>>
    BY <1>4 DEF DrawSeries
  <2>2. pc = "scan" /\ pc' = "scan" /\ Pos \notin Marks
    BY <1>a, <2>1, FlagOfLine
  <2> QED BY <2>1, <2>2, SeriesIsRow DEF InOneTransfer
<1>5. CASE PassCleanLine
  <2>1. /\ Scanning /\ 0 \notin dirtyFlags /\ startRow' = startRow + 1
        /\ consecutiveDirtyRows = 0 /\ consecutiveDirtyRows' = consecutiveDirtyRows
        /\ UNCHANGED <<pc, framebuffer, panel, dirtyRows>>
    BY <1>5 DEF PassCleanLine
  <2>2. /\ pc = "scan" /\ pc' = "scan" /\ Pos \notin Marks /\ Pos = startRow + consecutiveDirtyRows
        /\ startRow \in Nat
    BY <1>a, <2>1, FlagOfLine
  <2>3. Marks' = Marks
    BY <2>1 DEF Marks
  <2>4. ASSUME NEW row \in Rows, NEW text \in Texts, PrintUnderWay(row, text)
        PROVE  PrintUnderWay(row, text)'
    <3>1. Pos = startRow /\ row * Pitch \in RowLines(row) /\ row * Pitch \in Nat
      BY <2>1, <2>2, RowsApart
    <3>2. startRow <= row * Pitch /\ startRow # row * Pitch
      BY <2>2, <2>4, <3>1 DEF PrintUnderWay
    <3>3. startRow' <= row * Pitch /\ consecutiveDirtyRows' = 0
      BY <2>1, <2>2, <3>1, <3>2
    <3> QED BY <2>1, <2>3, <2>4, <3>3 DEF PrintUnderWay
  <2>5. InOneTransfer'
    BY <1>a, <2>1, <2>2, <2>4 DEF InOneTransfer, AllShown
  <2>6. ScreenShown' = ScreenShown
    BY <2>1, <2>2, SameLinesSameRows
  <2> QED BY <2>5, <2>6
<1>6. CASE EndUpdate
  <2>1. /\ pc = "scan" /\ ~Scanning /\ pc' = "idle" /\ framebuffer' = framebuffer
        /\ sl_memlcd_draw(startRow, consecutiveDirtyRows)
        /\ dirtyRows' = [w \in Words |-> {}]
    BY <1>6 DEF EndUpdate, DrawRest
  <2>2. Pos \notin Marks
    <3>1. Height \in Nat /\ Pos \in Nat /\ ~(Pos < Height)
      BY <1>a, <2>1, SizeAssumption DEF DisplayInv, Types, Scanning, Pos
    <3>2. Pos \notin Lines
      BY <3>1 DEF Lines
    <3> QED BY <3>2 DEF Marks
  <2>3. Marks' = {}
    BY <2>1, LineHasBit DEF Marks
  <2>4. InOneTransfer'
    BY <1>a, <2>1, <2>3 DEF InOneTransfer, AllShown, DisplayInv, CleanLinesShown
  <2> QED BY <2>1, <2>2, <2>4, SeriesIsRow
<1>7. CASE UNCHANGED vars
  <2>1. UNCHANGED <<pc, framebuffer, panel, dirtyRows, startRow, consecutiveDirtyRows>>
    BY <1>7 DEF vars, scanVars
  <2>2. InOneTransfer'
    BY <1>a, <2>1 DEF InOneTransfer, AllShown, PrintUnderWay, Marks, Pos
  <2>3. ScreenShown' = ScreenShown
    BY <2>1 DEF ScreenShown, Shown
  <2> QED BY <2>2, <2>3
<1> QED BY <1>1, <1>2, <1>3, <1>4, <1>5, <1>6, <1>7 DEF Next

\* The display implements Screen for every size of panel, rows and words of flags:
\* a row goes from one text to the next in one step and shows it whole, centred and
\* cut, and no other row changes (displayPrintf, DMD_updateDisplay).
THEOREM ScreenIsKept == Spec => ScreenKept
<1>1. Init => TransferInv /\ S!Init
  <2> SUFFICES ASSUME Init PROVE TransferInv /\ S!Init OBVIOUS
  <2>1. DisplayInv /\ pc = "off"
    BY InitInv DEF Init
  <2>2. TransferInv
    BY <2>1 DEF TransferInv, InOneTransfer
  <2>3. S!Blanks(2 * RowLen) = [i \in 1..2 * RowLen |-> White]
    BY DEF S!Blanks, S!Blank, White
  <2>4. S!Init
    BY <2>1, <2>3 DEF S!Init
  <2> QED BY <2>2, <2>4
<1>2. TransferInv /\ [Next]_vars => TransferInv'
  BY StepInv, StepTransfer DEF TransferInv
<1>3. TransferInv /\ [Next]_vars => [S!Next]_ScreenShown
  BY StepTransfer DEF S!Next, S!Write, ScreenShown
<1> QED BY <1>1, <1>2, <1>3, PTL DEF Spec, ScreenKept, S!Spec, ScreenShown

=============================================================================
