-------------------------------- MODULE Display --------------------------------
(***************************************************************************)
(* The LCD below displayPrintf(): lcd.c, the string drawing of GLIB and    *)
(* the DMD driver of the memory LCD. GLIB draws characters into a frame    *)
(* buffer and marks the lines it touches; DMD_updateDisplay() goes through *)
(* the marks, kept in words of WordBits bits, and sends each series of     *)
(* marked lines to the panel in one transfer.                              *)
(*                                                                         *)
(* A line is modelled by its half characters: a text one character shorter *)
(* begins half a character further right. The few pixels left and right of *)
(* a full row, which nothing draws, are left out, and so are the pixels of *)
(* a character. EXTCOMIN is driven apart from all this.                    *)
(***************************************************************************)
EXTENDS Naturals, Sequences

CONSTANTS
  Texts,        \* what is printed: sequences of printable characters
  RowLen,       \* DISPLAY_ROW_LEN
  NumberOfRows, \* DISPLAY_NUMBER_OF_ROWS
  FontHeight,   \* lines of a character
  LineSpacing,  \* lines between two rows
  Height,       \* lines of the panel
  WordBits      \* bits of a word of dirty flags

Space == " "
Pitch == FontHeight + LineSpacing
Rows  == 0..NumberOfRows - 1
Lines == 0..Height - 1

ASSUME SizeAssumption ==
  /\ {RowLen, NumberOfRows, FontHeight, LineSpacing, Height, WordBits} \subseteq Nat
  /\ RowLen > 0 /\ FontHeight > 0 /\ NumberOfRows > 0 /\ WordBits > 0
ASSUME RowsFit    == (NumberOfRows - 1) * Pitch + FontHeight <= Height
ASSUME WholeWords == Height % WordBits = 0

VARIABLES
  pc,                   \* "off", "idle", or "scan" in DMD_updateDisplay()
  framebuffer, panel,   \* by line and half character
  dirtyRows,            \* words of dirty flags, each the set of its bits
  startRow, consecutiveDirtyRows, dirtyFlags, dirtyWordCnt

scanVars == <<startRow, consecutiveDirtyRows, dirtyFlags, dirtyWordCnt>>
vars == <<pc, framebuffer, panel, dirtyRows, scanVars>>

-----------------------------------------------------------------------------
Chars   == {Space} \cup UNION {{text[i] : i \in DOMAIN text} : text \in Texts}
ASSUME TextAssumption == Texts \subseteq Seq(Chars)

Columns == 0..2 * RowLen - 1
Bits    == 0..WordBits - 1
Words   == 0..Height \div WordBits - 1

White == <<Space, "left">>
Black == <<"black", "left">>
Cells == (Chars \X {"left", "right"}) \cup {Black}

Plain(cell) == [l \in Lines |-> [c \in Columns |-> cell]]

TypeOK ==
  /\ pc \in {"off", "idle", "scan"}
  /\ framebuffer \in [Lines -> [Columns -> Cells]]
  /\ panel \in [Lines -> [Columns -> Cells]]
  /\ dirtyRows \in [Words -> SUBSET Bits]
  /\ startRow \in 0..Height /\ consecutiveDirtyRows \in 0..Height
  /\ dirtyFlags \subseteq Bits
  /\ dirtyWordCnt \in 0..Height \div WordBits + 1

\* The frame buffer is zero after reset, which is black; the panel keeps what it
\* showed before.
Init ==
  /\ pc = "off"
  /\ framebuffer = Plain(Black)
  /\ panel \in {Plain(White), Plain(Black)}
  /\ dirtyRows = [w \in Words |-> {}]
  /\ startRow = 0 /\ consecutiveDirtyRows = 0
  /\ dirtyFlags = {} /\ dirtyWordCnt = 0

-----------------------------------------------------------------------------
(* Drawing into the frame buffer.                                          *)

\* setLineDirty(), for every line of a set.
Marked(rows, lines) ==
  [w \in Words |-> rows[w] \cup {b \in Bits : w * WordBits + b \in lines}]

\* A character draws the background too (opaque), a space nothing else.
Glyph(char, side) == IF char = Space THEN White ELSE <<char, side>>

\* GLIB_ALIGN_CENTER: half of what the text leaves of the width, in half characters.
Centre(text) == RowLen - Len(text)

\* The lines of a row.
RowLines(row) == row * Pitch .. row * Pitch + FontHeight - 1

\* GLIB_drawStringOnLine(), opaque: only the cells of the characters are drawn.
Drawn(buffer, row, text) ==
  [l \in Lines |-> [c \in Columns |->
     LET i == c - Centre(text) IN
     IF l \in RowLines(row) /\ c >= Centre(text) /\ i < 2 * Len(text)
     THEN Glyph(text[i \div 2 + 1], IF i % 2 = 0 THEN "left" ELSE "right")
     ELSE buffer[l][c]]]

Min2(a, b) == IF a < b THEN a ELSE b

\* vsnprintf() into RowLen + 1 bytes, and a space for an empty text.
strToDisplay(text) ==
  IF text = <<>> THEN <<Space>> ELSE SubSeq(text, 1, Min2(Len(text), RowLen))

\* Mutant: the line is erased one character short.
strToEraseShort == [i \in 1..RowLen - 1 |-> Space]

strToErase == [i \in 1..RowLen |-> Space]

-----------------------------------------------------------------------------
(* DMD_updateDisplay(): begins, one pass of its loop, ends.                *)

\* Mutant: the first word fetched is taken for the second.
BeginUpdateWordTwo ==
  /\ pc' = "scan"
  /\ startRow' = 0
  /\ consecutiveDirtyRows' = 0
  /\ dirtyFlags' = dirtyRows'[0]
  /\ dirtyWordCnt' = 2

BeginUpdate ==
  /\ pc' = "scan"
  /\ startRow' = 0
  /\ consecutiveDirtyRows' = 0
  /\ dirtyFlags' = dirtyRows'[0]
  /\ dirtyWordCnt' = 1

\* Mutant: the next word is fetched one line late.
NextFlagsLate ==
  IF (startRow' + consecutiveDirtyRows') % WordBits # 1
  THEN /\ dirtyFlags' = {b \in Bits : b + 1 \in dirtyFlags}
       /\ UNCHANGED dirtyWordCnt
  ELSE /\ \/ dirtyWordCnt \in Words /\ dirtyFlags' = dirtyRows[dirtyWordCnt]
          \/ dirtyWordCnt \notin Words /\ dirtyFlags' \in SUBSET Bits
       /\ dirtyWordCnt' = dirtyWordCnt + 1

\* The flags are shifted down, or the next word is fetched. Behind the last line
\* that is a word beyond dirtyRows, whatever is there.
NextFlags ==
  IF (startRow' + consecutiveDirtyRows') % WordBits # 0
  THEN /\ dirtyFlags' = {b \in Bits : b + 1 \in dirtyFlags}
       /\ UNCHANGED dirtyWordCnt
  ELSE /\ \/ dirtyWordCnt \in Words /\ dirtyFlags' = dirtyRows[dirtyWordCnt]
          \/ dirtyWordCnt \notin Words /\ dirtyFlags' \in SUBSET Bits
       /\ dirtyWordCnt' = dirtyWordCnt + 1

Scanning == pc = "scan" /\ startRow + consecutiveDirtyRows < Height

\* sl_memlcd_draw(): lines first .. first + count - 1 in one transfer.
sl_memlcd_draw(first, count) ==
  panel' = [l \in Lines |-> IF l \in first .. first + count - 1
                            THEN framebuffer[l] ELSE panel[l]]

PassDirtyLine ==
  /\ Scanning
  /\ 0 \in dirtyFlags
  /\ consecutiveDirtyRows' = consecutiveDirtyRows + 1
  /\ UNCHANGED <<pc, framebuffer, panel, dirtyRows, startRow>>
  /\ NextFlags

DrawSeries ==
  /\ Scanning
  /\ 0 \notin dirtyFlags /\ consecutiveDirtyRows > 0
  /\ sl_memlcd_draw(startRow, consecutiveDirtyRows)
  /\ startRow' = startRow + consecutiveDirtyRows + 1
  /\ consecutiveDirtyRows' = 0
  /\ NextFlags
  /\ UNCHANGED <<pc, framebuffer, dirtyRows>>

PassCleanLine ==
  /\ Scanning
  /\ 0 \notin dirtyFlags /\ consecutiveDirtyRows = 0
  /\ startRow' = startRow + 1
  /\ UNCHANGED <<pc, framebuffer, panel, dirtyRows, consecutiveDirtyRows>>
  /\ NextFlags

\* A series that reaches the last line is drawn after the loop.
DrawRest == sl_memlcd_draw(startRow, consecutiveDirtyRows)

EndUpdate ==
  /\ pc = "scan" /\ ~Scanning
  /\ DrawRest
  /\ dirtyRows' = [w \in Words |-> {}]
  /\ pc' = "idle"
  /\ UNCHANGED <<framebuffer, scanVars>>

-----------------------------------------------------------------------------
(* What the application calls. Both wait for the panel.                    *)

\* displayInit(): the driver clears the panel, GLIB_clear() the frame buffer.
displayInit ==
  /\ pc = "off"
  /\ panel' = Plain(White)
  /\ framebuffer' = Plain(White)
  /\ dirtyRows' = [w \in Words |-> Bits]
  /\ BeginUpdate

\* displayPrintf(): the row is erased, then the text drawn.
displayPrintf(row, text) ==
  /\ pc = "idle"
  /\ row < NumberOfRows
  /\ framebuffer' = Drawn(Drawn(framebuffer, row, strToErase), row, strToDisplay(text))
  /\ dirtyRows' = Marked(dirtyRows, RowLines(row))
  /\ BeginUpdate
  /\ UNCHANGED panel

Next ==
  \/ displayInit
  \/ \E row \in Rows, text \in Texts : displayPrintf(row, text)
  \/ PassDirtyLine
  \/ DrawSeries
  \/ PassCleanLine
  \/ EndUpdate

Spec == Init /\ [][Next]_vars

-----------------------------------------------------------------------------
(* Properties.                                                             *)

\* A line is what the frame buffer says unless it is marked, at every step of an
\* update: no mark is cleared before its line was sent, in whatever word it lies.
Marks == {l \in Lines : l % WordBits \in dirtyRows[l \div WordBits]}
CleanLinesShown == pc # "off" => \A l \in Lines \ Marks : panel[l] = framebuffer[l]

\* What a row of the panel shows; torn if its lines disagree.
Shown(row) ==
  IF \A l \in RowLines(row) : panel[l] = panel[row * Pitch]
  THEN [i \in 1..2 * RowLen |-> panel[row * Pitch][i - 1]]
  ELSE <<"torn">>

\* The display implements Screen: a row shows the last text whole and nothing of the
\* one before, whatever their lengths, changes in one transfer although its lines lie
\* in two words of flags, and leaves the other rows alone (displayPrintf,
\* DMD_updateDisplay).
S == INSTANCE Screen WITH
  shown <- IF pc = "off" THEN [r \in Rows |-> [i \in 1..2 * RowLen |-> White]]
                         ELSE [r \in Rows |-> Shown(r)]

ScreenKept == S!Spec

=============================================================================
