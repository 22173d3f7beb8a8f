------------------------------- MODULE Layout -------------------------------
(***************************************************************************)
(* The widths of what pcitop prints (src/src/pcitop.c, build_banner and    *)
(* measure_utilization).  A column is a record: slots, the numbers printed *)
(* in its row of slots, and last, whether its bridge is the last of        *)
(* host_lba_list.                                                          *)
(***************************************************************************)
EXTENDS Integers, Sequences, SequencesExt

COLUMN_SEP_WIDTH    == 2
COLUMN_HEADER_WIDTH == 6
COLUMN_DATA_WIDTH   == 16
NUM_BANNER_ROWS     == 7

LINE_WIDTH(lbas) ==
  COLUMN_HEADER_WIDTH + COLUMN_SEP_WIDTH + lbas * COLUMN_DATA_WIDTH
    + (lbas - 1) * COLUMN_SEP_WIDTH

\* The characters of several pieces.
Total(widths) == FoldLeft(LAMBDA sum, w : sum + w, 0, widths)

\* The characters that "%d" prints.
Width(n) == IF n < 0 THEN 2 ELSE IF n < 10 THEN 1 ELSE IF n < 100 THEN 2 ELSE 3

\* The characters that sprintf(p, "%*s", w, " ") prints: at least the blank,
\* and -w when w is negative.
Blanks(w) == Max({1, w, -w})

Separator(col) == IF col.last THEN 0 ELSE COLUMN_SEP_WIDTH

\* A cell of the rows bridge, type, speed and ropes, whose texts are no wider
\* than a column.
TextCell(col) == COLUMN_DATA_WIDTH + Separator(col)

\* A cell of the row of slots: "n/a", or the numbers with ", " in between.
SlotsCell(col) ==
  LET tot_cnt == Total([i \in DOMAIN col.slots |-> Width(col.slots[i])])
                   + 2 * (Len(col.slots) - 1)
  IN  Separator(col) + IF col.slots = <<>> THEN COLUMN_DATA_WIDTH
                       ELSE tot_cnt + Blanks(COLUMN_DATA_WIDTH - tot_cnt)

FaultyResultCell(col, printed) ==      \* the "%" is not counted
  printed + 1 + Blanks(COLUMN_DATA_WIDTH + Separator(col) - 6)

\* A cell of a line of results: a number, "%" and blanks.  "%06.2f" prints six
\* characters or as many more as the number has.
RESULT_WIDTH == 6
ResultCell(col, printed) ==
  printed + 1 + Blanks(COLUMN_DATA_WIDTH + Separator(col) - 7)

Row(widths) == COLUMN_HEADER_WIDTH + COLUMN_SEP_WIDTH + Total(widths)
TextRow(cols)  == Row([i \in DOMAIN cols |-> TextCell(cols[i])])
SlotsRow(cols) == Row([i \in DOMAIN cols |-> SlotsCell(cols[i])])

\* The size that build_banner allocates for num_lbas columns.
BannerSize(num_lbas) == (LINE_WIDTH(num_lbas) + 1) * NUM_BANNER_ROWS + 1

\* The characters it stores: a line of dashes, the rows bridge, type, speed,
\* slots and ropes, each with its '\n', and a line of dashes.
BannerLength(cols, num_lbas) ==
  (LINE_WIDTH(num_lbas) + 1) + 4 * (TextRow(cols) + 1) + (SlotsRow(cols) + 1)
    + LINE_WIDTH(num_lbas)

\* line_results: its size, and what a line stores in it with the '\0' when
\* the results are printed in so many characters each.
LineSize(num_lbas) == LINE_WIDTH(num_lbas) + 1
LineLength(cols, printed) ==
  Row([i \in DOMAIN cols |-> ResultCell(cols[i], printed[i])]) + 1
=============================================================================
