-------------------------------- MODULE Workbook --------------------------------
(***************************************************************************)
(* The extraction of an XLSX attachment: sheets, rows and cells in order,  *)
(* cut at bounds on sheets, columns, rows, cells and characters.  What is  *)
(* cut off is told by a truncation flag, and the declared dimensions of a  *)
(* worksheet are the only hint at what lies beyond the rows and columns    *)
(* that are asked for.                                                     *)
(*                                                                         *)
(* A cell is the length of its text, 0 when blank.                         *)
(***************************************************************************)
EXTENDS Naturals, Sequences, FiniteSets

CONSTANTS
  Workbooks,     \* workbooks, sequences of sheets
  MaxSheets,     \* XLSX_MAX_SHEETS
  MaxColumns,    \* XLSX_MAX_COLUMNS_PER_SHEET
  MaxRows,       \* XLSX_MAX_DATA_ROWS_PER_SHEET
  MaxCells,      \* XLSX_MAX_TOTAL_CELLS
  MaxCellChars,  \* XLSX_MAX_CELL_CHARS
  MaxChars,      \* MAX_EXTRACTED_TEXT_CHARS
  Undeclared     \* the dimension of a worksheet that declares none

(* Rows as the file holds them, and the dimensions it declares. *)
Sheets == [rows : Seq(Seq(Nat)), max_row : Nat \cup {Undeclared},
           max_column : Nat \cup {Undeclared}]

ASSUME WorkbookAssumption ==
  /\ Workbooks \subseteq Seq(Sheets)
  /\ {MaxSheets, MaxColumns, MaxRows, MaxCells, MaxCellChars, MaxChars} \subseteq Nat
  /\ Undeclared \notin Nat

VARIABLES
  book,      \* the workbook
  at,        \* point of the extraction
  sheet,     \* number of the sheet, from 1
  row,       \* number of the row in the sheet
  column,    \* number of the cell in the row
  rendered,  \* texts of the row so far, as lengths
  width,     \* column of the last one that is not blank
  kept,      \* rows kept of the sheet, the first being its header
  handed,    \* texts in the rows kept of all sheets, each with its place
  cells,     \* cells_emitted
  chars,     \* characters_emitted
  reasons,   \* truncation_reasons of the workbook
  stop,      \* stop_workbook
  skipped,   \* sheets skipped
  parsed     \* what the parser returns

vars == <<book, at, sheet, row, column, rendered, width, kept, handed, cells, chars, reasons, stop,
          skipped, parsed>>

Nothing == [outcome |-> "none", truncated |-> FALSE, length |-> 0]

Init ==
  /\ book \in Workbooks
  /\ at = "sheet" /\ sheet = 1 /\ row = 1 /\ column = 1
  /\ rendered = <<>> /\ width = 0 /\ kept = <<>> /\ handed = {}
  /\ cells = 0 /\ chars = 0
  /\ reasons = IF Len(book) > MaxSheets THEN {"sheets"} ELSE {}
  /\ stop = FALSE /\ skipped = {}
  /\ parsed = Nothing

-----------------------------------------------------------------------------
Exceeds(declared, limit) == declared # Undeclared /\ declared > limit

(* Mutant: nothing is said of columns. *)
HintsOfRowsOnly(s) == {r \in {"rows"} : Exceeds(s.max_row, MaxRows + 1)}

Hints(s) == {r \in {"rows", "columns"} :
               \/ r = "rows" /\ Exceeds(s.max_row, MaxRows + 1)
               \/ r = "columns" /\ Exceeds(s.max_column, MaxColumns)}

Skips == stop \/ sheet > MaxSheets

SkipSheet ==
  /\ at = "sheet" /\ sheet <= Len(book) /\ Skips
  /\ skipped' = skipped \cup {sheet}
  /\ sheet' = sheet + 1
  /\ UNCHANGED <<book, at, row, column, rendered, width, kept, handed, cells, chars, reasons, stop,
                 parsed>>

BeginSheet ==
  /\ at = "sheet" /\ sheet <= Len(book) /\ ~Skips
  /\ reasons' = reasons \cup Hints(book[sheet])
  /\ at' = "row" /\ row' = 1 /\ kept' = <<>>
  /\ UNCHANGED <<book, sheet, column, rendered, width, handed, cells, chars, stop, skipped, parsed>>

(* The first bound that is used up: a check before every row and cell. *)
UsedUp ==
  IF cells >= MaxCells THEN {"cells"} ELSE IF chars >= MaxChars THEN {"characters"} ELSE {}

Stop(point) ==
  /\ UsedUp # {}
  /\ reasons' = reasons \cup UsedUp
  /\ stop' = TRUE /\ at' = point

(* Worksheets are read lazily: broken XML shows at any row. *)
Break ==
  /\ at = "row" \/ (at = "sheet" /\ sheet <= Len(book))
  /\ at' = "done"
  /\ parsed' = [outcome |-> "parse_error", truncated |-> FALSE, length |-> 0]
  /\ UNCHANGED <<book, sheet, row, column, rendered, width, kept, handed, cells, chars, reasons,
                 stop, skipped>>

(* One header and MaxRows rows are asked for, MaxColumns cells of each. *)
RowsLeft == row <= Len(book[sheet].rows) /\ row <= MaxRows + 1
Text == IF column <= Len(book[sheet].rows[row]) THEN book[sheet].rows[row][column] ELSE 0

StopAtRow ==
  /\ at = "row" /\ ~stop /\ RowsLeft
  /\ Stop("end")
  /\ UNCHANGED <<book, sheet, row, column, rendered, width, kept, handed, cells, chars, skipped,
                 parsed>>

BeginRow ==
  /\ at = "row" /\ ~stop /\ RowsLeft /\ UsedUp = {}
  /\ at' = "cell" /\ column' = 1 /\ rendered' = <<>> /\ width' = 0
  /\ UNCHANGED <<book, sheet, row, kept, handed, cells, chars, reasons, stop, skipped, parsed>>

StopAtCell ==
  /\ at = "cell" /\ column <= MaxColumns
  /\ Stop("keep")
  /\ UNCHANGED <<book, sheet, row, column, rendered, width, kept, handed, cells, chars, skipped,
                 parsed>>

Least(i, j) == IF i < j THEN i ELSE j

(* Mutant: the text is not cut to what remains of the workbook's bound. *)
EmittedOfCell(length) == Least(length, MaxCellChars)

(* A text is cut to the bound of a cell, then to what remains. *)
Emitted(length) == Least(Least(length, MaxCellChars), MaxChars - chars)

Cell ==
  /\ at = "cell" /\ column <= MaxColumns /\ UsedUp = {}
  /\ rendered' = Append(rendered, Emitted(Text))
  /\ column' = column + 1
  /\ width' = IF Least(Text, MaxCellChars) = 0 THEN width ELSE column
  /\ cells' = IF Least(Text, MaxCellChars) = 0 THEN cells ELSE cells + 1
  /\ chars' = chars + Emitted(Text)
  /\ reasons' = reasons \cup {r \in {"cell_chars", "characters"} :
       \/ r = "cell_chars" /\ Text > MaxCellChars
       \/ r = "characters" /\ Least(Text, MaxCellChars) > MaxChars - chars}
  /\ stop' = (stop \/ Least(Text, MaxCellChars) > MaxChars - chars)
  /\ UNCHANGED <<book, at, sheet, row, kept, handed, skipped, parsed>>

EndRow ==
  /\ at = "cell" /\ column > MaxColumns
  /\ at' = "keep"
  /\ UNCHANGED <<book, sheet, row, column, rendered, width, kept, handed, cells, chars, reasons,
                 stop, skipped, parsed>>

HasValue == width > 0

TextsOfRow == {<<sheet, row, c, rendered[c]>> : c \in {c \in 1..width : rendered[c] > 0}}

(* A row without a value is left out, the blanks at the end of one are; the *)
(* first row kept is the header.                                            *)
KeepRow ==
  /\ at = "keep"
  /\ IF HasValue /\ Len(kept) > MaxRows
       THEN at' = "end" /\ reasons' = reasons \cup {"rows"} /\ UNCHANGED <<kept, handed>>
       ELSE /\ at' = "row" /\ UNCHANGED reasons
            /\ kept' = IF HasValue THEN Append(kept, SubSeq(rendered, 1, width)) ELSE kept
            /\ handed' = IF HasValue THEN handed \cup TextsOfRow ELSE handed
  /\ row' = row + 1
  /\ UNCHANGED <<book, sheet, column, rendered, width, cells, chars, stop, skipped, parsed>>

EndSheet ==
  /\ at = "end" \/ (at = "row" /\ (stop \/ ~RowsLeft))
  /\ at' = "sheet" /\ sheet' = sheet + 1
  /\ UNCHANGED <<book, row, column, rendered, width, kept, handed, cells, chars, reasons, stop,
                 skipped, parsed>>

(* No cell at all is an error.  The serialized text has headings besides    *)
(* what was emitted, and is cut once more.                                  *)
Finish ==
  /\ at = "sheet" /\ sheet > Len(book)
  /\ at' = "done"
  /\ \/ /\ cells = 0
        /\ parsed' = [outcome |-> "no_extractable_text", truncated |-> FALSE, length |-> 0]
        /\ reasons' = reasons \cup {r \in {"cells"} : stop}
     \/ /\ cells > 0
        /\ \E length \in (chars + 1)..MaxChars :
             parsed' = [outcome |-> "parsed", length |-> length,
                        truncated |-> stop \/ reasons # {}]
        /\ reasons' = reasons \cup {r \in {"cells"} : stop}
     \/ /\ cells > 0
        /\ parsed' = [outcome |-> "parsed", length |-> MaxChars, truncated |-> TRUE]
        /\ reasons' = reasons \cup {r \in {"cells"} : stop} \cup {"characters"}
  /\ UNCHANGED <<book, sheet, row, column, rendered, width, kept, handed, cells, chars, stop,
                 skipped>>

Next ==
  \/ SkipSheet \/ BeginSheet \/ Break \/ StopAtRow \/ BeginRow \/ StopAtCell \/ Cell
  \/ EndRow \/ KeepRow \/ EndSheet \/ Finish

Spec == Init /\ [][Next]_vars

-----------------------------------------------------------------------------
(* Properties *)

TypeOK ==
  /\ book \in Workbooks
  /\ at \in {"sheet", "row", "cell", "keep", "end", "done"}
  /\ {sheet, row, column, width, cells, chars} \subseteq Nat
  /\ rendered \in Seq(Nat) /\ kept \in Seq(Seq(Nat))
  /\ stop \in BOOLEAN
  /\ parsed.length \in Nat

(* Whatever the workbook declares or holds, what is kept of it stays within *)
(* the bounds: cells and characters over all its sheets, rows and columns   *)
(* of each, the texts handed on and the length of each of them, and the     *)
(* characters of the text that results.                                     *)
StaysBounded ==
  /\ cells <= MaxCells /\ chars <= MaxChars
  /\ Len(kept) <= MaxRows + 1
  /\ \A i \in DOMAIN kept : Len(kept[i]) <= MaxColumns
  /\ Cardinality(handed) <= MaxCells
  /\ \A text \in handed : text[4] <= MaxCellChars
  /\ parsed.length <= MaxChars

(* All texts of the workbook that are not blank, each with its place. *)
Texts ==
  UNION {UNION {{<<i, j, c, book[i].rows[j][c]>> :
                   c \in {c \in DOMAIN book[i].rows[j] : book[i].rows[j][c] > 0}} :
                j \in DOMAIN book[i].rows} :
         i \in DOMAIN book}
Complete == handed = Texts

(* The dimensions a worksheet declares, when it does, are at least its own. *)
DimensionsDeclared ==
  \A i \in DOMAIN book :
    LET s == book[i]
    IN /\ s.max_row # Undeclared /\ s.max_row >= Len(s.rows)
       /\ s.max_column # Undeclared
       /\ \A j \in DOMAIN s.rows : s.max_column >= Len(s.rows[j])

(* Of a workbook with true dimensions, either every text was handed on in   *)
(* full, or the result says that it was truncated.                          *)
NothingLostSilently ==
  parsed.outcome = "parsed" /\ DimensionsDeclared => parsed.truncated \/ Complete

(* phase_21b_report.md: "ParsedAttachment.truncated=true whenever sampling  *)
(* occurred".                                                               *)
TruncationIsTold == parsed.outcome = "parsed" => parsed.truncated \/ Complete
=============================================================================
