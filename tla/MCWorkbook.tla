------------------------------- MODULE MCWorkbook -------------------------------
(* Small workbooks for TLC. *)
EXTENDS Workbook, SequencesExt

(* Workbooks of sheets that are wide, tall, with long texts, as large as allowed, empty  *)
(* and small, that declare their dimensions; one that declares none, and    *)
(* one that declares too few.                                               *)
Sheet(rows, r, c) == [rows |-> rows, max_row |-> r, max_column |-> c]
Wide == <<<<1, 1, 1>>>>
Tall == <<<<1>>, <<0, 1>>, <<1>>>>
DeclaredSheets ==
  {Sheet(Wide, 1, 3), Sheet(Tall, 3, 2), Sheet(<<<<3, 1>>, <<>>>>, 2, 2),
   Sheet(<<<<1, 0>>, <<2, 1>>>>, 2, 2), Sheet(<<>>, 0, 0), Sheet(<<<<1>>>>, 1, 1)}
SomeWorkbooks == SeqOf(DeclaredSheets \cup {Sheet(Tall, Undeclared, Undeclared), Sheet(Wide, 1, 1)}, 3)
(* For the run that looks at worksheets without dimensions. *)
UndeclaredWorkbooks == SeqOf({Sheet(Tall, Undeclared, Undeclared)}, 1)
=============================================================================
