--------------------------- MODULE MCMailboxReading ---------------------------
(* Five attachments: one of each way a file can be read, and two that must  *)
(* not be: a workbook with a macro, a file larger than its metadata says.    *)
EXTENDS MailboxReading

Meta(kind, size) == [extension |-> kind, media |-> kind, size |-> size]
Content(magic, size, names, inside) ==
  [magic |-> magic, size |-> size, names |-> names, bounds |-> "within", marks |-> {},
   inside |-> inside]

Workbook == {"types", "workbook"}
SomeFiles ==
  {[metadata |-> Meta("pdf", 1), bytes |-> Content("pdf", 1, {}, "long")],
   [metadata |-> Meta("jpeg", 2), bytes |-> Content("jpeg", 2, {}, "short")],
   [metadata |-> Meta("xlsx", 1), bytes |-> Content("zip", 1, Workbook, "long")],
   [metadata |-> Meta("xlsx", 1), bytes |-> Content("zip", 1, Workbook \cup {"vba"}, "short")],
   [metadata |-> Meta("xlsx", 3), bytes |-> Content("hostile", 3, {}, "broken")]}
=============================================================================
