--------------------------- MODULE AttachmentPolicy ---------------------------
(***************************************************************************)
(* What attachment_policy.py and the parsers make of an attachment.  Bytes *)
(* are abstracted to what the policy looks at:                             *)
(*   magic   the leading signature                                         *)
(*   size    length, in units of which MaxBytes are allowed                *)
(*   names   what a ZIP directory holds, of the parts the policy knows     *)
(*   bounds  the first bound of the ZIP inventory its entries exceed       *)
(*   marks   findings inside: an /Encrypt entry or HTML in a PDF's prefix, *)
(*           a bad JPEG marker, undecodable text, an external relationship *)
(*           or a macro content type in an XLSX                            *)
(*   inside  what a parser of the right kind finds                         *)
(* Every check is a set of problems in the order they are found; an        *)
(* operator returns the first, Fine when there is none.                    *)
(***************************************************************************)
EXTENDS Naturals

CONSTANT MaxBytes

ASSUME MaxBytesAssumption == MaxBytes \in Nat \ {0}

Kinds == {"pdf", "docx", "jpeg", "png", "txt", "xlsx"}
Images == {"jpeg", "png"}

Fine == "fine"
Unsupported == "unsupported"
Exceeds == "exceeds_limit"
Invalid == "invalid_content"

Magics == {"pdf", "jpeg", "png", "zip", "hostile", "text"}
Names == {"types", "document", "workbook", "vba", "encryption", "links", "connections"}
Bounds == {"within", "docx_entries", "entries", "part", "total", "ratio", "odd_name", "traversal",
           "not_zip"}
Marks == {"encrypt", "html", "bad_marker", "undecodable", "external", "macro_type"}
Insides == {"blank", "short", "long", "locked", "huge", "broken"}
Bytes == [magic : Magics, size : Nat, names : SUBSET Names, bounds : Bounds,
          marks : SUBSET Marks, inside : Insides]

(* The kind an extension or a media type stands for, "other" for none; some *)
(* extensions are rejected whatever the media type says.                    *)
Extensions == Kinds \cup {"rejected", "other"}
MediaTypes == Kinds \cup {"other"}
Metadata == [extension : Extensions, media : MediaTypes, size : Nat]

-----------------------------------------------------------------------------
(* Declared kind *)

Declared(m) ==
  IF m.extension \in Kinds /\ m.media = m.extension THEN m.extension ELSE Unsupported

EvaluateMetadata(m) ==
  IF m.size = 0 THEN Unsupported
  ELSE IF m.size > MaxBytes THEN Exceeds
  ELSE Declared(m)

-----------------------------------------------------------------------------
(* ZIP inventory, with the bounds of the two container kinds *)

DocxInventory(b) ==
  IF b.magic # "zip" \/ b.bounds \in {"docx_entries", "entries", "traversal", "not_zip"} THEN Unsupported
  ELSE IF b.bounds \in {"part", "total"} THEN Exceeds
  ELSE Fine

XlsxInventory(b) ==
  IF b.magic # "zip" \/ b.bounds \in {"entries", "ratio", "odd_name", "traversal", "not_zip"} THEN Unsupported
  ELSE IF b.bounds \in {"part", "total"} THEN Exceeds
  ELSE Fine

LooksLikeDocx(b) ==
  DocxInventory(b) = Fine /\ {"types", "document"} \subseteq b.names /\ "workbook" \notin b.names

LooksLikeXlsx(b) ==
  XlsxInventory(b) = Fine /\ {"types", "workbook"} \subseteq b.names /\ "document" \notin b.names

LooksLikeText(b) == b.magic = "text" /\ "undecodable" \notin b.marks

(* The unique kind of the bytes. *)
Detected(b) ==
  IF b.magic \in {"pdf", "jpeg", "png"} THEN b.magic
  ELSE IF LooksLikeDocx(b) THEN "docx"
  ELSE IF LooksLikeXlsx(b) THEN "xlsx"
  ELSE IF LooksLikeText(b) THEN "txt"
  ELSE Unsupported

DocxContainer(b) ==
  IF DocxInventory(b) # Fine THEN DocxInventory(b)
  ELSE IF b.names \cap {"vba", "encryption"} # {} THEN Unsupported
  ELSE IF {"types", "document"} \subseteq b.names THEN Fine ELSE Unsupported

XlsxContainer(b) ==
  IF XlsxInventory(b) # Fine THEN XlsxInventory(b)
  ELSE IF b.names \cap {"vba", "encryption", "document", "links", "connections"} # {} THEN Unsupported
  ELSE IF ~({"types", "workbook"} \subseteq b.names) THEN Unsupported
  ELSE IF b.marks \cap {"external", "macro_type"} # {} THEN Unsupported
  ELSE Fine

PdfPrefix(b) == IF b.marks \cap {"encrypt", "html"} # {} THEN Unsupported ELSE Fine

JpegPayload(b) == IF "bad_marker" \in b.marks THEN Unsupported ELSE Fine

Container(kind, b) ==
  CASE kind = "docx" -> DocxContainer(b)
    [] kind = "xlsx" -> XlsxContainer(b)
    [] kind = "pdf" -> PdfPrefix(b)
    [] kind = "jpeg" -> JpegPayload(b)
    [] OTHER -> Fine

(* Size of what was retrieved, against the limit and against what the      *)
(* metadata that came with it reported.                                    *)
ContentSize(m, b) ==
  IF b.size = 0 THEN Unsupported
  ELSE IF b.size > MaxBytes \/ m.size > MaxBytes THEN Exceeds
  ELSE IF b.size > m.size THEN Invalid
  ELSE Fine

(* Size, declared against detected kind, container. *)
EvaluateContent(m, b) ==
  IF ContentSize(m, b) # Fine THEN ContentSize(m, b)
  ELSE IF Declared(m) \notin Kinds \/ Detected(b) # Declared(m) THEN Unsupported
  ELSE IF Container(Declared(m), b) # Fine THEN Container(Declared(m), b)
  ELSE Declared(m)

-----------------------------------------------------------------------------
(* Parsers, of bytes of their kind: what they raise, Fine when they return *)

PdfError(b) ==
  CASE b.inside = "broken" -> "parse" [] b.inside = "locked" -> "encrypted"
    [] b.inside = "huge" -> Exceeds [] b.inside = "blank" -> "no_text" [] OTHER -> Fine

DocxError(b) ==
  CASE b.inside \in {"broken", "locked", "huge"} -> "parse"
    [] b.inside = "blank" -> "no_text" [] OTHER -> Fine

TextError(b) == IF b.inside = "blank" THEN "no_text" ELSE Fine

XlsxError(b) ==
  CASE b.inside \in {"broken", "locked", "huge"} -> "parse"
    [] b.inside = "blank" -> "no_text" [] OTHER -> Fine

ImageError(b) ==
  CASE b.inside \in {"broken", "locked"} -> "parse" [] b.inside = "huge" -> Exceeds [] OTHER -> Fine

ParseError(kind, b) ==
  IF Detected(b) # kind THEN Unsupported
  ELSE CASE kind = "pdf" -> PdfError(b)
         [] kind = "docx" -> DocxError(b)
         [] kind = "txt" -> TextError(b)
         [] kind = "xlsx" -> XlsxError(b)
         [] kind \in Images -> ImageError(b)

(* Text beyond the bound of the extraction is cut off. *)
Truncates(kind, b) == kind \notin Images /\ b.inside = "long"
=============================================================================
