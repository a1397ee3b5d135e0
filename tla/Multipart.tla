------------------------------ MODULE Multipart ------------------------------
(* An upload's body as busboy's events reach lib/parseMultipart.js: text      *)
(* fields and files in any order, whole or too long, in a body that ends, is  *)
(* malformed or breaks off.  The promise settles once; busboy reads on.       *)
EXTENDS Naturals, Sequences, FiniteSets, SequencesExt

CONSTANTS
  Allowed, Names,     \* the fields a handler allows, and those a client sends
  FileSizes, FieldSizes,       \* sizes a client sends
  MaxFileSize, MaxFieldSize,   \* MAX_FILE_BYTES, MAX_FIELD_BYTES
  Overhead,           \* MULTIPART_OVERHEAD_BYTES; a part's headers count as 1
  MaxParts            \* bound

ASSUME MultipartAssumption ==
  /\ IsFiniteSet(Allowed)
  /\ {MaxFileSize, MaxFieldSize, Overhead, MaxParts} \cup FileSizes \cup FieldSizes \subseteq Nat

VARIABLES
  parts, last,     \* of the request's body, and how it ends
  at,              \* how many parts busboy has read
  fields, file,    \* collected so far: names, and the part of the file
  counted,         \* fields and files busboy has counted against its limits
  settled          \* "none", "accepted" or the error key

multipartVars == <<parts, last, at, fields, file, counted, settled>>

Parts == [kind : {"field"}, name : Names, size : FieldSizes]
           \cup [kind : {"file"}, name : {"file"}, size : FileSizes]

Length == FoldLeft(LAMBDA sum, part : sum + part.size + 1, 1, parts)

(* What is refused before the stream: a declared length, a Content-Type      *)
(* busboy cannot use, no body.                                               *)
Shortcut(declared, typed) ==
  CASE declared /\ Length > MaxFileSize + Overhead -> "errors.fileSize"
    [] ~typed -> "errors.invalidUpload"
    [] parts = <<>> -> "errors.noFile"
    [] OTHER -> "none"

MultipartInit ==
  /\ parts \in UNION {[1..n -> Parts] : n \in 0..MaxParts} /\ last \in {"end", "malformed", "aborted"}
  /\ at = 0 /\ fields = {} /\ file = 0 /\ counted = [fields |-> 0, files |-> 0]
  /\ \E declared, typed \in BOOLEAN : settled = Shortcut(declared, typed)

(* A promise settles once.                                                   *)
SettledBy(result) == IF settled = "none" THEN result ELSE settled

(* busboy cuts on reaching its limit, which is one past what is allowed.     *)
Cut(size, max) == size >= max + 1

NextPart == parts[at + 1]
Comes(kind) == settled = "none" /\ at < Len(parts) /\ NextPart.kind = kind /\ at' = at + 1

\* Mutant: a field may come again.
FieldFitsAgain(field) == field.name \in Allowed /\ ~Cut(field.size, MaxFieldSize)
FieldFits(field) == field.name \in Allowed /\ field.name \notin fields /\ ~Cut(field.size, MaxFieldSize)

(* Past the limit busboy says so instead of passing the field on.            *)
ReadField ==
  /\ Comes("field")
  /\ IF counted.fields < Cardinality(Allowed) /\ FieldFits(NextPart)
     THEN fields' = fields \cup {NextPart.name} /\ UNCHANGED settled
     ELSE settled' = SettledBy("errors.invalidUpload") /\ UNCHANGED fields
  /\ counted' = [counted EXCEPT !.fields = @ + 1] /\ UNCHANGED <<parts, last, file>>

(* The first file; the end of one that was cut is passed on as well.         *)
ReadFile ==
  /\ Comes("file")
  /\ file' = IF counted.files = 0 THEN at + 1 ELSE file
  /\ settled' = IF counted.files = 0 /\ Cut(NextPart.size, MaxFileSize)
                THEN SettledBy("errors.fileSize") ELSE settled
  /\ counted' = [counted EXCEPT !.files = @ + 1] /\ UNCHANGED <<parts, last, fields>>

ReadEnd ==
  /\ settled = "none" /\ at = Len(parts)
  /\ settled' = SettledBy(CASE last # "end" -> "errors.invalidUpload"
                            [] file = 0 -> "errors.noFile"
                            [] OTHER -> "accepted")
  /\ UNCHANGED <<parts, last, at, fields, file, counted>>

MultipartNext == ReadField \/ ReadFile \/ ReadEnd

-----------------------------------------------------------------------------

OfKind(kind) == {i \in DOMAIN parts : parts[i].kind = kind}
WellMeant ==
  /\ \A i \in OfKind("field") : parts[i].name \in Allowed /\ parts[i].size <= MaxFieldSize
  /\ \A i, j \in OfKind("field") : parts[i].name = parts[j].name => i = j
  /\ last = "end"

(* What is accepted is a whole file, the first one, with every field of the  *)
(* body, each allowed, once and whole, wherever it stood.                    *)
AcceptedIsWhole ==
  settled = "accepted" =>
    /\ WellMeant /\ fields = {parts[i].name : i \in OfKind("field")}
    /\ file = Min(OfKind("file")) /\ parts[file].size <= MaxFileSize

(* A body that is well meant, with one file within its limit and values of a *)
(* tour, is not refused for anything in it, at the limit itself neither.     *)
GoodIsNotRefused ==
  WellMeant /\ Cardinality(OfKind("file")) = 1 /\ (\A i \in OfKind("file") : parts[i].size <= MaxFileSize) =>
    settled \in {"none", "accepted"} \/ (at = 0 /\ settled = "errors.invalidUpload")

(* A body is taken whole or refused for a reason it gives (parseMultipart.js). *)
WholeOrRefused == AcceptedIsWhole /\ GoodIsNotRefused

=============================================================================
