------------------------------- MODULE MimeTypes -------------------------------
(* detect_mime_type: std::lower_bound over the table of extensions. An         *)
(* extension is its place in the byte order of strings: the 55 extensions of   *)
(* the table have the even numbers, what lies between them the odd ones.       *)
EXTENDS Integers, Sequences

Extensions == 1 .. 111

\* The table as it stands in the source: ".avif" (6) comes before ".avi" (4),
\* every other row is in order.
MIME_TABLE == [row \in 1 .. 55 |-> CASE row = 2 -> 6 [] row = 3 -> 4 [] OTHER -> 2 * row]

FALLBACK_MIME == 0

\* A file without an extension.
NoExtension == 0

\* Mutant: the search steps past a row that is equal to the key.
PastEqual(row, key) == MIME_TABLE[row] <= key

\* The comparison the search is given.
Before(row, key) == MIME_TABLE[row] < key

\* One round of std::lower_bound: `len` rows are still open after the `first`
\* rows it has stepped past.
Halve(at, key) ==
  LET half == at.len \div 2
      mid == at.first + half + 1
  IN CASE at.len = 0 -> at
       [] at.len > 0 /\ Before(mid, key) -> [first |-> mid, len |-> at.len - half - 1]
       [] OTHER -> [at EXCEPT !.len = half]

\* std::lower_bound on the table: the number of rows it steps past. It needs no
\* more rounds than there are rows.
LowerBound(key) ==
  LET rows == Len(MIME_TABLE)
      at[n \in 0 .. rows] ==
        IF n = 0 THEN [first |-> 0, len |-> rows] ELSE Halve(at[n - 1], key)
  IN at[rows].first

\* The type of a file with this extension: the row found, or the fallback.
DetectMimeType(ext) ==
  LET row == LowerBound(ext) + 1
  IN IF ext # NoExtension /\ row \in DOMAIN MIME_TABLE /\ MIME_TABLE[row] = ext
     THEN ext ELSE FALLBACK_MIME

\* A row is in place when no greater extension stands above it.
InPlace(row) == \A above \in 1 .. row - 1 : MIME_TABLE[above] < MIME_TABLE[row]
================================================================================
