------------------------------ MODULE HttpResponse ------------------------------
(* The fields of HttpResponse and the header build_headers makes of them. A    *)
(* content type is the extension it belongs to (MimeTypes); the generated      *)
(* pages all have one length; Date and the reason phrase are left out.         *)
EXTENDS Integers, Sequences

CONSTANT PAGE_SIZE  \* the length of a generated page

ASSUME PageAssumption == PAGE_SIZE \in Nat \ {0}

Status == [OK |-> 200, PARTIAL_CONTENT |-> 206, NOT_MODIFIED |-> 304,
           BAD_REQUEST |-> 400, FORBIDDEN |-> 403, NOT_FOUND |-> 404]

NO_TYPE == -1
TEXT_HTML == 32  \* the place of ".html" in MIME_TABLE
Absent == -1     \* in a header: the field is not there

\* Mutant: the extra headers of the last response stay.
ResetKeepingHeaders(response) ==
  [status |-> Status.OK, headers |-> response.headers, body |-> 0,
   content_type |-> NO_TYPE, content_length |-> 0, has_content_length |-> FALSE,
   accept_ranges |-> FALSE, keep_alive |-> TRUE,
   last_modified |-> 0, has_last_modified |-> FALSE]

\* HttpResponse::reset. `headers` holds the Content-Range, `body` is a length.
ResetResponse(response) ==
  [status |-> Status.OK, headers |-> <<>>, body |-> 0,
   content_type |-> NO_TYPE, content_length |-> 0, has_content_length |-> FALSE,
   accept_ranges |-> FALSE, keep_alive |-> TRUE,
   last_modified |-> 0, has_last_modified |-> FALSE]

\* set_status, set_body, set_content_type and set_content_length for a page.
Page(response, status) ==
  [response EXCEPT !.status = status, !.body = PAGE_SIZE, !.content_type = TEXT_HTML,
                   !.content_length = PAGE_SIZE, !.has_content_length = TRUE]

NotModified(response, time) ==
  [response EXCEPT !.status = Status.NOT_MODIFIED,
                   !.last_modified = time, !.has_last_modified = TRUE]

\* The header of a file, or of the part `range` of it.
Contents(response, info, range, length) ==
  [response EXCEPT
     !.status = IF range.set THEN Status.PARTIAL_CONTENT ELSE Status.OK,
     !.headers = IF range.set
                 THEN Append(@, [first |-> range.first, last |-> range.last, of |-> info.size])
                 ELSE @,
     !.content_type = info.mime_type,
     !.content_length = length, !.has_content_length = TRUE,
     !.last_modified = info.last_modified, !.has_last_modified = TRUE,
     !.accept_ranges = TRUE]

\* build_headers: the fields as they go out.
BuildHeaders(response) ==
  LET modified == response.status = Status.NOT_MODIFIED
  IN [status |-> response.status,
      content_type |-> IF modified THEN NO_TYPE ELSE response.content_type,
      content_length |-> IF modified \/ ~response.has_content_length THEN Absent
                         ELSE response.content_length,
      last_modified |-> IF response.has_last_modified THEN response.last_modified ELSE Absent,
      accept_ranges |-> response.accept_ranges,
      connection |-> IF response.keep_alive THEN "keep-alive" ELSE "close",
      content_range |-> response.headers]
================================================================================
