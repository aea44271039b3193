-------------------------------- MODULE Listing --------------------------------
(***************************************************************************)
(* The listing of the workflows of an n8n instance (listN8nWorkflows of    *)
(* n8n-api-client.ts).  An answer of n8n is a sequence of pages:           *)
(*   [failed : it is no list, or no answer at all,                         *)
(*    rows   : ids, NoId where a row has none,                             *)
(*    mute   : ids about which the request for details gets no answer,     *)
(*    next   : is there a cursor?]                                         *)
(***************************************************************************)
EXTENDS Integers, Sequences, SequencesExt

CONSTANTS
    NoId,
    PageSize,
    MaxWorkflows    \* MAX_DISCOVERED_WORKFLOWS

ASSUME ListingAssumption == PageSize \in Nat \ {0} /\ MaxWorkflows \in Nat

MaxPages == (MaxWorkflows + PageSize - 1) \div PageSize + 1

\* The rows of a page that are new, until there are enough of them.
Gathered(found, rows) ==
    FoldLeft(LAMBDA ids, id : IF \/ Len(ids) >= MaxWorkflows
                                 \/ id = NoId \/ id \in ToSet(ids)
                              THEN ids ELSE Append(ids, id),
             found, rows)

\* fetchN8nWorkflowDetail may well say nothing of use, but where it gets no
\* answer nothing is listed at all.
Unanswered(found, page) ==
    page.mute \cap (ToSet(Gathered(found, page.rows)) \ ToSet(found)) # {}

\* One round of the loop.
ReadPage(list, page) ==
    IF list.failed \/ ~list.more \/ Len(list.found) >= MaxWorkflows THEN list
    ELSE IF page.failed \/ Unanswered(list.found, page) THEN [list EXCEPT !.failed = TRUE]
    ELSE [list EXCEPT !.found = Gathered(@, page.rows),
                      !.more = page.next /\ page.rows # <<>>]

\* The callers make no difference between a failure and an empty list.
ListN8nWorkflows(pages) ==
    LET list == FoldLeft(ReadPage, [failed |-> FALSE, found |-> <<>>, more |-> TRUE],
                         SubSeq(pages, 1, IF Len(pages) < MaxPages THEN Len(pages)
                                          ELSE MaxPages))
    IN  IF list.failed THEN {} ELSE ToSet(list.found)
=============================================================================
