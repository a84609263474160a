----------------------------- MODULE Pagination -----------------------------
(***************************************************************************)
(* The pagination of read_file, search_pathnames_only and search_for_files *)
(* (toolsService.ts). Each executor computes its full result (the file's   *)
(* text, or the search engine's list of matches), slices page pageNumber   *)
(* out of it and reports hasNextPage; the stringifier appends "(more on    *)
(* next page...)" when it is set. An agent reads a result by asking page   *)
(* 1, 2, ... while hasNextPage says there is more.                         *)
(*                                                                         *)
(* read_file first selects the requested line range (lines startLine ..    *)
(* endLine, joined by LF) and paginates that text by characters. The text  *)
(* is a sequence of tokens: letters of a small alphabet and NL.            *)
(***************************************************************************)
EXTENDS Naturals, Sequences, SequencesExt

CONSTANTS
    Letters,          \* characters a line may hold
    MaxLines,         \* the longest file, in lines
    MaxLineLen,       \* the longest line, in characters
    FileCharsPage,    \* MAX_FILE_CHARS_PAGE
    UrisPage,         \* MAX_CHILDREN_URIs_PAGE
    Matches,          \* the files a search may return (model values)
    Null              \* an absent line argument (a model value)

ASSUME FileCharsPage \in Nat \ {0} /\ UrisPage \in Nat \ {0}

NL == "NL"

Tools == {"read_file", "search_pathnames_only", "search_for_files"}

\* The files the model checks: every sequence of at most MaxLines lines of
\* at most MaxLineLen letters (a file has at least one, possibly empty, line).
Lines == BoundedSeq(Letters, MaxLineLen)
Files == {f \in BoundedSeq(Lines, MaxLines) : Len(f) >= 1}

\* A search returns each match at most once, in the engine's order.
SearchResults == {s \in BoundedSeq(Matches, Cardinality(Matches)) : IsInjective(s)}

\* The lines of f joined by LF (model.getValue(EndOfLinePreference.LF)).
RECURSIVE JoinLines(_)
JoinLines(ls) ==
    IF Len(ls) = 0 THEN <<>>
    ELSE IF Len(ls) = 1 THEN Head(ls)
    ELSE Head(ls) \o <<NL>> \o JoinLines(Tail(ls))

(***************************************************************************)
(* read_file, lines 517-525: no range gives the whole text; otherwise a    *)
(* missing start is line 1 and a missing end the last line. The range      *)
(* goes through Monaco's Range, which puts the smaller line first, and     *)
(* getValueInRange clamps it to the file's lines.                          *)
(***************************************************************************)
Clamp(n, f) == IF n > Len(f) THEN Len(f) ELSE n

ReadFileContents(f, startLine, endLine) ==
    IF startLine = Null /\ endLine = Null THEN JoinLines(f)
    ELSE LET s == IF startLine = Null THEN 1 ELSE startLine
             e == IF endLine = Null THEN Len(f) ELSE endLine
             lo == Clamp(IF s <= e THEN s ELSE e, f)
             hi == Clamp(IF s <= e THEN e ELSE s, f)
         IN JoinLines(SubSeq(f, lo, hi))

\* contents.slice(fromIdx, toIdx + 1) with fromIdx = size * (n - 1) and
\* toIdx = size * n - 1, in 1-based positions.
PageSliceWide(s, size, n) ==
    LET fromIdx == size * (n - 1)
        toIdx == size * n - 1
        last == IF toIdx + 2 > Len(s) THEN Len(s) ELSE toIdx + 2
    IN IF fromIdx >= Len(s) THEN <<>> ELSE SubSeq(s, fromIdx + 1, last)

PageSliceToIdx(s, size, n) ==
    LET fromIdx == size * (n - 1)
        toIdx == size * n - 1
        last == IF toIdx > Len(s) THEN Len(s) ELSE toIdx
    IN IF fromIdx >= Len(s) THEN <<>> ELSE SubSeq(s, fromIdx + 1, last)

PageSlice(s, size, n) ==
    LET fromIdx == size * (n - 1)
        toIdx == size * n - 1
        last == IF toIdx + 1 > Len(s) THEN Len(s) ELSE toIdx + 1
    IN IF fromIdx >= Len(s) THEN <<>> ELSE SubSeq(s, fromIdx + 1, last)

\* hasNextPage = (length - 1) - toIdx >= 1 (lines 532, 562, 584).
HasNextPageAtEnd(s, size, n) == (Len(s) - 1) - (size * n - 1) >= 0

HasNextPage(s, size, n) == (Len(s) - 1) - (size * n - 1) >= 1

\* The page size of each tool.
PageSize(tool) == IF tool = "read_file" THEN FileCharsPage ELSE UrisPage

VARIABLES
    tool,       \* the tool the agent pages through
    full,       \* the unpaginated result the executor computes
    pageNumber, \* the next page the agent asks for
    seen,       \* the concatenation of the pages the agent has received
    lastPage,   \* the page it received last
    more,       \* hasNextPage of the last page (TRUE before the first)
    req         \* read_file's arguments: [file, startLine, endLine]

vars == <<tool, full, pageNumber, seen, lastPage, more, req>>

LineArgs == {Null} \cup 1..(MaxLines + 1)
NoReq == [file |-> <<>>, startLine |-> Null, endLine |-> Null]

TypeOK ==
    /\ tool \in Tools
    /\ full \in Seq(Letters \cup {NL} \cup Matches)
    /\ pageNumber \in Nat \ {0}
    /\ seen \in Seq(Letters \cup {NL} \cup Matches)
    /\ lastPage \in BoundedSeq(Letters \cup {NL} \cup Matches, PageSize(tool))
    /\ more \in BOOLEAN
    /\ req \in [file : Files \cup {<<>>}, startLine : LineArgs, endLine : LineArgs]

\* Every call the agent can make: a file with any line range, or a search.
Init ==
    /\ \/ /\ tool = "read_file"
          /\ req \in [file : Files, startLine : LineArgs, endLine : LineArgs]
          /\ full = ReadFileContents(req.file, req.startLine, req.endLine)
       \/ /\ tool \in Tools \ {"read_file"}
          /\ full \in SearchResults
          /\ req = NoReq
    /\ pageNumber = 1
    /\ seen = <<>>
    /\ lastPage = <<>>
    /\ more = TRUE

\* The agent asks for the next page; the executor answers it.
FetchPage ==
    /\ more
    /\ lastPage' = PageSlice(full, PageSize(tool), pageNumber)
    /\ seen' = seen \o lastPage'
    /\ more' = HasNextPage(full, PageSize(tool), pageNumber)
    /\ pageNumber' = pageNumber + 1
    /\ UNCHANGED <<tool, full, req>>

Done == ~more /\ UNCHANGED vars

Next == FetchPage \/ Done

Spec == Init /\ [][Next]_vars /\ WF_vars(FetchPage)

(***************************************************************************)
(* Properties.                                                             *)
(***************************************************************************)

\* Spec 8: following hasNextPage until it is false yields exactly the
\* unpaginated result, with no item lost or repeated (the slice bounds and
\* the hasNextPage formula of the three executors agree).
PagesReassemble == ~more => seen = full

\* A page reached by following hasNextPage is never empty: the executor
\* does not promise "more on next page" at the exact end of the result.
NoEmptyNextPage == pageNumber > 2 => lastPage # <<>>

====
