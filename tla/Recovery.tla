------------------------------ MODULE Recovery ------------------------------
(***************************************************************************)
(* internal/recovery/recovery.go: bounded read-only views of one cached    *)
(* original, and a client that follows next_offset and next_line while     *)
(* has_more, as the tool descriptions of the MCP server tell it to.        *)
(* Between two calls the entry may be pruned, and stored again by another  *)
(* program whose metadata names another format.                            *)
(*                                                                         *)
(* A text is a sequence of lines; a line is the byte widths of its         *)
(* characters (the LF included) and whether it contains the query.         *)
(***************************************************************************)
EXTENDS Integers, FiniteSets, FiniteSetsExt, SequencesExt

CONSTANTS
    Texts,         \* Texts[stream], or NoText where raw does not decode so
    NoText,
    MaxPageBytes, MaxLines,        \* the package constants
    DefaultBytes, DefaultLimit,    \* max_bytes and limit when left out
    ByteSizes, LineNumbers, Limits \* bounds: what the client asks for

StreamNames == {"raw", "stdout", "stderr", "output"}
Formats     == {"text", "claude-bash-json", "codex-tool-json"}

(* No line is empty, and UTF-8 has characters of one to four bytes.        *)
Line == [chars : Seq(1..4) \ {<<>>}, match : BOOLEAN]

ASSUME RecoveryAssumption ==
    /\ DOMAIN Texts = StreamNames /\ Texts["raw"] # NoText
    /\ \A s \in StreamNames : Texts[s] # NoText => Texts[s] \in Seq(Line)
    /\ MaxPageBytes \in Nat /\ MaxLines \in Nat \ {0}
    /\ DefaultBytes \in 1..MaxPageBytes /\ DefaultLimit \in 1..MaxLines
    /\ ByteSizes \cup LineNumbers \cup Limits \subseteq Int

LineSizes(t)  == [i \in DOMAIN t |-> SumFunction(t[i].chars)]
Widths(t)     == FlattenSeq([i \in DOMAIN t |-> t[i].chars])
Bytes(t)      == SumFunction(Widths(t))
RuneStarts(t) == {SumFunctionOnSet(Widths(t), 1..i - 1) : i \in DOMAIN Widths(t)}
Matching(t)   == {i \in DOMAIN t : t[i].match}

-----------------------------------------------------------------------------
(* streams and selectText.                                                 *)
Streams(format) ==
    {"raw"} \cup CASE format = "claude-bash-json" -> {"stdout", "stderr"}
                   [] format = "codex-tool-json"  -> {"output"}
                   [] OTHER                       -> {}

AutoStream(format) ==
    CASE format = "claude-bash-json" -> "stdout"
      [] format = "codex-tool-json"  -> "output"
      [] OTHER                       -> "raw"

Select(format, stream) == IF stream = "auto" THEN AutoStream(format) ELSE stream
Available(format, stream) == stream \in Streams(format) /\ Texts[stream] # NoText

Error == [ok |-> FALSE]

(* Mutant: a page is cut where max_bytes falls. *)
PageEndAnywhere(t, offset, size) ==
    IF offset + size < Bytes(t) THEN offset + size ELSE Bytes(t)

(* tokenslim_get_original: one page of t from byte `offset`.               *)
PageEnd(t, offset, size) ==
    LET limit == IF offset + size < Bytes(t) THEN offset + size ELSE Bytes(t)
    IN  Max({e \in offset..limit : e \in RuneStarts(t) \cup {offset, Bytes(t)}})

Page(t, offset, maxBytes) ==
    LET size == IF maxBytes = 0 THEN DefaultBytes ELSE maxBytes
        end  == PageEnd(t, offset, size)
    IN  IF \/ size \notin 1..MaxPageBytes \/ offset \notin 0..Bytes(t)
           \/ offset < Bytes(t) /\ offset \notin RuneStarts(t)
           \/ end = offset /\ end < Bytes(t)
        THEN Error
        ELSE [ok |-> TRUE, from |-> offset, next |-> end, more |-> end < Bytes(t)]

(* tokenslim_get_range: the whole lines first..last that exist.            *)
LineRange(t, first, last) ==
    LET shown == {i \in DOMAIN t : first <= i /\ i <= last}
    IN  IF \/ first < 1 \/ last < first \/ last - first >= MaxLines
           \/ SumFunctionOnSet(LineSizes(t), shown) > MaxPageBytes
           \/ shown = {}
        THEN Error
        ELSE [ok |-> TRUE, lines |-> shown]

(* tokenslim_search_original: lines are taken in order until one does not  *)
(* fit, by count or by bytes; that one is where the next page starts.      *)
(* Mutant: the line asked for is passed over. *)
FoundAfter(t, start) == {i \in Matching(t) : i > start}

Found(t, start) == {i \in Matching(t) : i >= start}

Fitting(t, start, limit) ==
    {n \in Found(t, start) :
       LET upTo == {i \in Found(t, start) : i <= n}
       IN  /\ Cardinality(upTo) <= limit
           /\ SumFunctionOnSet(LineSizes(t), upTo) <= MaxPageBytes}

Search(t, startLine, asked) ==
    LET limit == IF asked = 0 THEN DefaultLimit ELSE asked
        start == IF startLine = 0 THEN 1 ELSE startLine
        hits  == Fitting(t, start, limit)
        rest  == Found(t, start) \ hits
    IN  IF \/ limit \notin 1..MaxLines \/ start < 1
           \/ hits = {} /\ rest # {}
        THEN Error
        ELSE [ok |-> TRUE, lines |-> hits, more |-> rest # {},
              next |-> IF rest = {} THEN 0 ELSE Min(rest)]

-----------------------------------------------------------------------------
VARIABLES
    format,  \* the format in the entry's metadata, or "absent"
    task,    \* what the client is doing
    stream,  \* the stream it asks for
    at,      \* the offset or the line it asks for next
    more,    \* whether the last reply said that there is more
    pages,   \* the byte intervals it was given
    lines,   \* the lines it was given
    served   \* the streams they came from

client == <<task, stream, at, more, pages, lines, served>>
vars   == <<format, client>>

Init ==
    /\ format \in Formats
    /\ task = "none" /\ stream = "raw" /\ at = 0 /\ more = FALSE
    /\ pages = {} /\ lines = {} /\ served = {}

(* What Store.Get and selectText let through.                              *)
Chosen == Select(format, stream)
Usable == format # "absent" /\ Available(format, Chosen)
Text   == Texts[Chosen]

Begin(t, s) ==
    /\ task = "none"
    /\ task' = t /\ stream' = s /\ more' = TRUE
    /\ at' = IF t = "page" THEN 0 ELSE 1
    /\ UNCHANGED <<format, pages, lines, served>>

Accept(r, next) ==
    /\ r.ok /\ at' = next /\ served' = served \cup {Chosen}
    /\ UNCHANGED <<format, task, stream>>

GetOriginal(size) ==
    /\ task = "page" /\ more /\ Usable
    /\ LET r == Page(Text, at, size)
       IN  /\ Accept(r, r.next)
           /\ pages' = pages \cup {<<r.from, r.next>>} /\ more' = r.more
    /\ UNCHANGED lines

SearchOriginal(limit) ==
    /\ task = "search" /\ more /\ Usable
    /\ LET r == Search(Text, at, limit)
       IN  /\ Accept(r, IF r.more THEN r.next ELSE at)
           /\ lines' = lines \cup r.lines /\ more' = r.more
    /\ UNCHANGED pages

GetRange(last) ==
    /\ task = "range" /\ Usable
    /\ LET r == LineRange(Text, at, last)
       IN  /\ Accept(r, Max(r.lines) + 1)
           /\ lines' = lines \cup r.lines
    /\ UNCHANGED <<more, pages>>

Finish ==
    /\ task # "none"
    /\ task' = "none" /\ stream' = "raw" /\ at' = 0 /\ more' = FALSE
    /\ pages' = {} /\ lines' = {} /\ served' = {}
    /\ UNCHANGED format

(* The rest of the world: a sweep removes the entry, another program       *)
(* stores the same bytes again.                                            *)
Prune    == format' = "absent" /\ UNCHANGED client
Store(f) == format' = f /\ UNCHANGED client

Next ==
    \/ \E t \in {"page", "search", "range"}, s \in StreamNames \cup {"auto"} : Begin(t, s)
    \/ \E n \in ByteSizes : GetOriginal(n)
    \/ \E n \in Limits : SearchOriginal(n)
    \/ \E n \in LineNumbers : GetRange(n)
    \/ Finish
    \/ Prune \/ \E f \in Formats : Store(f)

Spec == Init /\ [][Next]_vars

-----------------------------------------------------------------------------
(* Following next_offset recovers the text: the pages a client was given   *)
(* from one stream are whole characters, cover the bytes before `at` once  *)
(* each, and reach the end exactly when has_more is false.                 *)
PagesTile ==
    task = "page" => \A s \in served : served = {s} =>
        LET t == Texts[s]
        IN  /\ \A g \in pages : /\ g[1] \in RuneStarts(t) \cup {Bytes(t)}
                               /\ g[2] \in RuneStarts(t) \cup {Bytes(t)}
                               /\ g[2] - g[1] <= MaxPageBytes
            /\ \A b \in 0..Bytes(t) - 1 :
                  Cardinality({g \in pages : g[1] <= b /\ b < g[2]}) = IF b < at THEN 1 ELSE 0
            /\ more <=> at < Bytes(t)

(* Following next_line finds every matching line, and consecutive ranges   *)
(* skip none, from whichever stream they were served.                      *)
LinesAreComplete ==
    \A s \in served : served = {s} =>
        LET t == Texts[s]
        IN  /\ task = "search" => lines = {i \in Matching(t) : more => i < at}
            /\ task = "range" => lines = 1..at - 1

(* A client that may still read is never stuck: whatever sizes it asked    *)
(* for before, a page with room for one character gets on, and so does a   *)
(* search unless a matching line is longer than a page.                    *)
NeverStuck ==
    more /\ Usable /\ served \subseteq {Chosen} =>
        /\ task = "page" /\ MaxPageBytes >= 4 =>
              LET r == Page(Text, at, MaxPageBytes)
              IN  r.ok /\ (at < Bytes(Text) => r.next > at)
        /\ task = "search" /\ (\A i \in DOMAIN Text : LineSizes(Text)[i] <= MaxPageBytes) =>
              Search(Text, at, 0).ok
=============================================================================
