------------------------------ MODULE McpServer ------------------------------
(***************************************************************************)
(* internal/mcp/server.go: the read-only recovery server on stdin/stdout.  *)
(* The client writes lines whenever it likes; Serve reads one, decides,    *)
(* and writes at most one reply before it reads the next.  Meanwhile other *)
(* processes store and prune the originals it is asked for.                *)
(*                                                                         *)
(* `sent` and `replies` only grow: a reply names the line it answers.      *)
(***************************************************************************)
EXTENDS Integers, Sequences

CONSTANTS
    Ids,      \* request ids: JSON strings and numbers
    NoId,     \* null, or an id of another type
    Refs,     \* references clients ask for
    Calls,    \* the `params` of tools/call that clients send
    Lines,    \* the lines they send
    MaxSent   \* bound: how many lines a client writes

Methods == {"initialize", "ping", "tools/list", "tools/call", "other"}

(* `params`: left out, not an object, an object the method refuses, or one *)
(* it accepts; for tools/call the object holds a member of Calls.          *)
Params == [is : {"absent", "notObject", "refused", "accepted"}]
            \cup [is : {"call"}, call : Calls]

Line ==
    [kind : {"garbage", "oversized"}]
      \cup [kind : {"notRequest"}, id : Ids \cup {NoId}]
      \cup [kind : {"notification"}, method : {"initialized", "other"}]
      \cup [kind : {"request"}, id : Ids \cup {NoId}, method : Methods, params : Params]

(* tools(): what each tool's schema lists and requires.  A value is fine,  *)
(* null, of the wrong JSON type, or outside the schema's range or enum.    *)
Schema ==
    [describe |-> [props |-> {"ref"}, required |-> {"ref"}],
     get_original |-> [props |-> {"ref", "stream", "offset", "max_bytes"},
                       required |-> {"ref"}],
     get_range |-> [props |-> {"ref", "stream", "start_line", "end_line"},
                    required |-> {"ref", "start_line", "end_line"}],
     search_original |-> [props |-> {"ref", "stream", "query", "start_line", "limit"},
                          required |-> {"ref", "query"}]]

ASSUME McpAssumption ==
    /\ NoId \notin Ids /\ Lines \subseteq Line /\ MaxSent \in Nat
    /\ \A c \in Calls : c.ref \in Refs

VARIABLES
    sent,        \* the lines written so far
    next,        \* the line Serve reads next
    replies,     \* the replies written so far
    initialized, ready,
    status,      \* "serving", "ended" at end of input, or "failed"
    open,        \* the client has not closed stdin
    available    \* the references Store.Get can serve

vars == <<sent, next, replies, initialized, ready, status, open, available>>

Init ==
    /\ sent = <<>> /\ next = 1 /\ replies = <<>>
    /\ initialized = FALSE /\ ready = FALSE
    /\ status = "serving" /\ open = TRUE
    /\ available \in SUBSET Refs

-----------------------------------------------------------------------------
(* The client, and the processes that share the cache.                     *)
Send(l) ==
    /\ open /\ Len(sent) < MaxSent
    /\ sent' = Append(sent, l)
    /\ UNCHANGED <<next, replies, initialized, ready, status, open, available>>

Close ==
    /\ open /\ open' = FALSE
    /\ UNCHANGED <<sent, next, replies, initialized, ready, status, available>>

CacheChanges ==
    /\ available' \in SUBSET Refs
    /\ UNCHANGED <<sent, next, replies, initialized, ready, status, open>>

-----------------------------------------------------------------------------
(* call: the arguments are held against the schema, in no fixed order,     *)
(* before the recovery service sees them.  Strings have no range but the   *)
(* enum of `stream`; the service refuses a malformed reference itself.     *)
LegalValue(arg, v) == v = "fine" \/ (v = "outside" /\ arg \in {"ref", "query"})

LegalCall(c) ==
    /\ c.tool \in DOMAIN Schema
    /\ DOMAIN c.args \subseteq Schema[c.tool].props
    /\ Schema[c.tool].required \subseteq DOMAIN c.args
    /\ \A a \in DOMAIN c.args : LegalValue(a, c.args[a])

Served(c) == c.ref \in available /\ \A a \in DOMAIN c.args : c.args[a] = "fine"

(* What the service may answer a legal call with; it may also refuse one   *)
(* it could serve, for what the text is (module Recovery).                 *)
CallOutcomes(c) ==
    IF ~LegalCall(c) THEN {"invalidParams"}
    ELSE {"toolError"} \cup IF Served(c) THEN {"content"} ELSE {}

(* Serve's switches, for a request whose id is valid.                      *)
Outcomes(q) ==
    IF q.params.is = "notObject" THEN {"invalidParams"}
    ELSE CASE q.method = "initialize" ->
                IF initialized THEN {"invalidRequest"}
                ELSE IF q.params.is = "accepted" THEN {"initialized"} ELSE {"invalidParams"}
           [] q.method = "ping" -> {"pong"}
           [] OTHER ->
                IF ~ready THEN {"notInitialized"}
                ELSE CASE q.method = "tools/list" ->
                            IF q.params.is = "refused" THEN {"invalidParams"} ELSE {"tools"}
                       [] q.method = "tools/call" ->
                            IF q.params.is = "call" THEN CallOutcomes(q.params.call)
                            ELSE {"invalidParams"}
                       [] OTHER -> {"methodNotFound"}

(* Serve takes the next line.                                              *)
Reading(kind) ==
    status = "serving" /\ next <= Len(sent) /\ sent[next].kind = kind

(* The reply is written, or writing fails and Serve returns.               *)
Reply(id, what) ==
    /\ next' = next + 1
    /\ \/ /\ replies' = Append(replies, [to |-> next, id |-> id, what |-> what])
          /\ UNCHANGED status
       \/ status' = "failed" /\ UNCHANGED replies
    /\ UNCHANGED <<sent, open, available>>

(* Mutant: the line stays in the buffer. *)
RefuseGarbageAgain == Reading("garbage") /\ UNCHANGED vars

RefuseGarbage ==
    /\ Reading("garbage")
    /\ Reply(NoId, "parseError")
    /\ UNCHANGED <<initialized, ready>>

RefuseNotRequest ==
    /\ Reading("notRequest")
    /\ Reply(sent[next].id, "invalidRequest")
    /\ UNCHANGED <<initialized, ready>>

(* The scanner gives up on a line longer than MaxRequestBytes.             *)
RefuseOversized ==
    /\ Reading("oversized")
    /\ status' = "failed" /\ next' = next + 1
    /\ UNCHANGED <<sent, replies, initialized, ready, open, available>>

(* Mutants: the order of the handshake not checked; a reply to everything. *)
NotedInAnyOrder ==
    /\ Reading("notification")
    /\ ready' = (ready \/ sent[next].method = "initialized")
    /\ next' = next + 1
    /\ UNCHANGED <<sent, replies, initialized, status, open, available>>

NotedAndAnswered ==
    /\ Reading("notification")
    /\ ready' = (ready \/ (sent[next].method = "initialized" /\ initialized))
    /\ Reply(NoId, "pong")
    /\ UNCHANGED initialized

NoteNotification ==
    /\ Reading("notification")
    /\ ready' = (ready \/ (sent[next].method = "initialized" /\ initialized))
    /\ next' = next + 1
    /\ UNCHANGED <<sent, replies, initialized, status, open, available>>

RefuseId ==
    /\ Reading("request") /\ sent[next].id = NoId
    /\ Reply(NoId, "invalidRequest")
    /\ UNCHANGED <<initialized, ready>>

Handle ==
    /\ Reading("request") /\ sent[next].id # NoId
    /\ \E what \in Outcomes(sent[next]) :
         /\ Reply(sent[next].id, what)
         /\ initialized' = (initialized \/ what = "initialized")
    /\ UNCHANGED ready

EndOfInput ==
    /\ status = "serving" /\ ~open /\ next > Len(sent)
    /\ status' = "ended"
    /\ UNCHANGED <<sent, next, replies, initialized, ready, open, available>>

ServeStep ==
    \/ RefuseGarbage \/ RefuseNotRequest \/ RefuseOversized
    \/ NoteNotification \/ RefuseId \/ Handle \/ EndOfInput

Next ==
    \/ \E l \in Lines : Send(l)
    \/ Close \/ CacheChanges \/ ServeStep

Spec     == Init /\ [][Next]_vars
FairSpec == Spec /\ WF_vars(ServeStep)

-----------------------------------------------------------------------------
Outcome ==
    {"parseError", "invalidRequest", "invalidParams", "notInitialized", "methodNotFound",
     "initialized", "pong", "tools", "content", "toolError"}

(* Every variable has its type.                                            *)
TypeOK ==
    /\ sent \in Seq(Lines) /\ next \in 1..Len(sent) + 1
    /\ replies \in Seq([to : Nat, id : Ids \cup {NoId}, what : Outcome])
    /\ initialized \in BOOLEAN /\ ready \in BOOLEAN /\ open \in BOOLEAN
    /\ status \in {"serving", "ended", "failed"} /\ available \in SUBSET Refs

(* The lines that want a reply; all but notifications do, even those that  *)
(* are no requests at all.                                                 *)
Wanting == {i \in 1..next - 1 : sent[i].kind # "notification"}

IdOf(l) == IF l.kind \in {"request", "notRequest"} THEN l.id ELSE NoId

(* Replies come in the order of the lines they answer, under their ids, at *)
(* most one for each and none for a notification; until the connection     *)
(* breaks, no line that was read is left without one.                      *)
RepliesMatch ==
    /\ \A j, k \in DOMAIN replies : j < k => replies[j].to < replies[k].to
    /\ \A k \in DOMAIN replies : replies[k].id = IdOf(sent[replies[k].to])
    /\ {replies[k].to : k \in DOMAIN replies} \subseteq Wanting
    /\ status # "failed" => Wanting \subseteq {replies[k].to : k \in DOMAIN replies}

(* The protocol's lifecycle, read off what the client sent: a line comes   *)
(* after the handshake if an acceptable initialize request and, later, the *)
(* initialized notification precede it.                                    *)
Initializes(i) ==
    /\ sent[i].kind = "request" /\ sent[i].id # NoId
    /\ sent[i].method = "initialize" /\ sent[i].params.is = "accepted"

Confirms(i) == sent[i].kind = "notification" /\ sent[i].method = "initialized"

AfterHandshake(i) ==
    \E a, b \in 1..i - 1 : a < b /\ Initializes(a) /\ Confirms(b)

(* Serve's two flags implement that lifecycle, whatever else is sent in    *)
(* between: the first acceptable initialize and no other is accepted, and  *)
(* tools are listed and called after the handshake and never before.       *)
LifecycleIsKept ==
    \A k \in DOMAIN replies :
        LET r == replies[k]
        IN  /\ r.what = "initialized" <=>
                  Initializes(r.to) /\ \A i \in 1..r.to - 1 : ~Initializes(i)
            /\ r.what \in {"tools", "content", "toolError", "methodNotFound"} =>
                  AfterHandshake(r.to)
            /\ r.what = "notInitialized" => ~AfterHandshake(r.to)

(* Why both hold: what the flags say about the lines read so far.          *)
FlagsRemember ==
    /\ initialized <=> \E i \in 1..next - 1 : Initializes(i)
    /\ ready <=> AfterHandshake(next)

McpInv == TypeOK /\ FlagsRemember /\ RepliesMatch /\ LifecycleIsKept

(* Every line is read in the end, unless the connection broke before it:   *)
(* no message of the client can hold up those behind it.                   *)
EveryLineIsRead ==
    \A i \in 1..MaxSent : Len(sent) >= i ~> (next > i \/ status = "failed")
=============================================================================
