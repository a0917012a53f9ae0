---------------------------- MODULE MCMcpServer ----------------------------
EXTENDS McpServer, TLC

CONSTANTS r1

Request(id, method, params) ==
    [kind |-> "request", id |-> id, method |-> method, params |-> [is |-> params]]
CallRequest(id, c) ==
    [kind |-> "request", id |-> id, method |-> "tools/call",
     params |-> [is |-> "call", call |-> c]]
Call(tool, args) == [tool |-> tool, ref |-> r1, args |-> args]

(* One call that is fine, and one that the schema refuses for each reason  *)
(* it has: no such tool, an argument too many, one that is missing, one of *)
(* the wrong type and a null, one outside its range.                       *)
MCCalls ==
    {Call("describe", [ref |-> "fine"]),
     Call("other", [ref |-> "fine"]),
     Call("describe", [ref |-> "fine", stream |-> "fine"]),
     Call("search_original", [ref |-> "fine"]),
     Call("search_original", [ref |-> "fine", query |-> "wrongType"]),
     Call("search_original", [ref |-> "null", query |-> "fine"]),
     Call("get_range", [ref |-> "outside", start_line |-> "fine", end_line |-> "fine"]),
     Call("get_original", [ref |-> "fine", offset |-> "outside"])}

MCLines ==
    {[kind |-> "garbage"], [kind |-> "oversized"],
     [kind |-> "notRequest", id |-> 1],
     [kind |-> "notification", method |-> "initialized"],
     [kind |-> "notification", method |-> "other"],
     Request(NoId, "ping", "absent"), Request(2, "ping", "absent"),
     Request(1, "initialize", "accepted"), Request(2, "initialize", "accepted"),
     Request(2, "initialize", "notObject"),
     Request(1, "tools/list", "absent"), Request(1, "tools/list", "refused"),
     Request(2, "other", "absent"), Request(2, "tools/call", "absent")}
      \cup {CallRequest(1, c) : c \in MCCalls}
=============================================================================
