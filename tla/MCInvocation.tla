--------------------------- MODULE MCInvocation ---------------------------
(* Sizes are scaled down: a limit of 16, a marker of 2, a hard cap of 40.   *)
EXTENDS Invocation

(* A hook's input holds its original (the tool response as JSON), and that  *)
(* the two streams; a codex result and a file have one stream.              *)
Sizes ==
    {[input |-> 14, raw |-> 12, out |-> 7, err |-> 3],
     [input |-> 14, raw |-> 12, out |-> 0, err |-> 8],
     [input |-> 30, raw |-> 20, out |-> 8, err |-> 4],  \* escaped beyond the limit
     [input |-> 16, raw |-> 14, out |-> 17, err |-> 0], \* U+FFFD for invalid bytes
     [input |-> 41, raw |-> 38, out |-> 9, err |-> 0],  \* beyond the hard cap
     [input |-> 4, raw |-> 2, out |-> 0, err |-> 0]}

HookRequest(via, s, fit, text, family) ==
    [via |-> via, input |-> s.input, raw |-> s.raw, out |-> s.out, err |-> s.err,
     lines |-> s.out + s.err, fit |-> fit, text |-> text, family |-> family]

FileRequest(via, n, text) ==
    [via |-> via, input |-> n, raw |-> n, out |-> n, err |-> 0,
     lines |-> n, fit |-> TRUE, text |-> text, family |-> "generic"]

MCRequests ==
    {HookRequest("claude", s, TRUE, TRUE, f) : s \in Sizes, f \in {"generic", "terraform"}}
      \cup {HookRequest("codex", s, TRUE, TRUE, "generic") : s \in {s \in Sizes : s.err = 0}}
      \cup {HookRequest(v, [input |-> 14, raw |-> 12, out |-> 7, err |-> 3], fit, text, "generic") :
              v \in {"claude", "unknown"}, fit, text \in BOOLEAN}
      \cup {FileRequest(v, n, TRUE) : v \in {"optimize", "benchmark"}, n \in {0, 9, 17}}

Usual == [loads |-> TRUE, bash |-> TRUE, mode |-> "safe", enabled |-> TRUE, own |-> "inherit",
          cache |-> TRUE, metrics |-> TRUE, maxInput |-> 16,
          minBytes |-> 2, minLines |-> 2, minReduction |-> 10, maxReduction |-> 60]

(* The first request's own original, cached by a run with a higher limit,   *)
(* and another one.                                                         *)
MCEarlier ==
    {[of |-> HookRequest("claude", [input |-> 14, raw |-> 12, out |-> 7, err |-> 3],
                         TRUE, TRUE, "generic"), limit |-> 40, optimized |-> 6],
     [of |-> FileRequest("optimize", 9, TRUE), limit |-> 16, optimized |-> 5]}

FewConfigs == {Usual, [Usual EXCEPT !.own = "off"], [Usual EXCEPT !.own = "smart"]}
=============================================================================
