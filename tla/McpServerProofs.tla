--------------------------- MODULE McpServerProofs ---------------------------
(* Theorems about McpServer, for every set of lines and calls, clients that *)
(* write any number of lines, and a cache that changes all the time.        *)
EXTENDS McpServer, TLAPS

(* A line that is written later leaves the earlier ones alone.              *)
LEMMA SendKeeps ==
    ASSUME TypeOK, NEW l \in Lines, Send(l)
    PROVE  /\ sent' \in Seq(Lines) /\ Len(sent') = Len(sent) + 1
           /\ \A i \in 1..Len(sent) : sent'[i] = sent[i]
  BY DEF TypeOK, Send

(* What every turn of Serve's loop has in common.  `what` is the reply, if  *)
(* there is one.                                                            *)
Flags ==
    /\ initialized' \in BOOLEAN /\ ready' \in BOOLEAN
    /\ initialized' <=> initialized \/ Initializes(next)
    /\ ready' <=> ready \/ (initialized /\ Confirms(next))

Silent ==
    /\ replies' = replies
    /\ \/ status' = "failed"
       \/ status' = status /\ sent[next].kind = "notification"

Fitting(what) ==
    /\ what = "initialized" <=> Initializes(next) /\ ~initialized
    /\ what \in {"tools", "content", "toolError", "methodNotFound"} => ready
    /\ what = "notInitialized" => ~ready

Replied(what) ==
    /\ replies' = Append(replies, [to |-> next, id |-> IdOf(sent[next]), what |-> what])
    /\ status' = status /\ sent[next].kind # "notification"
    /\ IdOf(sent[next]) \in Ids \cup {NoId}

Turn ==
    /\ status = "serving" /\ next \in 1..Len(sent) /\ next' = next + 1
    /\ UNCHANGED <<sent, open, available>>
    /\ Flags
    /\ Silent \/ \E what \in Outcome : Replied(what) /\ Fitting(what)

(* Serve's nested switches: which replies each state of the handshake       *)
(* allows.                                                                  *)
LEMMA OutcomesFit ==
    ASSUME TypeOK, Reading("request"), sent[next].id # NoId,
           NEW what \in Outcomes(sent[next])
    PROVE  what \in Outcome /\ Fitting(what)
<1>. DEFINE q == sent[next]
<1>1. initialized \in BOOLEAN /\ ready \in BOOLEAN
  BY DEF TypeOK
<1>2. Initializes(next) <=> q.method = "initialize" /\ q.params.is = "accepted"
  BY DEF Reading, Initializes
<1>3. CASE q.params.is = "notObject"
  BY <1>2, <1>3 DEF Outcomes, Fitting, Outcome
<1>4. CASE q.params.is # "notObject" /\ q.method = "initialize"
  BY <1>1, <1>2, <1>4 DEF Outcomes, Fitting, Outcome
<1>5. CASE q.params.is # "notObject" /\ q.method = "ping"
  BY <1>2, <1>5 DEF Outcomes, Fitting, Outcome
<1>6. CASE q.params.is # "notObject" /\ q.method \notin {"initialize", "ping"}
  <2>1. CASE ~ready
    BY <1>2, <1>6, <2>1 DEF Outcomes, Fitting, Outcome
  <2>2. CASE ready
    <3>1. ~Initializes(next)
      BY <1>2, <1>6
    <3>2. what \in {"tools", "invalidParams", "methodNotFound", "toolError", "content"}
      BY <1>6, <2>2 DEF Outcomes, CallOutcomes
    <3>. QED  BY <2>2, <3>1, <3>2 DEF Fitting, Outcome
  <2>. QED  BY <2>1, <2>2
<1>. QED  BY <1>3, <1>4, <1>5, <1>6

(* The parts of a line that Serve uses are there.                           *)
LEMMA LineShape ==
    ASSUME TypeOK, NEW i \in 1..Len(sent)
    PROVE  /\ sent[i] \in Line
           /\ sent[i].kind \in {"request", "notRequest"} => sent[i].id \in Ids \cup {NoId}
           /\ IdOf(sent[i]) \in Ids \cup {NoId}
<1>1. sent[i] \in Line
  BY McpAssumption DEF TypeOK
<1>2. sent[i].kind \in {"request", "notRequest"} => sent[i].id \in Ids \cup {NoId}
  BY <1>1 DEF Line
<1>. QED  BY <1>1, <1>2 DEF IdOf

LEMMA ReadingShape ==
    ASSUME TypeOK, NEW kind, Reading(kind)
    PROVE  /\ status = "serving" /\ next \in 1..Len(sent) /\ sent[next].kind = kind
           /\ initialized \in BOOLEAN /\ ready \in BOOLEAN
  BY DEF Reading, TypeOK

(* A reply that leaves the flags alone.                                     *)
LEMMA Refused ==
    ASSUME TypeOK, NEW kind \in {"garbage", "notRequest", "request"}, Reading(kind),
           NEW what \in {"parseError", "invalidRequest"},
           Reply(IdOf(sent[next]), what), UNCHANGED <<initialized, ready>>,
           kind = "request" => sent[next].id = NoId
    PROVE  Turn
<1>1. /\ status = "serving" /\ next \in 1..Len(sent) /\ sent[next].kind = kind
      /\ initialized \in BOOLEAN /\ ready \in BOOLEAN
  BY ReadingShape
<1>2. ~Initializes(next) /\ ~Confirms(next)
  BY <1>1 DEF Initializes, Confirms
<1>3. Flags
  BY <1>1, <1>2 DEF Flags
<1>4. Silent \/ Replied(what)
  BY <1>1, LineShape DEF Reply, Silent, Replied
<1>5. what \in Outcome /\ Fitting(what)
  BY <1>2 DEF Outcome, Fitting
<1>. QED  BY <1>1, <1>3, <1>4, <1>5 DEF Turn, Reply

LEMMA TurnShape ==
    ASSUME TypeOK, ServeStep, ~EndOfInput
    PROVE  Turn
<1>1. CASE RefuseGarbage
  <2>1. Reading("garbage") /\ IdOf(sent[next]) = NoId
    BY <1>1 DEF RefuseGarbage, Reading, IdOf
  <2>. QED  BY <1>1, <2>1, Refused DEF RefuseGarbage
<1>2. CASE RefuseNotRequest
  <2>1. Reading("notRequest") /\ IdOf(sent[next]) = sent[next].id
    BY <1>2 DEF RefuseNotRequest, Reading, IdOf
  <2>. QED  BY <1>2, <2>1, Refused DEF RefuseNotRequest
<1>3. CASE RefuseId
  <2>1. Reading("request") /\ sent[next].id = NoId /\ IdOf(sent[next]) = NoId
    BY <1>3 DEF RefuseId, Reading, IdOf
  <2>. QED  BY <1>3, <2>1, Refused DEF RefuseId
<1>4. CASE RefuseOversized
  <2>1. /\ status = "serving" /\ next \in 1..Len(sent) /\ sent[next].kind = "oversized"
        /\ initialized \in BOOLEAN /\ ready \in BOOLEAN
    BY <1>4, ReadingShape DEF RefuseOversized
  <2>2. ~Initializes(next) /\ ~Confirms(next)
    BY <2>1 DEF Initializes, Confirms
  <2>. QED  BY <1>4, <2>1, <2>2 DEF RefuseOversized, Turn, Flags, Silent
<1>5. CASE NoteNotification
  <2>1. /\ status = "serving" /\ next \in 1..Len(sent) /\ sent[next].kind = "notification"
        /\ initialized \in BOOLEAN /\ ready \in BOOLEAN
    BY <1>5, ReadingShape DEF NoteNotification
  <2>2. ~Initializes(next) /\ (Confirms(next) <=> sent[next].method = "initialized")
    BY <2>1 DEF Initializes, Confirms
  <2>3. Flags
    <3>1. ready' = (ready \/ (sent[next].method = "initialized" /\ initialized))
          /\ initialized' = initialized
      BY <1>5 DEF NoteNotification
    <3>. QED  BY <2>1, <2>2, <3>1, Zenon DEF Flags
  <2>. QED  BY <1>5, <2>1, <2>3 DEF NoteNotification, Turn, Silent
<1>6. CASE Handle
  <2>1. /\ status = "serving" /\ next \in 1..Len(sent) /\ sent[next].kind = "request"
        /\ initialized \in BOOLEAN /\ ready \in BOOLEAN
    BY <1>6, ReadingShape DEF Handle
  <2>2. PICK what \in Outcomes(sent[next]) :
            /\ Reply(sent[next].id, what)
            /\ initialized' = (initialized \/ what = "initialized")
    BY <1>6 DEF Handle
  <2>3. what \in Outcome /\ Fitting(what)
    BY <1>6, OutcomesFit DEF Handle
  <2>4. ~Confirms(next) /\ ready' = ready
    BY <1>6, <2>1 DEF Confirms, Handle
  <2>5. Flags
    BY <2>1, <2>2, <2>3, <2>4, Zenon DEF Flags, Fitting
  <2>6. Silent \/ Replied(what)
    <3>1. IdOf(sent[next]) = sent[next].id /\ IdOf(sent[next]) \in Ids \cup {NoId}
      BY <2>1, LineShape DEF IdOf
    <3>. QED  BY <2>1, <2>2, <3>1 DEF Reply, Silent, Replied
  <2>. QED  BY <2>1, <2>2, <2>3, <2>5, <2>6 DEF Turn, Reply
<1>. QED  BY <1>1, <1>2, <1>3, <1>4, <1>5, <1>6 DEF ServeStep

-----------------------------------------------------------------------------
(* Replies answer lines that have been read.                                *)
LEMMA ReplyTo ==
    ASSUME TypeOK, RepliesMatch, NEW k \in DOMAIN replies
    PROVE  replies[k].to \in 1..next - 1 /\ replies[k].to \in 1..Len(sent)
  BY DEF TypeOK, RepliesMatch, Wanting

LEMMA SameLines ==
    ASSUME sent' = sent
    PROVE  \A i : /\ Initializes(i)' <=> Initializes(i)
                  /\ Confirms(i)' <=> Confirms(i)
                  /\ AfterHandshake(i)' <=> AfterHandshake(i)
  BY DEF Initializes, Confirms, AfterHandshake

LEMMA TurnType ==
    ASSUME TypeOK, Turn
    PROVE  TypeOK'
<1>1. replies' \in Seq([to : Nat, id : Ids \cup {NoId}, what : Outcome])
  <2>1. CASE Silent
    BY <2>1 DEF Silent, TypeOK
  <2>2. ASSUME NEW what \in Outcome, Replied(what)
        PROVE  replies' \in Seq([to : Nat, id : Ids \cup {NoId}, what : Outcome])
    <3>1. [to |-> next, id |-> IdOf(sent[next]), what |-> what]
             \in [to : Nat, id : Ids \cup {NoId}, what : Outcome]
      BY <2>2 DEF Replied, TypeOK
    <3>. QED  BY <2>2, <3>1 DEF Replied, TypeOK
  <2>. QED  BY <2>1, <2>2 DEF Turn
<1>2. status' \in {"serving", "ended", "failed"}
  BY DEF Turn, Silent, Replied, TypeOK
<1>3. next' \in 1..Len(sent') + 1
  BY DEF Turn, TypeOK
<1>. QED  BY <1>1, <1>2, <1>3 DEF Turn, Flags, TypeOK

LEMMA TurnFlags ==
    ASSUME TypeOK, FlagsRemember, Turn
    PROVE  FlagsRemember'
<1>1. next \in Nat \ {0} /\ next' = next + 1 /\ sent' = sent
  BY DEF Turn, TypeOK
<1>2. 1..next' - 1 = (1..next - 1) \cup {next}
  BY <1>1
<1>3. (\E i \in 1..next' - 1 : Initializes(i)')
         <=> (\E i \in 1..next - 1 : Initializes(i)) \/ Initializes(next)
  BY <1>1, <1>2, SameLines
<1>4. AfterHandshake(next + 1) <=>
        AfterHandshake(next) \/ (Confirms(next) /\ \E a \in 1..next - 1 : Initializes(a))
  BY <1>1 DEF AfterHandshake
<1>5. AfterHandshake(next)' <=> AfterHandshake(next + 1)
  BY <1>1 DEF AfterHandshake, Initializes, Confirms
<1>. QED  BY <1>3, <1>4, <1>5 DEF Turn, Flags, FlagsRemember

LEMMA TurnReplies ==
    ASSUME TypeOK, RepliesMatch, Turn
    PROVE  RepliesMatch'
<1>1. next \in Nat \ {0} /\ next' = next + 1 /\ sent' = sent /\ status = "serving"
  BY DEF Turn, TypeOK
<1>2. Wanting' = Wanting \cup (IF sent[next].kind # "notification" THEN {next} ELSE {})
  BY <1>1 DEF Wanting
<1>3. CASE Silent
  BY <1>1, <1>2, <1>3 DEF Silent, RepliesMatch
<1>4. ASSUME NEW what \in Outcome, Replied(what) PROVE RepliesMatch'
  <2>1. /\ Len(replies') = Len(replies) + 1 /\ Len(replies) \in Nat
        /\ DOMAIN replies = 1..Len(replies) /\ DOMAIN replies' = 1..Len(replies) + 1
        /\ \A k \in 1..Len(replies) : replies'[k] = replies[k]
        /\ replies'[Len(replies) + 1].to = next
        /\ replies'[Len(replies) + 1].id = IdOf(sent[next])
    BY <1>4 DEF Replied, TypeOK
  <2>2. \A k \in 1..Len(replies) : replies[k].to \in 1..next - 1
    BY <2>1, ReplyTo
  <2>3. \A j, k \in DOMAIN replies' : j < k => replies'[j].to < replies'[k].to
    <3>1. \A j, k \in 1..Len(replies) : j < k => replies[j].to < replies[k].to
      BY <2>1 DEF RepliesMatch
    <3>2. \A j \in 1..Len(replies) : replies[j].to < next
      BY <1>1, <2>2
    <3>. QED  BY <2>1, <3>1, <3>2
  <2>4. \A k \in DOMAIN replies' : replies'[k].id = IdOf(sent'[replies'[k].to])
    BY <1>1, <2>1 DEF RepliesMatch
  <2>5. {replies'[k].to : k \in DOMAIN replies'} = {replies[k].to : k \in DOMAIN replies} \cup {next}
    BY <2>1
  <2>6. Wanting' = Wanting \cup {next}
    BY <1>2, <1>4 DEF Replied
  <2>7. status' = "serving"
    BY <1>1, <1>4 DEF Replied
  <2>8. {replies[k].to : k \in DOMAIN replies} = Wanting
    BY <1>1 DEF RepliesMatch
  <2>. QED  BY <2>3, <2>4, <2>5, <2>6, <2>8 DEF RepliesMatch
<1>. QED  BY <1>3, <1>4 DEF Turn

LEMMA TurnLifecycle ==
    ASSUME TypeOK, FlagsRemember, RepliesMatch, LifecycleIsKept, Turn
    PROVE  LifecycleIsKept'
<1>1. next \in Nat \ {0} /\ sent' = sent
  BY DEF Turn, TypeOK
<1>2. CASE Silent
  BY <1>1, <1>2, SameLines DEF Silent, LifecycleIsKept
<1>3. ASSUME NEW what \in Outcome, Replied(what), Fitting(what) PROVE LifecycleIsKept'
  <2>1. /\ DOMAIN replies = 1..Len(replies) /\ DOMAIN replies' = 1..Len(replies) + 1
        /\ Len(replies) \in Nat
        /\ \A k \in 1..Len(replies) : replies'[k] = replies[k]
        /\ replies'[Len(replies) + 1].to = next /\ replies'[Len(replies) + 1].what = what
    BY <1>3 DEF Replied, TypeOK
  <2>. DEFINE Kept(r) ==
          /\ r.what = "initialized" <=>
                Initializes(r.to) /\ \A i \in 1..r.to - 1 : ~Initializes(i)
          /\ r.what \in {"tools", "content", "toolError", "methodNotFound"} =>
                AfterHandshake(r.to)
          /\ r.what = "notInitialized" => ~AfterHandshake(r.to)
  <2>2. \A k \in 1..Len(replies) : Kept(replies[k])
    BY <2>1 DEF LifecycleIsKept
  <2>3. Kept(replies'[Len(replies) + 1])
    BY <1>3, <2>1 DEF Fitting, FlagsRemember
  <2>4. \A k \in DOMAIN replies' : Kept(replies'[k])
    BY <2>1, <2>2, <2>3
  <2>. QED  BY <1>1, <2>4, SameLines DEF LifecycleIsKept
<1>. QED  BY <1>2, <1>3 DEF Turn

-----------------------------------------------------------------------------
(* A line that arrives changes nothing that is said about earlier ones.     *)
LEMMA SendStep ==
    ASSUME McpInv, NEW l \in Lines, Send(l)
    PROVE  McpInv'
<1>. TypeOK /\ FlagsRemember /\ RepliesMatch /\ LifecycleIsKept
  BY DEF McpInv
<1>1. /\ sent' \in Seq(Lines) /\ Len(sent') = Len(sent) + 1 /\ Len(sent) \in Nat
      /\ \A i \in 1..Len(sent) : sent'[i] = sent[i]
      /\ next \in 1..Len(sent) + 1
      /\ UNCHANGED <<next, replies, initialized, ready, status, open, available>>
  BY SendKeeps DEF TypeOK, Send
<1>2. TypeOK'
  BY <1>1 DEF TypeOK
<1>3. \A i \in 1..Len(sent) : (Initializes(i)' <=> Initializes(i)) /\ (Confirms(i)' <=> Confirms(i))
  BY <1>1 DEF Initializes, Confirms
<1>4. \A i \in 1..Len(sent) + 1 : AfterHandshake(i)' <=> AfterHandshake(i)
  <2>1. \A i \in 1..Len(sent) + 1 : 1..i - 1 \subseteq 1..Len(sent)
    BY <1>1
  <2>. QED  BY <1>3, <2>1 DEF AfterHandshake
<1>5. FlagsRemember'
  BY <1>1, <1>3, <1>4 DEF FlagsRemember
<1>6. \A k \in DOMAIN replies : replies[k].to \in 1..Len(sent) /\ replies[k].to \in 1..next - 1
  BY ReplyTo
<1>7. RepliesMatch'
  <2>1. Wanting' = Wanting
    BY <1>1 DEF Wanting
  <2>2. \A k \in DOMAIN replies : IdOf(sent'[replies[k].to]) = IdOf(sent[replies[k].to])
    BY <1>1, <1>6
  <2>. QED  BY <1>1, <2>1, <2>2 DEF RepliesMatch
<1>8. LifecycleIsKept'
  <2>1. \A k \in DOMAIN replies :
           /\ Initializes(replies[k].to)' <=> Initializes(replies[k].to)
           /\ AfterHandshake(replies[k].to)' <=> AfterHandshake(replies[k].to)
           /\ \A i \in 1..replies[k].to - 1 : Initializes(i)' <=> Initializes(i)
    BY <1>1, <1>3, <1>4, <1>6
  <2>. QED  BY <1>1, <2>1 DEF LifecycleIsKept
<1>. QED  BY <1>2, <1>5, <1>7, <1>8 DEF McpInv

(* Steps that read no line.                                                 *)
LEMMA IdleStep ==
    ASSUME McpInv, UNCHANGED <<sent, next, replies, initialized, ready>>, TypeOK',
           status' = status \/ status = "serving"
    PROVE  McpInv'
<1>. TypeOK /\ FlagsRemember /\ RepliesMatch /\ LifecycleIsKept
  BY DEF McpInv
<1>1. FlagsRemember' /\ LifecycleIsKept'
  BY SameLines DEF FlagsRemember, LifecycleIsKept
<1>2. RepliesMatch'
  BY DEF RepliesMatch, Wanting
<1>. QED  BY <1>1, <1>2 DEF McpInv

THEOREM McpInvariant == Spec => []McpInv
<1>1. Init => McpInv
  <2>. SUFFICES ASSUME Init PROVE McpInv
    OBVIOUS
  <2>1. sent = <<>> /\ replies = <<>> /\ next = 1 /\ Len(sent) = 0 /\ DOMAIN replies = {}
    BY DEF Init
  <2>2. TypeOK
    <3>1. initialized \in BOOLEAN /\ ready \in BOOLEAN /\ open \in BOOLEAN
      BY Zenon DEF Init
    <3>2. <<>> \in Seq(Lines) /\ <<>> \in Seq([to : Nat, id : Ids \cup {NoId}, what : Outcome])
      OBVIOUS
    <3>. QED  BY <2>1, <3>1, <3>2 DEF Init, TypeOK
  <2>3. FlagsRemember
    BY <2>1 DEF Init, FlagsRemember, AfterHandshake
  <2>4. RepliesMatch /\ LifecycleIsKept
    BY <2>1 DEF RepliesMatch, Wanting, LifecycleIsKept
  <2>. QED  BY <2>2, <2>3, <2>4 DEF McpInv
<1>2. McpInv /\ [Next]_vars => McpInv'
  <2>. SUFFICES ASSUME McpInv, [Next]_vars PROVE McpInv'
    OBVIOUS
  <2>. TypeOK /\ FlagsRemember /\ RepliesMatch /\ LifecycleIsKept
    BY DEF McpInv
  <2>1. ASSUME NEW l \in Lines, Send(l) PROVE McpInv'
    BY <2>1, SendStep
  <2>2. CASE Close
    BY <2>2, IdleStep DEF Close, TypeOK
  <2>3. CASE CacheChanges
    BY <2>3, IdleStep DEF CacheChanges, TypeOK
  <2>4. CASE EndOfInput
    BY <2>4, IdleStep DEF EndOfInput, TypeOK
  <2>5. CASE ServeStep /\ ~EndOfInput
    <3>1. Turn
      BY <2>5, TurnShape
    <3>. QED  BY <3>1, TurnType, TurnFlags, TurnReplies, TurnLifecycle DEF McpInv
  <2>6. CASE UNCHANGED vars
    BY <2>6, IdleStep DEF vars, TypeOK
  <2>. QED  BY <2>1, <2>2, <2>3, <2>4, <2>5, <2>6 DEF Next
<1>. QED  BY <1>1, <1>2, PTL DEF Spec

(* Every line that wants a reply gets one, in order and under its id.       *)
THEOREM OneReplyEach == Spec => []RepliesMatch
<1>1. McpInv => RepliesMatch
  BY DEF McpInv
<1>. QED  BY McpInvariant, <1>1, PTL

(* The two flags of Serve implement the lifecycle, whatever a client sends. *)
THEOREM HandshakeFirst == Spec => []LifecycleIsKept
<1>1. McpInv => LifecycleIsKept
  BY DEF McpInv
<1>. QED  BY McpInvariant, <1>1, PTL
=============================================================================
