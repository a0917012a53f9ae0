-------------------------- MODULE ReplaceFileProofs --------------------------
(***************************************************************************)
(* For any number of writers, readers and other programs, and any delays:  *)
(* the file can be read at every moment, no call waits beyond its deadline *)
(* nor gives up before it, and the growing delays bound its tries.         *)
(***************************************************************************)
EXTENDS ReplaceFile, FoldProofs

Labels == {"idle", "try", "check", "sleep", "reading", "ok", "failed", "late", "crashed"}

Contents == Writers \cup {old, missing}

(* What AlwaysReadable rests on: as long as a reader tries, what the file  *)
(* holds is among what it has held since the reader began.                 *)
Readable ==
    /\ pc \in [Calls -> Labels]
    /\ file \in Writers \cup {old}
    /\ snap \in [Readers -> Contents] /\ seen \in [Readers -> SUBSET Contents]
    /\ \A r \in Readers : Trying(r) => file \in seen[r]
    /\ \A r \in Readers : pc[r] \in {"reading", "ok"} => snap[r] \in seen[r]

(* What WaitsToTheDeadline rests on.                                       *)
Timely ==
    /\ pc \in [Calls -> Labels]
    /\ left \in [Calls -> Nat] /\ delay \in [Calls -> Nat] /\ wait \in [Calls -> Nat]
    /\ WaitsToTheDeadline

(* The smaller of two numbers, as the code's min of a delay and of what is *)
(* left until the deadline.                                                *)
LEMMA MinOfTwo ==
    ASSUME NEW a \in Nat, NEW b \in Nat
    PROVE  Min({a, b}) \in Nat /\ Min({a, b}) <= a /\ Min({a, b}) <= b
<1>1. \E x \in {a, b} : \A y \in {a, b} : x <= y
    OBVIOUS
<1>2. Min({a, b}) \in {a, b} /\ \A y \in {a, b} : Min({a, b}) <= y
    BY <1>1 DEF Min
<1> QED BY <1>2

-----------------------------------------------------------------------------
(* No step of a call makes the file disappear or a reader see what was     *)
(* never there.                                                            *)
LEMMA StepIsReadable ==
    ASSUME Readable, NEW p \in Calls, Begin(p) \/ Step(p) \/ Crash(p)
    PROVE  Readable'
<1> USE ReplaceFileAssumption DEF Readable, Labels, Contents, Trying, Calls, Goto
<1>1. CASE Begin(p)
    BY <1>1 DEF Begin
<1>2. CASE Refused(p) \/ Fail(p)
    BY <1>2 DEF Refused, Fail, Tried
<1>3. CASE Check(p) \/ Wake(p)
    BY <1>3 DEF Check, Wake
<1>4. CASE Return(p) \/ Crash(p)
    <2>1. \E label \in {"idle", "crashed"} : Forget(p, label)
        BY <1>4 DEF Return, Crash
    <2> QED BY <2>1 DEF Forget
<1>5. CASE p \in Writers /\ Rename(p)
    BY <1>5 DEF Rename, Tried
<1>6. CASE p \in Readers /\ Open(p)
    BY <1>6 DEF Open, Tried
<1>7. CASE p \in Readers /\ Close(p)
    BY <1>7 DEF Close
<1> QED BY <1>1, <1>2, <1>3, <1>4, <1>5, <1>6, <1>7 DEF Step

(* Readable is inductive.                                                  *)
LEMMA ReadableInductive == Readable /\ [Next]_vars => Readable'
<1> SUFFICES ASSUME Readable, [Next]_vars PROVE Readable'
    OBVIOUS
<1>1. CASE \E p \in Calls : Begin(p) \/ Step(p) \/ Crash(p)
    BY <1>1, StepIsReadable
<1>2. CASE UNCHANGED <<file, pc, snap, seen>>
    BY <1>2 DEF Readable, Trying
<1> QED BY <1>1, <1>2 DEF Next, Release, Hold, Tick, vars

(* The file is there at every moment, and a reader gets something that it  *)
(* held during the call (Atomic and openCacheFile).                        *)
THEOREM AlwaysReadableHolds == Spec => []AlwaysReadable
<1>1. Init => Readable
    BY ReplaceFileAssumption DEF Init, Readable, Labels, Contents, Trying, Calls
<1>2. Readable => AlwaysReadable
    BY DEF Readable, AlwaysReadable
<1> QED BY <1>1, <1>2, ReadableInductive, PTL DEF Spec

-----------------------------------------------------------------------------
(* No step of a call makes it sleep too long or give up too early.         *)
LEMMA StepIsTimely ==
    ASSUME Timely, NEW p \in Calls, Begin(p) \/ Step(p) \/ Crash(p)
    PROVE  Timely'
<1> USE DEF Timely, Labels, WaitsToTheDeadline, Goto
<1>1. CASE Begin(p)
    BY <1>1, ReplaceFileAssumption DEF Begin
<1>2. CASE Refused(p) \/ Fail(p)
    BY <1>2 DEF Refused, Fail, Tried
<1>3. CASE Check(p)
    <2>1. CASE left[p] = 0
        BY <1>3, <2>1 DEF Check
    <2>2. CASE left[p] # 0
        <3>1. Min({delay[p], left[p]}) \in Nat /\ Min({delay[p], left[p]}) <= left[p]
            BY MinOfTwo
        <3>2. 2 * delay[p] \in Nat /\ MaxDelay \in Nat
            BY ReplaceFileAssumption
        <3>3. Min({2 * delay[p], MaxDelay}) \in Nat
            BY <3>2, MinOfTwo
        <3> QED BY <1>3, <2>2, <3>1, <3>3 DEF Check
    <2> QED BY <2>1, <2>2
<1>4. CASE Wake(p)
    BY <1>4 DEF Wake, clocks
<1>5. CASE Return(p) \/ Crash(p)
    <2>1. \E label \in {"idle", "crashed"} : Forget(p, label)
        BY <1>5 DEF Return, Crash
    <2> QED BY <2>1 DEF Forget
<1>6. CASE p \in Writers /\ Rename(p)
    BY <1>6 DEF Rename, Tried
<1>7. CASE p \in Readers /\ Open(p)
    BY <1>7 DEF Open, Tried
<1>8. CASE p \in Readers /\ Close(p)
    BY <1>8 DEF Close, clocks
<1> QED BY <1>1, <1>2, <1>3, <1>4, <1>5, <1>6, <1>7, <1>8 DEF Step

(* Timely is inductive: a tick takes one off the sleep and off what is     *)
(* left until the deadline, so the one never overtakes the other.          *)
LEMMA TimelyInductive == Timely /\ [Next]_vars => Timely'
<1> SUFFICES ASSUME Timely, [Next]_vars PROVE Timely'
    OBVIOUS
<1>1. CASE \E p \in Calls : Begin(p) \/ Step(p) \/ Crash(p)
    BY <1>1, StepIsTimely
<1>2. CASE Tick
    BY <1>2 DEF Tick, Minus1, Timely, WaitsToTheDeadline
<1>3. CASE UNCHANGED <<pc, left, delay, wait>>
    BY <1>3 DEF Timely, WaitsToTheDeadline
<1> QED BY <1>1, <1>2, <1>3 DEF Next, Release, Hold, vars, clocks

(* No sleep goes beyond the deadline, and no call gives up before it       *)
(* (retrySharing).                                                         *)
THEOREM WaitsToTheDeadlineHolds == Spec => []WaitsToTheDeadline
<1>1. Init => Timely
    BY DEF Init, Timely, Labels, WaitsToTheDeadline
<1>2. Timely => WaitsToTheDeadline
    BY DEF Timely
<1> QED BY <1>1, <1>2, TimelyInductive, PTL DEF Spec

-----------------------------------------------------------------------------
(* The delays grow from the first to the longest, and are never nothing.   *)
LEMMA DelaysAre ==
    /\ \A n \in Nat : Delay[n] \in Nat \ {0}
    /\ Delay[0] = FirstDelay
    /\ \A n \in Nat : Delay[n + 1] = Min({2 * Delay[n], MaxDelay})
<1>. DEFINE S == Nat \ {0}
            G == [n \in Nat |-> [d \in S |-> Min({2 * d, MaxDelay})]]
            Body(f) == [n \in Nat |-> IF n = 0 THEN FirstDelay ELSE Min({2 * f[n - 1], MaxDelay})]
<1>1. FirstDelay \in S /\ MaxDelay \in S
    BY ReplaceFileAssumption
<1>2. ASSUME NEW d \in S PROVE Min({2 * d, MaxDelay}) \in S
    <2>1. 2 * d \in Nat /\ MaxDelay \in Nat /\ 2 * d # 0 /\ MaxDelay # 0
        BY <1>1
    <2>2. Min({2 * d, MaxDelay}) \in {2 * d, MaxDelay}
        <3>1. {2 * d, MaxDelay} \in SUBSET Nat /\ {2 * d, MaxDelay} # {}
            BY <2>1
        <3> QED BY <3>1, Least
    <2> QED BY <2>1, <2>2
<1>3. G \in [Nat -> [S -> S]]
    BY <1>2
<1>4. \A n \in Nat, d \in S : G[n][d] = Min({2 * d, MaxDelay})
    OBVIOUS
<1>. HIDE DEF S, G
<1>5. PICK f \in [Nat -> S] : Recurs(f, FirstDelay, G)
    BY <1>1, <1>3, Recursion
<1>6. f = Body(f)
    <2>1. ASSUME NEW n \in Nat, n # 0 PROVE G[n - 1][f[n - 1]] = Min({2 * f[n - 1], MaxDelay})
        <3>1. n - 1 \in Nat
            BY <2>1
        <3> QED BY <1>4, <1>5, <3>1
    <2> QED BY <1>5, <2>1 DEF Recurs
<1>7. Delay = CHOOSE g : g = Body(g)
    BY DEF Delay
<1>. HIDE DEF Body
<1>8. Delay = Body(Delay)
    BY <1>6, <1>7
<1>9. /\ Delay[0] = FirstDelay
      /\ \A n \in Nat : Delay[n + 1] = Min({2 * Delay[n], MaxDelay})
    <2>1. Delay = [n \in Nat |-> IF n = 0 THEN FirstDelay ELSE Min({2 * Delay[n - 1], MaxDelay})]
        BY <1>8 DEF Body
    <2>2. \A n \in Nat : Delay[n] = IF n = 0 THEN FirstDelay ELSE Min({2 * Delay[n - 1], MaxDelay})
        BY <2>1
    <2>3. \A n \in Nat : n + 1 \in Nat /\ n + 1 # 0 /\ (n + 1) - 1 = n
        OBVIOUS
    <2> QED BY <2>2, <2>3
<1>10. \A n \in Nat : Delay[n] \in S
    <2>. DEFINE I == {n \in Nat : Delay[n] \in S}
    <2>1. 0 \in I
        BY <1>1, <1>9
    <2>2. ASSUME NEW n \in I PROVE n + 1 \in I
        <3>1. n \in Nat /\ n + 1 \in Nat /\ Delay[n] \in S
            OBVIOUS
        <3>2. Delay[n + 1] \in S
            BY <1>2, <1>9, <3>1
        <3> QED BY <3>1, <3>2
    <2>3. I \in SUBSET Nat
        OBVIOUS
    <2>. HIDE DEF I
    <2>4. I = Nat
        BY <2>1, <2>2, <2>3, Upwards
    <2> QED BY <2>4 DEF I
<1> QED BY <1>9, <1>10 DEF S

(* After n sleeps their delays have been slept, at least n in all.         *)
LEMMA SleepsAre ==
    /\ \A n \in Nat : Slept[n] \in Nat /\ Slept[n] >= n
    /\ Slept[0] = 0
    /\ \A n \in Nat : Slept[n + 1] = Slept[n] + Delay[n]
<1>. DEFINE G == [n \in Nat |-> [d \in Nat |-> d + Delay[n]]]
            Body(f) == [n \in Nat |-> IF n = 0 THEN 0 ELSE f[n - 1] + Delay[n - 1]]
<1>1. \A n \in Nat : Delay[n] \in Nat /\ Delay[n] >= 1
    BY DelaysAre
<1>2. G \in [Nat -> [Nat -> Nat]] /\ 0 \in Nat
    BY <1>1
<1>3. \A n, d \in Nat : G[n][d] = d + Delay[n]
    OBVIOUS
<1>. HIDE DEF G
<1>4. PICK f \in [Nat -> Nat] : Recurs(f, 0, G)
    BY <1>2, Recursion
<1>5. f = Body(f)
    <2>1. ASSUME NEW n \in Nat, n # 0 PROVE G[n - 1][f[n - 1]] = f[n - 1] + Delay[n - 1]
        <3>1. n - 1 \in Nat
            BY <2>1
        <3> QED BY <1>3, <1>4, <3>1
    <2> QED BY <1>4, <2>1 DEF Recurs
<1>6. Slept = CHOOSE g : g = Body(g)
    BY DEF Slept
<1>. HIDE DEF Body
<1>7. Slept = Body(Slept)
    BY <1>5, <1>6
<1>8. Slept[0] = 0 /\ \A n \in Nat : Slept[n + 1] = Slept[n] + Delay[n]
    <2>1. Slept = [n \in Nat |-> IF n = 0 THEN 0 ELSE Slept[n - 1] + Delay[n - 1]]
        BY <1>7 DEF Body
    <2>2. \A n \in Nat : Slept[n] = IF n = 0 THEN 0 ELSE Slept[n - 1] + Delay[n - 1]
        BY <2>1
    <2>3. \A n \in Nat : n + 1 \in Nat /\ n + 1 # 0 /\ (n + 1) - 1 = n
        OBVIOUS
    <2> QED BY <2>2, <2>3
<1>9. \A n \in Nat : Slept[n] \in Nat /\ Slept[n] >= n
    <2>. DEFINE I == {n \in Nat : Slept[n] \in Nat /\ Slept[n] >= n}
    <2>1. 0 \in I
        BY <1>8
    <2>2. ASSUME NEW n \in I PROVE n + 1 \in I
        <3>1. Slept[n + 1] = Slept[n] + Delay[n] /\ Slept[n] \in Nat /\ Slept[n] >= n
            BY <1>8
        <3>2. Delay[n] \in Nat /\ Delay[n] >= 1
            BY <1>1
        <3> QED BY <3>1, <3>2
    <2>3. I \in SUBSET Nat
        OBVIOUS
    <2>. HIDE DEF I
    <2>4. I = Nat
        BY <2>1, <2>2, <2>3, Upwards
    <2> QED BY <2>4 DEF I
<1> QED BY <1>8, <1>9

(* The sleeps that fit are the least number whose delays reach the         *)
(* deadline.                                                               *)
Sleeps == Min({n \in 0..Deadline : Slept[n] >= Deadline})

LEMMA SleepsReachTheDeadline ==
    Sleeps \in Nat /\ Slept[Sleeps] >= Deadline /\ MostTries = 1 + Sleeps
<1>. DEFINE E == {n \in 0..Deadline : Slept[n] >= Deadline}
<1>1. Deadline \in Nat
    BY ReplaceFileAssumption
<1>2. E \in SUBSET Nat
    BY <1>1
<1>3. Deadline \in E
    BY <1>1, SleepsAre
<1>4. Sleeps = Min(E) /\ MostTries = 1 + Min(E)
    BY DEF Sleeps, MostTries
<1>5. Min(E) \in E
    <2>. HIDE DEF E
    <2> QED BY <1>2, <1>3, Least
<1> QED BY <1>2, <1>4, <1>5

(* What FewTries rests on: a call that has tried k times has slept k - 1   *)
(* delays, k behind the sleep, and what is left is at most the rest of the *)
(* deadline; so there are never more tries than sleeps that fit and one.   *)
Rest(n, k) == n = 0 \/ n + Slept[k] <= Deadline

Paced(p) ==
    /\ tries[p] <= MostTries
    /\ pc[p] = "try" =>
         tries[p] <= Sleeps /\ delay[p] = Delay[tries[p]] /\ Rest(left[p], tries[p])
    /\ pc[p] = "check" =>
         tries[p] >= 1 /\ delay[p] = Delay[tries[p] - 1] /\ Rest(left[p], tries[p] - 1)
    /\ pc[p] = "sleep" =>
         /\ 1 <= tries[p] /\ tries[p] <= Sleeps /\ delay[p] = Delay[tries[p]]
         /\ wait[p] <= left[p] /\ Rest(left[p] - wait[p], tries[p])

Pacing ==
    /\ pc \in [Calls -> Labels]
    /\ left \in [Calls -> Nat] /\ delay \in [Calls -> Nat] /\ wait \in [Calls -> Nat]
    /\ tries \in [Calls -> Nat]
    /\ \A p \in Calls : Paced(p)

(* One try more is counted, as long as there are no more than fit.         *)
LEMMA OneTryMore ==
    ASSUME Pacing, NEW p \in Calls, Tried(p), NEW label, Goto(p, label),
           label \in Labels \ {"try", "sleep"}
    PROVE  Pacing'
<1>1. Sleeps \in Nat /\ MostTries = 1 + Sleeps
    BY SleepsReachTheDeadline
<1>2. tries[p] \in Nat /\ tries[p] <= Sleeps /\ delay[p] = Delay[tries[p]] /\ Rest(left[p], tries[p])
    BY DEF Pacing, Paced, Tried
<1>3. Min({tries[p] + 1, MostTries + 1}) = tries[p] + 1
    <2>1. tries[p] + 1 \in Nat /\ tries[p] + 1 <= MostTries + 1 /\ MostTries + 1 \in Nat
        BY <1>1, <1>2
    <2>2. {tries[p] + 1, MostTries + 1} \in SUBSET Nat /\ {tries[p] + 1, MostTries + 1} # {}
        BY <2>1
    <2>3. /\ Min({tries[p] + 1, MostTries + 1}) \in {tries[p] + 1, MostTries + 1}
          /\ Min({tries[p] + 1, MostTries + 1}) <= tries[p] + 1
        BY <2>2, Least
    <2> QED BY <2>1, <2>3
<1>4. /\ tries' = [tries EXCEPT ![p] = tries[p] + 1] /\ pc' = [pc EXCEPT ![p] = label]
      /\ left' = left /\ delay' = delay /\ wait' = wait
    BY <1>3 DEF Tried, Goto
<1>5. /\ pc' \in [Calls -> Labels] /\ tries' \in [Calls -> Nat]
      /\ left' \in [Calls -> Nat] /\ delay' \in [Calls -> Nat] /\ wait' \in [Calls -> Nat]
    BY <1>2, <1>4 DEF Pacing
<1>6. ASSUME NEW q \in Calls PROVE Paced(q)'
    <2>1. CASE q # p
        BY <1>4, <2>1 DEF Pacing, Paced
    <2>2. CASE q = p
        <3>1. tries'[q] = tries[p] + 1 /\ (tries[p] + 1) - 1 = tries[p] /\ pc'[q] = label
            BY <1>2, <1>4, <2>2 DEF Pacing
        <3>2. tries'[q] <= MostTries /\ tries'[q] >= 1
            BY <1>1, <1>2, <3>1
        <3>3. delay'[q] = Delay[tries'[q] - 1] /\ Rest(left'[q], tries'[q] - 1)
            BY <1>2, <1>4, <2>2, <3>1
        <3> QED BY <3>1, <3>2, <3>3 DEF Paced
    <2> QED BY <2>1, <2>2
<1> QED BY <1>5, <1>6 DEF Pacing

(* What the other steps of a call do to its clocks.                        *)
LEMMA CheckIsPaced ==
    ASSUME Pacing, NEW p \in Calls, Check(p)
    PROVE  Pacing'
<1>1. Sleeps \in Nat /\ Slept[Sleeps] >= Deadline /\ MostTries = 1 + Sleeps /\ Deadline \in Nat
    BY SleepsReachTheDeadline, ReplaceFileAssumption
<1>2. /\ tries[p] \in Nat /\ tries[p] >= 1 /\ tries[p] <= MostTries
      /\ delay[p] = Delay[tries[p] - 1] /\ Rest(left[p], tries[p] - 1) /\ left[p] \in Nat
    BY DEF Pacing, Paced, Check
<1>3. CASE left[p] = 0
    <2>1. /\ pc' = [pc EXCEPT ![p] = "late"] /\ left' = left /\ delay' = delay /\ wait' = wait
          /\ tries' = tries
        BY <1>3 DEF Check, Goto
    <2>2. pc' \in [Calls -> Labels]
        BY <2>1 DEF Pacing, Labels
    <2>3. ASSUME NEW q \in Calls PROVE Paced(q)'
        BY <2>1 DEF Pacing, Paced
    <2> QED BY <2>1, <2>2, <2>3 DEF Pacing
<1>4. CASE left[p] # 0
    <2>. DEFINE k == tries[p] - 1
    <2>1. k \in Nat /\ k + 1 = tries[p] /\ delay[p] = Delay[k] /\ left[p] + Slept[k] <= Deadline
        BY <1>2, <1>4 DEF Rest
    <2>. HIDE DEF k
    <2>2. Delay[k] \in Nat /\ Slept[k] \in Nat /\ Slept[k + 1] = Slept[k] + Delay[k]
        BY <2>1, DelaysAre, SleepsAre
    <2>3. k # Sleeps
        BY <1>1, <1>2, <1>4, <2>1, <2>2
    <2>4. tries[p] <= Sleeps
        BY <1>1, <1>2, <2>1, <2>3
    <2>. DEFINE w == Min({delay[p], left[p]})
                d == Min({2 * delay[p], MaxDelay})
    <2>5. w \in {delay[p], left[p]} /\ w \in Nat /\ w <= left[p]
        <3>1. {delay[p], left[p]} \in SUBSET Nat /\ {delay[p], left[p]} # {}
            BY <1>2, <2>1, <2>2
        <3>2. w \in {delay[p], left[p]} /\ w <= left[p]
            BY <3>1, Least
        <3> QED BY <3>1, <3>2
    <2>6. d = Delay[tries[p]] /\ d \in Nat
        BY <2>1, <2>2, DelaysAre
    <2>. HIDE DEF w, d
    <2>7. Rest(left[p] - w, tries[p])
        <3>1. CASE w = left[p]
            BY <1>2, <3>1 DEF Rest
        <3>2. CASE w = delay[p]
            <4>1. left[p] - w + Slept[tries[p]] = left[p] + Slept[k]
                BY <1>2, <2>1, <2>2, <3>2
            <4> QED BY <2>1, <4>1 DEF Rest
        <3> QED BY <2>5, <3>1, <3>2
    <2>8. /\ pc' = [pc EXCEPT ![p] = "sleep"] /\ left' = left
          /\ delay' = [delay EXCEPT ![p] = d] /\ wait' = [wait EXCEPT ![p] = w]
          /\ tries' = tries
        BY <1>4 DEF Check, Goto, w, d
    <2>9. /\ pc' \in [Calls -> Labels] /\ delay' \in [Calls -> Nat] /\ wait' \in [Calls -> Nat]
          /\ left' \in [Calls -> Nat] /\ tries' \in [Calls -> Nat]
        BY <2>5, <2>6, <2>8 DEF Pacing, Labels
    <2>10. ASSUME NEW q \in Calls PROVE Paced(q)'
        <3>1. CASE q # p
            BY <2>8, <3>1 DEF Pacing, Paced
        <3>2. CASE q = p
            <4>1. /\ pc'[p] = "sleep" /\ left'[p] = left[p] /\ delay'[p] = d /\ wait'[p] = w
                  /\ tries'[p] = tries[p]
                BY <2>8 DEF Pacing
            <4> QED BY <1>2, <2>4, <2>5, <2>6, <2>7, <3>2, <4>1 DEF Paced
        <3> QED BY <3>1, <3>2
    <2> QED BY <2>9, <2>10 DEF Pacing
<1> QED BY <1>3, <1>4

LEMMA OthersArePaced ==
    ASSUME Pacing, NEW p \in Calls, Begin(p) \/ Wake(p) \/ Return(p) \/ Crash(p) \/ (p \in Readers /\ Close(p))
    PROVE  Pacing'
<1>1. Sleeps \in Nat /\ MostTries = 1 + Sleeps /\ Deadline \in Nat /\ Delay[0] = FirstDelay /\ Slept[0] = 0
    BY SleepsReachTheDeadline, ReplaceFileAssumption, DelaysAre, SleepsAre
<1>2. CASE Begin(p)
    <2>1. /\ pc' = [pc EXCEPT ![p] = "try"] /\ left' = [left EXCEPT ![p] = Deadline]
          /\ delay' = [delay EXCEPT ![p] = FirstDelay] /\ tries' = [tries EXCEPT ![p] = 0] /\ wait' = wait
        BY <1>2 DEF Begin, Goto
    <2>2. /\ pc' \in [Calls -> Labels] /\ delay' \in [Calls -> Nat] /\ wait' \in [Calls -> Nat]
          /\ left' \in [Calls -> Nat] /\ tries' \in [Calls -> Nat]
        BY <1>1, <2>1, ReplaceFileAssumption DEF Pacing, Labels
    <2>3. Rest(Deadline, 0)
        BY <1>1 DEF Rest
    <2>4. ASSUME NEW q \in Calls PROVE Paced(q)'
        BY <1>1, <2>1, <2>3 DEF Pacing, Paced
    <2> QED BY <2>2, <2>4 DEF Pacing
<1>3. CASE Wake(p)
    <2>1. /\ pc' = [pc EXCEPT ![p] = "try"] /\ left' = left /\ delay' = delay /\ wait' = wait
          /\ tries' = tries /\ pc[p] = "sleep" /\ wait[p] = 0
        BY <1>3 DEF Wake, Goto, clocks
    <2>2. pc' \in [Calls -> Labels]
        BY <2>1 DEF Pacing, Labels
    <2>3. Rest(left[p], tries[p])
        <3>1. left[p] - 0 = left[p]
            BY DEF Pacing
        <3> QED BY <2>1, <3>1 DEF Pacing, Paced
    <2>4. ASSUME NEW q \in Calls PROVE Paced(q)'
        BY <2>1, <2>3 DEF Pacing, Paced
    <2> QED BY <2>1, <2>2, <2>4 DEF Pacing
<1>4. CASE Return(p) \/ Crash(p)
    <2>1. PICK label \in {"idle", "crashed"} : Forget(p, label)
        BY <1>4 DEF Return, Crash
    <2>2. /\ pc' = [pc EXCEPT ![p] = label] /\ left' = [left EXCEPT ![p] = 0]
          /\ delay' = [delay EXCEPT ![p] = 0] /\ tries' = [tries EXCEPT ![p] = 0]
          /\ wait' = [wait EXCEPT ![p] = 0]
        BY <2>1 DEF Forget, Goto
    <2>3. /\ pc' \in [Calls -> Labels] /\ delay' \in [Calls -> Nat] /\ wait' \in [Calls -> Nat]
          /\ left' \in [Calls -> Nat] /\ tries' \in [Calls -> Nat]
        BY <2>2 DEF Pacing, Labels
    <2>4. ASSUME NEW q \in Calls PROVE Paced(q)'
        BY <1>1, <2>2 DEF Pacing, Paced
    <2> QED BY <2>3, <2>4 DEF Pacing
<1>5. CASE p \in Readers /\ Close(p)
    <2>1. /\ pc' = [pc EXCEPT ![p] = "ok"] /\ left' = left /\ delay' = delay /\ wait' = wait
          /\ tries' = tries
        BY <1>5 DEF Close, Goto, clocks
    <2>2. pc' \in [Calls -> Labels]
        BY <2>1 DEF Pacing, Labels
    <2>3. ASSUME NEW q \in Calls PROVE Paced(q)'
        BY <2>1 DEF Pacing, Paced
    <2> QED BY <2>1, <2>2, <2>3 DEF Pacing
<1> QED BY <1>2, <1>3, <1>4, <1>5

LEMMA TickIsPaced ==
    ASSUME Pacing, Tick
    PROVE  Pacing'
<1>1. /\ pc' = pc /\ delay' = delay /\ tries' = tries
      /\ \A q \in Calls : left'[q] = Minus1(left[q]) /\ wait'[q] = Minus1(wait[q])
    BY DEF Tick
<1>2. /\ left' \in [Calls -> Nat] /\ wait' \in [Calls -> Nat]
    BY DEF Tick, Pacing, Minus1
<1>3. \A k \in Nat : Slept[k] \in Nat
    BY SleepsAre
<1>4. Deadline \in Nat
    BY ReplaceFileAssumption
<1>5. ASSUME NEW n \in Nat, NEW k \in Nat, Rest(n, k) PROVE Rest(Minus1(n), k)
    BY <1>3, <1>4, <1>5 DEF Rest, Minus1
<1>6. ASSUME NEW q \in Calls PROVE Paced(q)'
    <2>1. Paced(q) /\ left[q] \in Nat /\ wait[q] \in Nat /\ tries[q] \in Nat
        BY DEF Pacing
    <2>2. tries[q] >= 1 => tries[q] - 1 \in Nat
        BY <2>1
    <2>3. pc[q] \in {"try", "check"} => Paced(q)'
        BY <1>1, <1>5, <2>1, <2>2 DEF Paced
    <2>4. ASSUME pc[q] = "sleep" PROVE Paced(q)'
        <3>1. Rest(Minus1(left[q]) - Minus1(wait[q]), tries[q]) /\ Minus1(wait[q]) <= Minus1(left[q])
            <4>1. wait[q] <= left[q] /\ Rest(left[q] - wait[q], tries[q]) /\ left[q] - wait[q] \in Nat
                BY <2>1, <2>4 DEF Paced
            <4>2. CASE wait[q] = 0
                <5>1. left[q] - wait[q] = left[q] /\ Minus1(left[q]) - Minus1(wait[q]) = Minus1(left[q])
                    BY <2>1, <4>2 DEF Minus1
                <5>2. Minus1(wait[q]) <= Minus1(left[q])
                    BY <2>1, <4>2 DEF Minus1
                <5> QED BY <1>5, <2>1, <4>1, <5>1, <5>2
            <4>3. CASE wait[q] # 0
                <5>1. /\ Minus1(left[q]) - Minus1(wait[q]) = left[q] - wait[q]
                      /\ Minus1(wait[q]) <= Minus1(left[q])
                    BY <2>1, <4>1, <4>3 DEF Minus1
                <5> QED BY <4>1, <5>1
            <4> QED BY <4>2, <4>3
        <3> QED BY <1>1, <2>1, <2>4, <3>1 DEF Paced
    <2>5. pc[q] \notin {"try", "check", "sleep"} => Paced(q)'
        BY <1>1, <2>1 DEF Paced
    <2> QED BY <2>3, <2>4, <2>5
<1> QED BY <1>1, <1>2, <1>6 DEF Pacing

(* The growing delays bound the tries of every call (retrySharing).        *)
THEOREM FewTriesHolds == Spec => []FewTries
<1>1. Init => Pacing
    <2>1. Sleeps \in Nat /\ MostTries = 1 + Sleeps
        BY SleepsReachTheDeadline
    <2> QED BY <2>1 DEF Init, Pacing, Paced, Labels
<1>2. Pacing /\ [Next]_vars => Pacing'
    <2>. SUFFICES ASSUME Pacing, [Next]_vars PROVE Pacing'
        OBVIOUS
    <2>1. ASSUME NEW p \in Calls, Begin(p) \/ Step(p) \/ Crash(p) PROVE Pacing'
        <3>1. CASE Begin(p) \/ Wake(p) \/ Return(p) \/ Crash(p) \/ (p \in Readers /\ Close(p))
            BY <3>1, OthersArePaced
        <3>2. CASE Check(p)
            BY <3>2, CheckIsPaced
        <3>3. CASE Refused(p) \/ Fail(p) \/ (p \in Writers /\ Rename(p)) \/ (p \in Readers /\ Open(p))
            <4>1. \E label \in {"check", "failed", "ok", "reading"} : Tried(p) /\ Goto(p, label)
                BY <3>3 DEF Refused, Fail, Rename, Open
            <4> QED BY <4>1, OneTryMore DEF Labels
        <3> QED BY <2>1, <3>1, <3>2, <3>3 DEF Step
    <2>2. CASE Tick
        BY <2>2, TickIsPaced
    <2>3. CASE UNCHANGED <<pc, left, delay, wait, tries>>
        BY <2>3 DEF Pacing, Paced
    <2> QED BY <2>1, <2>2, <2>3 DEF Next, Release, Hold, vars, clocks
<1>3. Pacing => FewTries
    BY DEF Pacing, Paced, FewTries
<1> QED BY <1>1, <1>2, <1>3, PTL DEF Spec
=============================================================================
