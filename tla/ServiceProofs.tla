---------------------------- MODULE ServiceProofs ----------------------------
(***************************************************************************)
(* What the parts of MCParts that are not backends keep, for any number of *)
(* closeables, middlewares, retries, calls, threads and hops: graceful     *)
(* shutdown, the middleware chain, dependencies, registration and the      *)
(* formats of messages.  With LogProofs and BackendProofs this makes the   *)
(* types of all ten parts theorems (TypesOfParts).                         *)
(*                                                                         *)
(* Every part has an inductive invariant of its own.  That of the chain    *)
(* says where the one delivery is: outside of whatever has diverted it,    *)
(* or unwrapped its PermanentError, unless there is a retry() around that  *)
(* (DivertedInside, PermanentInside); that of the shutdown, how far the    *)
(* watcher is (ClosedInTurn), and why the scope was cancelled if nothing   *)
(* failed (CalmEndsAtLast).                                                *)
(***************************************************************************)
EXTENDS BackendProofs, SequenceTheorems

-----------------------------------------------------------------------------
(* GracefulShutdown                                                        *)

NoneIsNotRunning == \A k \in Shutdown!Args : run[k] = "none" <=> k \notin running
\* The watcher goes through the closeables in their order, and stops at one that raised.
ClosedInTurn ==
    \A k \in Shutdown!Args :
        /\ k < watcher => close[k] = "returned"
        /\ k = watcher => close[k] # "uncalled"
        /\ k > watcher => close[k] = "uncalled"
EndedWasClosed == \A k \in Shutdown!Args \ alone : run[k] = "ended" => close[k] # "uncalled"
\* As long as nothing fails only the end of the body cancels, and then every service has ended.
CalmEndsAtLast ==
    Shutdown!Calm => IF scope = "active" THEN \A k \in Shutdown!Args : run[k] # "cut"
                     ELSE \A k \in running : run[k] = "ended"

ShutdownInv ==
    /\ Shutdown!TypeOK
    /\ NoneIsNotRunning
    /\ ClosedInTurn
    /\ EndedWasClosed
    /\ CalmEndsAtLast

\* CalmShutdownIsOrderly: a service before which a closeable comes has ended, so it was closed,
\* so the watcher was there.
LEMMA ShutdownOrderly == ShutdownInv => Shutdown!CalmShutdownIsOrderly
<1> SUFFICES ASSUME ShutdownInv, Shutdown!Calm
             PROVE  /\ \A k \in Shutdown!Args : run[k] # "cut"
                    /\ scope = "left" =>
                         \A k \in Shutdown!Args :
                            (\E j \in running : k < j) => close[k] = "returned"
  BY DEF Shutdown!CalmShutdownIsOrderly
<1>1. /\ alone = {} /\ running \subseteq Shutdown!Args /\ Closeables \in Nat
      /\ watcher \in 0..(Closeables + 1)
      /\ run \in [Shutdown!Args -> {"none", "runs", "ended", "failed", "cut"}]
  BY SizesAssumption DEF ShutdownInv, Shutdown!TypeOK, Shutdown!Calm
<1>n. watcher \in Int /\ \A k \in Shutdown!Args : k \in Int
  BY <1>1 DEF Shutdown!Args
<1>2. \A k \in Shutdown!Args : run[k] # "cut"
  <2>1. CASE scope = "active"
    BY <2>1 DEF ShutdownInv, CalmEndsAtLast
  <2>2. CASE scope # "active"
    <3>1. \A k \in running : run[k] = "ended"
      BY <2>2 DEF ShutdownInv, CalmEndsAtLast
    <3>2. \A k \in Shutdown!Args : k \notin running => run[k] = "none"
      BY DEF ShutdownInv, NoneIsNotRunning
    <3> QED
      BY <3>1, <3>2
  <2> QED
    BY <2>1, <2>2
<1>3. ASSUME scope = "left", NEW k \in Shutdown!Args, NEW j \in running, k < j
      PROVE  close[k] = "returned"
  <2>1. run[j] = "ended"
    BY <1>3 DEF ShutdownInv, CalmEndsAtLast
  <2>2. j \in Shutdown!Args /\ close[j] # "uncalled"
    BY <1>1, <2>1 DEF ShutdownInv, EndedWasClosed
  <2>3. j <= watcher
    BY <1>n, <2>2 DEF ShutdownInv, ClosedInTurn
  <2>4. k < watcher
    BY <1>1, <1>n, <1>3, <2>2, <2>3
  <2> QED
    BY <2>4 DEF ShutdownInv, ClosedInTurn
<1> QED
  BY <1>2, <1>3

\* Every action of GracefulShutdown preserves the invariant.
LEMMA ShutdownStep == ShutdownInv /\ Shutdown!Next => ShutdownInv'
<1> SUFFICES ASSUME ShutdownInv, Shutdown!Next
             PROVE  ShutdownInv'
  OBVIOUS
<1> DEFINE A == Shutdown!Args
           RunTypes == [A -> {"none", "runs", "ended", "failed", "cut"}]
           CloseTypes == [A -> {"uncalled", "called", "returned", "failed", "cut"}]
<1>0. /\ running \subseteq A /\ installed \in BOOLEAN /\ event \in BOOLEAN
      /\ Closeables \in Nat /\ \A k \in A : k \in Int /\ 1 <= k /\ k <= Closeables
      /\ watcher \in 0..(Closeables + 1)
      /\ run \in RunTypes /\ close \in CloseTypes
      /\ scope \in {"active", "cancelled", "left"} /\ alone \subseteq running
      /\ scope = "left" => ~installed /\ \A k \in A : run[k] # "runs" /\ close[k] # "called"
  BY SizesAssumption DEF ShutdownInv, Shutdown!TypeOK, Shutdown!Args
<1>1. \A k \in A : run[k] = "none" <=> k \notin running
  BY DEF ShutdownInv, NoneIsNotRunning
<1>2. \A k \in A : /\ k < watcher => close[k] = "returned"
                   /\ k = watcher => close[k] # "uncalled"
                   /\ k > watcher => close[k] = "uncalled"
  BY DEF ShutdownInv, ClosedInTurn
<1>3. \A k \in A \ alone : run[k] = "ended" => close[k] # "uncalled"
  BY DEF ShutdownInv, EndedWasClosed
<1>4. Shutdown!Calm => IF scope = "active" THEN \A k \in A : run[k] # "cut"
                       ELSE \A k \in running : run[k] = "ended"
  BY DEF ShutdownInv, CalmEndsAtLast
<1> HIDE DEF A
\* What stays is enough where only the services move, or only the closeables.
<1>c. ASSUME close' \in CloseTypes, watcher' \in 0..(Closeables + 1),
             UNCHANGED <<running, installed, event, run, alone>>,
             \/ scope' = scope
             \/ scope' = "cancelled" /\ ~Shutdown!Calm'
             \/ scope' = "cancelled" /\ \A k \in running : run[k] = "ended",
             scope # "left" \/ \A k \in A : close'[k] # "called",
             \A k \in A : close[k] # "uncalled" => close'[k] # "uncalled",
             \A k \in A : close[k] = "failed" => close'[k] = "failed",
             \A k \in A : /\ k < watcher' => close'[k] = "returned"
                          /\ k = watcher' => close'[k] # "uncalled"
                          /\ k > watcher' => close'[k] = "uncalled"
      PROVE  ShutdownInv'
  <2>1. Shutdown!Calm' => Shutdown!Calm
    BY <1>c, <1>0 DEF Shutdown!Calm, A
  <2>2. CalmEndsAtLast'
    BY <1>c, <1>0, <1>4, <2>1 DEF CalmEndsAtLast, A
  <2>3. ClosedInTurn'
    BY <1>c DEF ClosedInTurn, A
  <2>4. EndedWasClosed'
    BY <1>c, <1>3 DEF EndedWasClosed, A
  <2>5. NoneIsNotRunning'
    BY <1>c, <1>1 DEF NoneIsNotRunning, A
  <2>6. Shutdown!TypeOK'
    BY <1>c, <1>0 DEF Shutdown!TypeOK, A
  <2> QED
    BY <2>2, <2>3, <2>4, <2>5, <2>6 DEF ShutdownInv
<1>r. ASSUME NEW k \in A, NEW how \in {"ended", "failed", "cut"}, run[k] = "runs",
             run' = [run EXCEPT ![k] = how],
             UNCHANGED <<running, installed, event, watcher, close>>,
             alone' = IF how = "ended" /\ close[k] = "uncalled" THEN alone \cup {k} ELSE alone,
             scope' = IF how = "failed" THEN "cancelled" ELSE scope,
             how = "cut" => scope = "cancelled"
      PROVE  ShutdownInv'
  <2>0. scope # "left" /\ k \in running
    BY <1>r, <1>0, <1>1
  <2>1. /\ run' \in RunTypes
        /\ \A j \in A : run'[j] = IF j = k THEN how ELSE run[j]
    BY <1>r, <1>0
  <2>2. Shutdown!Calm' => Shutdown!Calm /\ how # "failed"
    <3> SUFFICES ASSUME Shutdown!Calm' PROVE Shutdown!Calm /\ how # "failed"
      OBVIOUS
    <3>1. alone' = {} /\ \A j \in A : "failed" \notin {run'[j], close[j]}
      BY <1>r DEF Shutdown!Calm, A
    <3>2. how # "failed"
      BY <3>1, <2>1
    <3>3. \A j \in A : "failed" \notin {run[j], close[j]}
      BY <3>1, <2>1, <1>r
    <3>4. alone = {}
      BY <3>1, <1>r
    <3> QED
      BY <3>2, <3>3, <3>4 DEF Shutdown!Calm, A
  <2>3. Shutdown!Calm => scope = "active"
    BY <1>4, <1>r, <2>0
  <2>4. CalmEndsAtLast'
    BY <1>r, <1>4, <2>1, <2>2, <2>3 DEF CalmEndsAtLast, A
  <2>5. ClosedInTurn'
    BY <1>r, <1>2 DEF ClosedInTurn, A
  <2>6. EndedWasClosed'
    BY <1>r, <1>3, <2>1 DEF EndedWasClosed, A
  <2>7. NoneIsNotRunning'
    BY <1>r, <1>1, <2>0, <2>1 DEF NoneIsNotRunning, A
  <2>8. alone' \subseteq running
    BY <1>r, <1>0, <2>0
  <2>9. Shutdown!TypeOK'
    BY <1>r, <1>0, <2>0, <2>1, <2>8 DEF Shutdown!TypeOK, A
  <2> QED
    BY <2>4, <2>5, <2>6, <2>7, <2>9 DEF ShutdownInv
<1>5. CASE Shutdown!Signal
  <2>1. installed /\ event' = TRUE
        /\ UNCHANGED <<running, installed, watcher, run, close, scope, alone>>
    BY <1>5 DEF Shutdown!Signal
  <2>2. Shutdown!Calm' = Shutdown!Calm
    BY <2>1 DEF Shutdown!Calm
  <2>3. CalmEndsAtLast' /\ ClosedInTurn' /\ EndedWasClosed' /\ NoneIsNotRunning'
    BY <2>1, <2>2, <1>1, <1>2, <1>3, <1>4
       DEF CalmEndsAtLast, ClosedInTurn, EndedWasClosed, NoneIsNotRunning, A
  <2>4. Shutdown!TypeOK'
    BY <2>1, <1>0 DEF Shutdown!TypeOK, A
  <2> QED
    BY <2>3, <2>4 DEF ShutdownInv
<1>6. CASE Shutdown!WatcherWakes
  <2>1. /\ watcher = 0 /\ scope # "left" /\ watcher' = 1
        /\ close' = [j \in A |-> IF j = 0 THEN "returned" ELSE IF j = 1 THEN "called" ELSE close[j]]
        /\ UNCHANGED <<running, installed, event, run, scope, alone>>
    BY <1>6 DEF Shutdown!WatcherWakes, Shutdown!CallsNext, A
  <2>2. \A j \in A : close'[j] = IF j = 1 THEN "called" ELSE "uncalled"
    BY <2>1, <1>0, <1>2
  <2>3. close' \in CloseTypes
    BY <2>1, <1>0
  <2>4. \A j \in A : close[j] = "uncalled"
    BY <2>1, <1>0, <1>2
  <2>5. \A k \in A : /\ k < watcher' => close'[k] = "returned"
                     /\ k = watcher' => close'[k] # "uncalled"
                     /\ k > watcher' => close'[k] = "uncalled"
    BY <2>1, <2>2, <1>0
  <2>6. watcher' \in 0..(Closeables + 1)
    BY <2>1, <1>0
  <2> QED
    BY <1>c, <2>1, <2>3, <2>4, <2>5, <2>6
<1>7. CASE Shutdown!CloseReturns
  <2>1. /\ watcher \in A /\ close[watcher] = "called" /\ watcher' = watcher + 1
        /\ close' = [j \in A |-> IF j = watcher THEN "returned"
                                 ELSE IF j = watcher + 1 THEN "called" ELSE close[j]]
        /\ UNCHANGED <<running, installed, event, run, scope, alone>>
    BY <1>7 DEF Shutdown!CloseReturns, Shutdown!CloseUnderWay, Shutdown!CallsNext, A
  <2>2. \A j \in A : close'[j] = IF j = watcher THEN "returned"
                                 ELSE IF j = watcher + 1 THEN "called" ELSE close[j]
    BY <2>1
  <2>3. close' \in CloseTypes
    BY <2>1, <1>0
  <2>4. scope # "left"
    BY <2>1, <1>0
  <2>5. \A k \in A : /\ k < watcher' => close'[k] = "returned"
                     /\ k = watcher' => close'[k] # "uncalled"
                     /\ k > watcher' => close'[k] = "uncalled"
    BY <2>1, <2>2, <1>0, <1>2
  <2>6. watcher' \in 0..(Closeables + 1)
    BY <2>1, <1>0
  <2>7. \A k \in A : /\ close[k] # "uncalled" => close'[k] # "uncalled"
                     /\ close[k] = "failed" => close'[k] = "failed"
    BY <2>1, <2>2, <1>0, <1>2
  <2> QED
    BY <1>c, <2>1, <2>3, <2>4, <2>5, <2>6, <2>7
<1>8. CASE Shutdown!CloseRaises \/ Shutdown!WatcherCancelled
  <2>1. PICK how \in {"failed", "cut"} :
        /\ watcher \in A /\ close[watcher] = "called"
        /\ close' = [close EXCEPT ![watcher] = how]
        /\ scope' = IF how = "failed" THEN "cancelled" ELSE scope
        /\ UNCHANGED <<running, installed, event, watcher, run, alone>>
    BY <1>8 DEF Shutdown!CloseRaises, Shutdown!WatcherCancelled, Shutdown!CloseUnderWay, A
  <2>2. /\ close' \in CloseTypes
        /\ \A j \in A : close'[j] = IF j = watcher THEN how ELSE close[j]
    BY <2>1, <1>0
  <2>3. scope # "left"
    BY <2>1, <1>0
  <2>4. \/ scope' = scope
        \/ scope' = "cancelled" /\ ~Shutdown!Calm'
    <3>1. CASE how = "failed"
      BY <3>1, <2>1, <2>2 DEF Shutdown!Calm, A
    <3>2. CASE how # "failed"
      BY <3>2, <2>1
    <3> QED
      BY <3>1, <3>2
  <2>5. \A k \in A : /\ k < watcher' => close'[k] = "returned"
                     /\ k = watcher' => close'[k] # "uncalled"
                     /\ k > watcher' => close'[k] = "uncalled"
    BY <2>1, <2>2, <1>0, <1>2
  <2>6. \A k \in A : /\ close[k] # "uncalled" => close'[k] # "uncalled"
                     /\ close[k] = "failed" => close'[k] = "failed"
    BY <2>1, <2>2
  <2> QED
    BY <1>c, <1>0, <2>1, <2>2, <2>3, <2>4, <2>5, <2>6
<1>9. ASSUME NEW k \in A, Shutdown!RunEnds(k) \/ Shutdown!RunRaises(k) \/ Shutdown!RunCancelled(k)
      PROVE  ShutdownInv'
  <2>1. PICK how \in {"ended", "failed", "cut"} :
        /\ run[k] = "runs" /\ run' = [run EXCEPT ![k] = how]
        /\ UNCHANGED <<running, installed, event, watcher, close>>
        /\ alone' = IF how = "ended" /\ close[k] = "uncalled" THEN alone \cup {k} ELSE alone
        /\ scope' = IF how = "failed" THEN "cancelled" ELSE scope
        /\ how = "cut" => scope = "cancelled"
    BY <1>9 DEF Shutdown!RunEnds, Shutdown!RunRaises, Shutdown!RunCancelled
  <2> QED
    BY <1>r, <2>1
<1>10. CASE Shutdown!BodyEnds
  <2>1. /\ scope = "active" /\ \A k \in running : run[k] = "ended"
        /\ scope' = "cancelled"
        /\ UNCHANGED <<running, installed, event, watcher, run, close, alone>>
    BY <1>10 DEF Shutdown!BodyEnds
  <2> QED
    BY <1>c, <1>0, <1>2, <2>1
<1>11. CASE Shutdown!Restore
  <2>1. /\ scope = "cancelled" /\ ~Shutdown!CloseUnderWay /\ \A k \in running : run[k] # "runs"
        /\ scope' = "left" /\ installed' = FALSE
        /\ UNCHANGED <<running, event, watcher, run, close, alone>>
    BY <1>11 DEF Shutdown!Restore
  <2>2. \A k \in A : run[k] # "runs"
    BY <2>1, <1>1
  <2>3. \A k \in A : close[k] # "called"
    BY <2>1, <1>0, <1>2 DEF Shutdown!CloseUnderWay, A
  <2>4. Shutdown!Calm' = Shutdown!Calm
    BY <2>1 DEF Shutdown!Calm
  <2>5. CalmEndsAtLast' /\ ClosedInTurn' /\ EndedWasClosed' /\ NoneIsNotRunning'
    BY <2>1, <2>4, <1>1, <1>2, <1>3, <1>4
       DEF CalmEndsAtLast, ClosedInTurn, EndedWasClosed, NoneIsNotRunning, A
  <2>6. Shutdown!TypeOK'
    BY <2>1, <2>2, <2>3, <1>0 DEF Shutdown!TypeOK, A
  <2> QED
    BY <2>5, <2>6 DEF ShutdownInv
<1> QED
  BY <1>5, <1>6, <1>7, <1>8, <1>9, <1>10, <1>11 DEF Shutdown!Next, A

-----------------------------------------------------------------------------
(* Middleware                                                              *)

\* Where the delivery is when it does something.
DoingInv ==
    /\ doing = "run" => at = Chain!Depth + 1
    /\ doing \in {"sleep", "publish"} => at \in 1..Chain!Depth
    /\ doing = "sleep" => chain[at] = "retry" /\ tries[at] < MaxRetries
    /\ doing = "publish" => chain[at] = "divert"
    /\ doing = "done" => at = 0
    /\ doing = "up" => at <= Chain!Depth
\* What a function returned is never called again.
OkIsFinal ==
    /\ result = "ok" => doing \in {"up", "done"} /\ (handled \/ diverted > 0)
    /\ handled => result = "ok"
AgainDiverts == Chain!Around("retry", "divert") \/ Chain!Around("divert", "divert")
\* Once a middleware has diverted the delivery is outside of it, and stays there unless there is
\* a retry() around.
DivertedInside ==
    /\ diverted > 0 => AgainDiverts \/ \E k \in 1..Chain!Depth : chain[k] = "divert" /\ at < k
    /\ diverted > 1 \/ (handled /\ diverted > 0) => AgainDiverts
AgainCalls == Chain!Around("retry", "retry") \/ Chain!Around("retry", "divert")
\* PermanentError goes on up to a middleware that makes another exception of it.
PermanentInside ==
    permanent =>
        \/ doing \in {"up", "done"} /\ result = "permanent"
        \/ \E k \in 1..Chain!Depth :
             \/ chain[k] = "retry" /\ at < k
             \/ chain[k] = "divert" /\ (at < k \/ (at = k /\ doing = "publish"))
        \/ AgainCalls
\* As the second part of ObserversTellTheOutcome, before the router settles.
OutermostInv ==
    doing \in {"up", "done"} /\ at = 0 /\ 1 \in Chain!Observers =>
       (result = "ok" <=> span[1] = "ok") /\ (result = "ok" <=> counted[1] = 1)

ChainInv ==
    /\ Chain!TypeOK
    /\ DoingInv
    /\ OkIsFinal
    /\ DivertedInside
    /\ PermanentInside /\ Chain!PermanentErrorIsNotRetried
    /\ Chain!ObserversTellTheOutcome /\ OutermostInv

\* The properties of Middleware follow.
LEMMA ChainKeeps ==
    ChainInv => /\ Chain!HandledOrDivertedOnce
                /\ Chain!PermanentErrorIsNotRetried
                /\ Chain!ObserversTellTheOutcome
BY DEF ChainInv, OkIsFinal, DivertedInside, AgainDiverts, Chain!HandledOrDivertedOnce

\* A chain has as many levels as it is long.
LEMMA ChainDepth ==
    ASSUME NEW c \in Chain!Chains
    PROVE  Len(c) \in 0..MaxDepth /\ c \in [1..Len(c) -> Chain!Kinds]
<1>1. PICK k \in 0..MaxDepth : c \in [1..k -> Chain!Kinds]
  BY DEF Chain!Chains
<1>2. k \in Nat
  BY <1>1, SizesAssumption
<1>3. Len(c) = k
  BY <1>1, <1>2
<1> QED
  BY <1>1, <1>3
\* Nothing that an action leaves the chain to be changes what is said of it.
LEMMA ChainStays ==
    ASSUME chain' = chain
    PROVE  /\ Chain!Depth' = Chain!Depth /\ Chain!Observers' = Chain!Observers
           /\ AgainDiverts' = AgainDiverts /\ AgainCalls' = AgainCalls
           /\ Chain!PermanentErrorIsNotRetried' <=> (recalled' => AgainCalls)
BY DEF Chain!Depth, Chain!Observers, AgainDiverts, AgainCalls, Chain!Around,
       Chain!PermanentErrorIsNotRetried

\* Every action of Middleware preserves the invariant.
LEMMA ChainStep == ChainInv /\ Chain!Next => ChainInv'
<1> SUFFICES ASSUME ChainInv, Chain!Next
             PROVE  ChainInv'
  OBVIOUS
<1> DEFINE D == Chain!Depth
           O == Chain!Observers
           Results == {"none", "ok", "error", "permanent"}
           Tries == [1..MaxDepth -> 0..MaxRetries]
           Spans == [1..MaxDepth -> {"none", "open", "ok", "error", "unset"}]
           Counts == [1..MaxDepth -> Nat]
<1>0. /\ MaxDepth \in Nat /\ MaxRetries \in Nat
      /\ D \in 0..MaxDepth /\ chain \in [1..D -> Chain!Kinds] /\ chain \in Chain!Chains
      /\ at \in 0..(D + 1) /\ doing \in {"run", "up", "sleep", "publish", "done"}
      /\ result \in Results /\ tries \in Tries /\ span \in Spans /\ counted \in Counts
      /\ handled \in BOOLEAN /\ diverted \in 0..2 /\ permanent \in BOOLEAN /\ recalled \in BOOLEAN
  BY SizesAssumption, ChainDepth DEF ChainInv, Chain!TypeOK, Chain!Depth
<1>1. O \subseteq 1..D /\ O \subseteq 1..MaxDepth /\ \A k \in 1..D : k \in O <=> chain[k] = "observe"
  BY <1>0 DEF Chain!Observers
<1>2. /\ doing = "run" => at = D + 1
      /\ doing \in {"sleep", "publish"} => at \in 1..D
      /\ doing = "sleep" => chain[at] = "retry" /\ tries[at] < MaxRetries
      /\ doing = "publish" => chain[at] = "divert"
      /\ doing = "done" => at = 0
      /\ doing = "up" => at <= D
  BY DEF ChainInv, DoingInv
<1>3. /\ result = "ok" => doing \in {"up", "done"} /\ (handled \/ diverted > 0)
      /\ handled => result = "ok"
  BY DEF ChainInv, OkIsFinal
<1>4. /\ diverted > 0 => AgainDiverts \/ \E k \in 1..D : chain[k] = "divert" /\ at < k
      /\ diverted > 1 \/ (handled /\ diverted > 0) => AgainDiverts
  BY DEF ChainInv, DivertedInside
<1>5. /\ permanent =>
            \/ doing \in {"up", "done"} /\ result = "permanent"
            \/ \E k \in 1..D : \/ chain[k] = "retry" /\ at < k
                               \/ chain[k] = "divert" /\ (at < k \/ (at = k /\ doing = "publish"))
            \/ AgainCalls
      /\ recalled => AgainCalls
  BY DEF ChainInv, PermanentInside, AgainCalls, Chain!PermanentErrorIsNotRetried
<1>6. \A k \in O : /\ span[k] = "open" <=> doing # "done" /\ k < IF doing = "up" THEN at + 1 ELSE at
                   /\ counted[k] <= 1
                   /\ counted[k] = 1 => result = "ok" /\ span[k] = "ok"
  BY DEF ChainInv, Chain!ObserversTellTheOutcome
<1>7. doing \in {"up", "done"} /\ at = 0 /\ 1 \in O =>
         (result = "ok" <=> span[1] = "ok") /\ (result = "ok" <=> counted[1] = 1)
  BY DEF ChainInv, OutermostInv
<1>a. \A i, j \in 1..D : i < j =>
         /\ chain[i] \in {"retry", "divert"} /\ chain[j] = "divert" => AgainDiverts
         /\ chain[i] = "retry" /\ chain[j] \in {"retry", "divert"} => AgainCalls
  BY DEF AgainDiverts, AgainCalls, Chain!Around
<1> HIDE DEF D, O
\* The invariant of the next state, part by part.
<1>b. ASSUME chain' = chain,
             at' \in 0..(D + 1), doing' \in {"run", "up", "sleep", "publish", "done"},
             result' \in Results, tries' \in Tries, span' \in Spans, counted' \in Counts,
             handled' \in BOOLEAN, diverted' \in 0..2, permanent' \in BOOLEAN, recalled' \in BOOLEAN,
             /\ doing' = "run" => at' = D + 1
             /\ doing' \in {"sleep", "publish"} => at' \in 1..D
             /\ doing' = "sleep" => chain[at'] = "retry" /\ tries'[at'] < MaxRetries
             /\ doing' = "publish" => chain[at'] = "divert"
             /\ doing' = "done" => at' = 0
             /\ doing' = "up" => at' <= D,
             /\ result' = "ok" => doing' \in {"up", "done"} /\ (handled' \/ diverted' > 0)
             /\ handled' => result' = "ok",
             diverted' > 0 => AgainDiverts \/ \E k \in 1..D : chain[k] = "divert" /\ at' < k,
             diverted' > 1 \/ (handled' /\ diverted' > 0) => AgainDiverts,
             permanent' =>
               \/ doing' \in {"up", "done"} /\ result' = "permanent"
               \/ \E k \in 1..D :
                    \/ chain[k] = "retry" /\ at' < k
                    \/ chain[k] = "divert" /\ (at' < k \/ (at' = k /\ doing' = "publish"))
               \/ AgainCalls,
             recalled' => AgainCalls,
             \A k \in O :
                /\ span'[k] = "open" <=> doing' # "done" /\ k < IF doing' = "up" THEN at' + 1 ELSE at'
                /\ counted'[k] <= 1
                /\ counted'[k] = 1 => result' = "ok" /\ span'[k] = "ok",
             doing' \in {"up", "done"} /\ at' = 0 /\ 1 \in O =>
                (result' = "ok" <=> span'[1] = "ok") /\ (result' = "ok" <=> counted'[1] = 1)
      PROVE  ChainInv'
  <2>0. /\ Chain!Depth' = D /\ Chain!Observers' = O
        /\ AgainDiverts' = AgainDiverts /\ AgainCalls' = AgainCalls
        /\ Chain!PermanentErrorIsNotRetried' <=> (recalled' => AgainCalls)
    BY <1>b, ChainStays DEF D, O
  <2>1. Chain!TypeOK'
    BY <1>b, <1>0, <2>0 DEF Chain!TypeOK
  <2>2. DoingInv'
    BY <1>b, <2>0 DEF DoingInv
  <2>3. OkIsFinal'
    BY <1>b, <2>0 DEF OkIsFinal
  <2>4. DivertedInside'
    BY <1>b, <2>0 DEF DivertedInside
  <2>5. PermanentInside' /\ Chain!PermanentErrorIsNotRetried'
    BY <1>b, <2>0 DEF PermanentInside
  <2>6. OutermostInv'
    BY <1>b, <2>0 DEF OutermostInv
  <2>7. Chain!ObserversTellTheOutcome'
    BY <1>b, <2>0 DEF Chain!ObserversTellTheOutcome
  <2> QED
    BY <2>1, <2>2, <2>3, <2>4, <2>5, <2>6, <2>7 DEF ChainInv
<1>8. ASSUME NEW r \in {"ok", "error", "permanent"}, Chain!Handle(r)
      PROVE  ChainInv'
  <2>1. /\ doing = "run" /\ at = D + 1
        /\ at' = at - 1 /\ doing' = "up" /\ result' = r
        /\ handled' = (handled \/ r = "ok") /\ permanent' = (permanent \/ r = "permanent")
        /\ UNCHANGED <<chain, tries, span, counted, diverted, recalled>>
    BY <1>8, <1>0, <1>2 DEF Chain!Handle, Chain!Out, Chain!observed
  <2>2. /\ at' \in 0..(D + 1) /\ doing' \in {"run", "up", "sleep", "publish", "done"}
        /\ result' \in Results /\ tries' \in Tries /\ span' \in Spans /\ counted' \in Counts
        /\ handled' \in BOOLEAN /\ diverted' \in 0..2 /\ permanent' \in BOOLEAN /\ recalled' \in BOOLEAN
    BY <1>0, <1>2, <2>1
  <2>3. /\ doing' = "run" => at' = D + 1
        /\ doing' \in {"sleep", "publish"} => at' \in 1..D
        /\ doing' = "sleep" => chain[at'] = "retry" /\ tries'[at'] < MaxRetries
        /\ doing' = "publish" => chain[at'] = "divert"
        /\ doing' = "done" => at' = 0
        /\ doing' = "up" => at' <= D
    BY <1>0, <1>2, <2>1
  <2>4. /\ result' = "ok" => doing' \in {"up", "done"} /\ (handled' \/ diverted' > 0)
        /\ handled' => result' = "ok"
    BY <1>0, <1>2, <1>3, <2>1
  <2>5. /\ diverted' > 0 => AgainDiverts \/ \E k \in 1..D : chain[k] = "divert" /\ at' < k
        /\ diverted' > 1 \/ (handled' /\ diverted' > 0) => AgainDiverts
    BY <1>0, <1>2, <1>3, <1>4, <1>a, <2>1
  <2>6. /\ permanent' =>
              \/ doing' \in {"up", "done"} /\ result' = "permanent"
              \/ \E k \in 1..D :
                   \/ chain[k] = "retry" /\ at' < k
                   \/ chain[k] = "divert" /\ (at' < k \/ (at' = k /\ doing' = "publish"))
              \/ AgainCalls
        /\ recalled' => AgainCalls
    BY <1>0, <1>2, <1>5, <1>a, <2>1
  <2>7. \A k \in O :
          /\ span'[k] = "open" <=> doing' # "done" /\ k < IF doing' = "up" THEN at' + 1 ELSE at'
          /\ counted'[k] <= 1
          /\ counted'[k] = 1 => result' = "ok" /\ span'[k] = "ok"
    BY <1>0, <1>1, <1>2, <1>3, <1>6, <2>1
  <2>8. doing' \in {"up", "done"} /\ at' = 0 /\ 1 \in O =>
           (result' = "ok" <=> span'[1] = "ok") /\ (result' = "ok" <=> counted'[1] = 1)
    BY <1>0, <1>1, <1>2, <1>3, <1>6, <1>7, <2>1
  <2> QED
    BY <1>b, <2>1, <2>2, <2>3, <2>4, <2>5, <2>6, <2>7, <2>8
<1>9. ASSUME NEW r, doing = "up", at > 0, chain[at] # "observe",
             \/ r = result
             \/ r = "error" /\ chain[at] = "retry" /\ result # "ok",
             chain[at] = "divert" => result = "ok",
             Chain!Out(at, r), Chain!Keep
      PROVE  ChainInv'
  <2>1. /\ at' = at - 1 /\ doing' = "up" /\ result' = r
        /\ at \in 1..D
        /\ UNCHANGED <<chain, tries, span, counted, handled, diverted, permanent, recalled>>
    BY <1>9, <1>0, <1>2 DEF Chain!Keep, Chain!Out, Chain!observed
  <2>2. /\ at' \in 0..(D + 1) /\ doing' \in {"run", "up", "sleep", "publish", "done"}
        /\ result' \in Results /\ tries' \in Tries /\ span' \in Spans /\ counted' \in Counts
        /\ handled' \in BOOLEAN /\ diverted' \in 0..2 /\ permanent' \in BOOLEAN /\ recalled' \in BOOLEAN
    BY <1>0, <1>2, <2>1, <1>9
  <2>3. /\ doing' = "run" => at' = D + 1
        /\ doing' \in {"sleep", "publish"} => at' \in 1..D
        /\ doing' = "sleep" => chain[at'] = "retry" /\ tries'[at'] < MaxRetries
        /\ doing' = "publish" => chain[at'] = "divert"
        /\ doing' = "done" => at' = 0
        /\ doing' = "up" => at' <= D
    BY <1>0, <1>2, <2>1, <1>9
  <2>4. /\ result' = "ok" => doing' \in {"up", "done"} /\ (handled' \/ diverted' > 0)
        /\ handled' => result' = "ok"
    BY <1>0, <1>2, <1>3, <2>1, <1>9
  <2>5. /\ diverted' > 0 => AgainDiverts \/ \E k \in 1..D : chain[k] = "divert" /\ at' < k
        /\ diverted' > 1 \/ (handled' /\ diverted' > 0) => AgainDiverts
    BY <1>0, <1>2, <1>3, <1>4, <1>a, <2>1, <1>9
  <2>6. /\ permanent' =>
              \/ doing' \in {"up", "done"} /\ result' = "permanent"
              \/ \E k \in 1..D :
                   \/ chain[k] = "retry" /\ at' < k
                   \/ chain[k] = "divert" /\ (at' < k \/ (at' = k /\ doing' = "publish"))
              \/ AgainCalls
        /\ recalled' => AgainCalls
    BY <1>0, <1>2, <1>5, <1>a, <2>1, <1>9
  <2>7. \A k \in O :
          /\ span'[k] = "open" <=> doing' # "done" /\ k < IF doing' = "up" THEN at' + 1 ELSE at'
          /\ counted'[k] <= 1
          /\ counted'[k] = 1 => result' = "ok" /\ span'[k] = "ok"
    BY <1>0, <1>1, <1>2, <1>3, <1>6, <2>1, <1>9
  <2>8. doing' \in {"up", "done"} /\ at' = 0 /\ 1 \in O =>
           (result' = "ok" <=> span'[1] = "ok") /\ (result' = "ok" <=> counted'[1] = 1)
    BY <1>0, <1>1, <1>2, <1>3, <1>6, <1>7, <2>1, <1>9
  <2> QED
    BY <1>b, <2>1, <2>2, <2>3, <2>4, <2>5, <2>6, <2>7, <2>8
<1>10. ASSUME doing = "up", at > 0, at' = at, result' = result, Chain!Keep, result # "ok",
             \/ doing' = "sleep" /\ chain[at] = "retry" /\ result # "permanent" /\ tries[at] < MaxRetries
             \/ doing' = "publish" /\ chain[at] = "divert"
      PROVE  ChainInv'
  <2>1. /\ at \in 1..D
        /\ UNCHANGED <<chain, tries, span, counted, handled, diverted, permanent, recalled>>
    BY <1>10, <1>0, <1>2 DEF Chain!Keep, Chain!observed
  <2>2. /\ at' \in 0..(D + 1) /\ doing' \in {"run", "up", "sleep", "publish", "done"}
        /\ result' \in Results /\ tries' \in Tries /\ span' \in Spans /\ counted' \in Counts
        /\ handled' \in BOOLEAN /\ diverted' \in 0..2 /\ permanent' \in BOOLEAN /\ recalled' \in BOOLEAN
    BY <1>0, <1>2, <2>1, <1>10
  <2>3. /\ doing' = "run" => at' = D + 1
        /\ doing' \in {"sleep", "publish"} => at' \in 1..D
        /\ doing' = "sleep" => chain[at'] = "retry" /\ tries'[at'] < MaxRetries
        /\ doing' = "publish" => chain[at'] = "divert"
        /\ doing' = "done" => at' = 0
        /\ doing' = "up" => at' <= D
    BY <1>0, <1>2, <2>1, <1>10
  <2>4. /\ result' = "ok" => doing' \in {"up", "done"} /\ (handled' \/ diverted' > 0)
        /\ handled' => result' = "ok"
    BY <1>0, <1>2, <1>3, <2>1, <1>10
  <2>5. /\ diverted' > 0 => AgainDiverts \/ \E k \in 1..D : chain[k] = "divert" /\ at' < k
        /\ diverted' > 1 \/ (handled' /\ diverted' > 0) => AgainDiverts
    BY <1>0, <1>2, <1>3, <1>4, <1>a, <2>1, <1>10
  <2>6. /\ permanent' =>
              \/ doing' \in {"up", "done"} /\ result' = "permanent"
              \/ \E k \in 1..D :
                   \/ chain[k] = "retry" /\ at' < k
                   \/ chain[k] = "divert" /\ (at' < k \/ (at' = k /\ doing' = "publish"))
              \/ AgainCalls
        /\ recalled' => AgainCalls
    BY <1>0, <1>2, <1>5, <1>a, <2>1, <1>10
  <2>7. \A k \in O :
          /\ span'[k] = "open" <=> doing' # "done" /\ k < IF doing' = "up" THEN at' + 1 ELSE at'
          /\ counted'[k] <= 1
          /\ counted'[k] = 1 => result' = "ok" /\ span'[k] = "ok"
    <3>1. ASSUME NEW k \in O
          PROVE  k # at /\ k \in Int /\ at \in Int
      BY <1>0, <1>1, <1>10, <2>1
    <3>2. ASSUME NEW k \in O
          PROVE  span'[k] = "open" <=> doing' # "done" /\ k < IF doing' = "up" THEN at' + 1 ELSE at'
      BY <1>6, <1>10, <2>1, <3>1
    <3> QED
      BY <1>6, <1>10, <2>1, <3>2
  <2>8. doing' \in {"up", "done"} /\ at' = 0 /\ 1 \in O =>
           (result' = "ok" <=> span'[1] = "ok") /\ (result' = "ok" <=> counted'[1] = 1)
    BY <1>0, <1>1, <1>2, <1>3, <1>6, <1>7, <2>1, <1>10
  <2> QED
    BY <1>b, <2>1, <2>2, <2>3, <2>4, <2>5, <2>6, <2>7, <2>8
<1>11. CASE Chain!RetrySlept
  <2>1. /\ doing = "sleep" /\ at \in 1..D /\ chain[at] = "retry"
        /\ at' = D + 1 /\ doing' = "run" /\ result' = result
        /\ tries' = [j \in 1..MaxDepth |-> IF j = at THEN tries[at] + 1 ELSE IF j > at THEN 0 ELSE tries[j]]
        /\ span' = [j \in 1..MaxDepth |-> IF j > at /\ j \in O THEN "open" ELSE span[j]]
        /\ recalled' = (recalled \/ permanent)
        /\ UNCHANGED <<chain, counted, handled, diverted, permanent>>
    BY <1>11, <1>0, <1>2 DEF Chain!RetrySlept, Chain!Call, Chain!Opened, D, O
  <2>2. /\ at' \in 0..(D + 1) /\ doing' \in {"run", "up", "sleep", "publish", "done"}
        /\ result' \in Results /\ tries' \in Tries /\ span' \in Spans /\ counted' \in Counts
        /\ handled' \in BOOLEAN /\ diverted' \in 0..2 /\ permanent' \in BOOLEAN /\ recalled' \in BOOLEAN
    <3>1. at' \in 0..(D + 1) /\ result' \in Results /\ recalled' \in BOOLEAN
      BY <1>0, <2>1
    <3>2. tries' \in Tries
      BY <1>0, <1>2, <2>1
    <3>3. span' \in Spans
      BY <1>0, <2>1
    <3> QED
      BY <1>0, <2>1, <3>1, <3>2, <3>3
  <2>3. /\ doing' = "run" => at' = D + 1
        /\ doing' \in {"sleep", "publish"} => at' \in 1..D
        /\ doing' = "sleep" => chain[at'] = "retry" /\ tries'[at'] < MaxRetries
        /\ doing' = "publish" => chain[at'] = "divert"
        /\ doing' = "done" => at' = 0
        /\ doing' = "up" => at' <= D
    BY <1>0, <1>2, <2>1
  <2>4. /\ result' = "ok" => doing' \in {"up", "done"} /\ (handled' \/ diverted' > 0)
        /\ handled' => result' = "ok"
    BY <1>0, <1>2, <1>3, <2>1
  <2>5. /\ diverted' > 0 => AgainDiverts \/ \E k \in 1..D : chain[k] = "divert" /\ at' < k
        /\ diverted' > 1 \/ (handled' /\ diverted' > 0) => AgainDiverts
    BY <1>0, <1>2, <1>3, <1>4, <1>a, <2>1
  <2>6. /\ permanent' =>
              \/ doing' \in {"up", "done"} /\ result' = "permanent"
              \/ \E k \in 1..D :
                   \/ chain[k] = "retry" /\ at' < k
                   \/ chain[k] = "divert" /\ (at' < k \/ (at' = k /\ doing' = "publish"))
              \/ AgainCalls
        /\ recalled' => AgainCalls
    BY <1>0, <1>2, <1>5, <1>a, <2>1
  <2>7. \A k \in O :
          /\ span'[k] = "open" <=> doing' # "done" /\ k < IF doing' = "up" THEN at' + 1 ELSE at'
          /\ counted'[k] <= 1
          /\ counted'[k] = 1 => result' = "ok" /\ span'[k] = "ok"
    BY <1>0, <1>1, <1>2, <1>3, <1>6, <2>1
  <2>8. doing' \in {"up", "done"} /\ at' = 0 /\ 1 \in O =>
           (result' = "ok" <=> span'[1] = "ok") /\ (result' = "ok" <=> counted'[1] = 1)
    BY <1>0, <1>1, <1>2, <1>3, <1>6, <1>7, <2>1
  <2> QED
    BY <1>b, <2>1, <2>2, <2>3, <2>4, <2>5, <2>6, <2>7, <2>8
<1>12. CASE Chain!Observe
  <2>1. /\ doing = "up" /\ at \in 1..D /\ chain[at] = "observe"
        /\ at' = at - 1 /\ doing' = "up" /\ result' = result
        /\ span' = [span EXCEPT ![at] = IF result = "ok" THEN "ok" ELSE "error"]
        /\ counted' = [counted EXCEPT ![at] = @ + (IF result = "ok" THEN 1 ELSE 0)]
        /\ UNCHANGED <<chain, tries, handled, diverted, permanent, recalled>>
    BY <1>12, <1>0, <1>2 DEF Chain!Observe, Chain!Up, Chain!Out, Chain!CountOf
  <2>2. /\ at' \in 0..(D + 1) /\ doing' \in {"run", "up", "sleep", "publish", "done"}
        /\ result' \in Results /\ tries' \in Tries /\ span' \in Spans /\ counted' \in Counts
        /\ handled' \in BOOLEAN /\ diverted' \in 0..2 /\ permanent' \in BOOLEAN /\ recalled' \in BOOLEAN
    BY <1>0, <1>2, <2>1
  <2>3. /\ doing' = "run" => at' = D + 1
        /\ doing' \in {"sleep", "publish"} => at' \in 1..D
        /\ doing' = "sleep" => chain[at'] = "retry" /\ tries'[at'] < MaxRetries
        /\ doing' = "publish" => chain[at'] = "divert"
        /\ doing' = "done" => at' = 0
        /\ doing' = "up" => at' <= D
    BY <1>0, <1>2, <2>1
  <2>4. /\ result' = "ok" => doing' \in {"up", "done"} /\ (handled' \/ diverted' > 0)
        /\ handled' => result' = "ok"
    BY <1>0, <1>2, <1>3, <2>1
  <2>5. /\ diverted' > 0 => AgainDiverts \/ \E k \in 1..D : chain[k] = "divert" /\ at' < k
        /\ diverted' > 1 \/ (handled' /\ diverted' > 0) => AgainDiverts
    BY <1>0, <1>2, <1>3, <1>4, <1>a, <2>1
  <2>6. /\ permanent' =>
              \/ doing' \in {"up", "done"} /\ result' = "permanent"
              \/ \E k \in 1..D :
                   \/ chain[k] = "retry" /\ at' < k
                   \/ chain[k] = "divert" /\ (at' < k \/ (at' = k /\ doing' = "publish"))
              \/ AgainCalls
        /\ recalled' => AgainCalls
    BY <1>0, <1>2, <1>5, <1>a, <2>1
  <2>7. \A k \in O :
          /\ span'[k] = "open" <=> doing' # "done" /\ k < IF doing' = "up" THEN at' + 1 ELSE at'
          /\ counted'[k] <= 1
          /\ counted'[k] = 1 => result' = "ok" /\ span'[k] = "ok"
    BY <1>0, <1>1, <1>2, <1>3, <1>6, <2>1
  <2>8. doing' \in {"up", "done"} /\ at' = 0 /\ 1 \in O =>
           (result' = "ok" <=> span'[1] = "ok") /\ (result' = "ok" <=> counted'[1] = 1)
    BY <1>0, <1>1, <1>2, <1>3, <1>6, <1>7, <2>1
  <2> QED
    BY <1>b, <2>1, <2>2, <2>3, <2>4, <2>5, <2>6, <2>7, <2>8
<1>13. ASSUME NEW r \in {"ok", "error"}, doing = "publish", Chain!Out(at, r),
             \/ Chain!Publishes
             \/ r = "error" /\ diverted' = diverted,
             UNCHANGED <<chain, tries, span, counted, handled, permanent, recalled>>
      PROVE  ChainInv'
  <2>1. /\ doing = "publish" /\ at \in 1..D /\ chain[at] = "divert"
        /\ at' = at - 1 /\ doing' = "up" /\ result' = r
        /\ diverted' = (IF diverted < 2 THEN diverted + 1 ELSE 2) \/ (r = "error" /\ diverted' = diverted)
        /\ UNCHANGED <<chain, tries, span, counted, handled, permanent, recalled>>
    BY <1>13, <1>0, <1>2 DEF Chain!Out, Chain!Publishes
  <2>2. /\ at' \in 0..(D + 1) /\ doing' \in {"run", "up", "sleep", "publish", "done"}
        /\ result' \in Results /\ tries' \in Tries /\ span' \in Spans /\ counted' \in Counts
        /\ handled' \in BOOLEAN /\ diverted' \in 0..2 /\ permanent' \in BOOLEAN /\ recalled' \in BOOLEAN
    BY <1>0, <1>2, <2>1
  <2>3. /\ doing' = "run" => at' = D + 1
        /\ doing' \in {"sleep", "publish"} => at' \in 1..D
        /\ doing' = "sleep" => chain[at'] = "retry" /\ tries'[at'] < MaxRetries
        /\ doing' = "publish" => chain[at'] = "divert"
        /\ doing' = "done" => at' = 0
        /\ doing' = "up" => at' <= D
    BY <1>0, <1>2, <2>1
  <2>4. /\ result' = "ok" => doing' \in {"up", "done"} /\ (handled' \/ diverted' > 0)
        /\ handled' => result' = "ok"
    BY <1>0, <1>2, <1>3, <2>1
  <2>5. /\ diverted' > 0 => AgainDiverts \/ \E k \in 1..D : chain[k] = "divert" /\ at' < k
        /\ diverted' > 1 \/ (handled' /\ diverted' > 0) => AgainDiverts
    BY <1>0, <1>2, <1>3, <1>4, <1>a, <2>1
  <2>6. /\ permanent' =>
              \/ doing' \in {"up", "done"} /\ result' = "permanent"
              \/ \E k \in 1..D :
                   \/ chain[k] = "retry" /\ at' < k
                   \/ chain[k] = "divert" /\ (at' < k \/ (at' = k /\ doing' = "publish"))
              \/ AgainCalls
        /\ recalled' => AgainCalls
    BY <1>0, <1>2, <1>5, <1>a, <2>1
  <2>7. \A k \in O :
          /\ span'[k] = "open" <=> doing' # "done" /\ k < IF doing' = "up" THEN at' + 1 ELSE at'
          /\ counted'[k] <= 1
          /\ counted'[k] = 1 => result' = "ok" /\ span'[k] = "ok"
    BY <1>0, <1>1, <1>2, <1>3, <1>6, <2>1
  <2>8. doing' \in {"up", "done"} /\ at' = 0 /\ 1 \in O =>
           (result' = "ok" <=> span'[1] = "ok") /\ (result' = "ok" <=> counted'[1] = 1)
    BY <1>0, <1>1, <1>2, <1>3, <1>6, <1>7, <2>1
  <2> QED
    BY <1>b, <2>1, <2>2, <2>3, <2>4, <2>5, <2>6, <2>7, <2>8
<1>14. ASSUME NEW l \in 1..D, Chain!TimeoutElapses(l)
      PROVE  ChainInv'
  <2>1. /\ doing \in {"run", "sleep", "publish"} /\ l < at /\ chain[l] = "timeout"
        /\ at' = l - 1 /\ doing' = "up" /\ result' = "error"
        /\ diverted' = diverted \/ (doing = "publish" /\ diverted' = IF diverted < 2 THEN diverted + 1 ELSE 2)
        /\ span' = [j \in 1..MaxDepth |-> IF j > l /\ span[j] = "open" THEN "unset" ELSE span[j]]
        /\ UNCHANGED <<chain, tries, counted, handled, permanent, recalled>>
    BY <1>14, <1>0, <1>2 DEF Chain!TimeoutElapses, Chain!Out, Chain!Publishes
  <2>2. /\ at' \in 0..(D + 1) /\ doing' \in {"run", "up", "sleep", "publish", "done"}
        /\ result' \in Results /\ tries' \in Tries /\ span' \in Spans /\ counted' \in Counts
        /\ handled' \in BOOLEAN /\ diverted' \in 0..2 /\ permanent' \in BOOLEAN /\ recalled' \in BOOLEAN
    <3>1. at' \in 0..(D + 1)
      BY <1>0, <2>1
    <3>2. span' \in Spans
      BY <1>0, <2>1
    <3>3. diverted' \in 0..2
      BY <1>0, <2>1
    <3> QED
      BY <1>0, <2>1, <3>1, <3>2, <3>3
  <2>3. /\ doing' = "run" => at' = D + 1
        /\ doing' \in {"sleep", "publish"} => at' \in 1..D
        /\ doing' = "sleep" => chain[at'] = "retry" /\ tries'[at'] < MaxRetries
        /\ doing' = "publish" => chain[at'] = "divert"
        /\ doing' = "done" => at' = 0
        /\ doing' = "up" => at' <= D
    BY <1>0, <1>2, <2>1
  <2>4. /\ result' = "ok" => doing' \in {"up", "done"} /\ (handled' \/ diverted' > 0)
        /\ handled' => result' = "ok"
    BY <1>0, <1>2, <1>3, <2>1
  <2>5. /\ diverted' > 0 => AgainDiverts \/ \E k \in 1..D : chain[k] = "divert" /\ at' < k
        /\ diverted' > 1 \/ (handled' /\ diverted' > 0) => AgainDiverts
    <3>1. at' < l /\ l \in Int /\ at \in Int /\ at' \in Int /\ l < at /\ ~ handled
      BY <1>0, <1>3, <2>1
    <3>2. CASE diverted' = diverted
      <4>1. \A k \in 1..D : at < k => at' < k
        BY <3>1
      <4> QED
        BY <1>4, <2>1, <3>2, <4>1
    <3>3. CASE doing = "publish" /\ diverted' = IF diverted < 2 THEN diverted + 1 ELSE 2
      <4>1. at \in 1..D /\ chain[at] = "divert" /\ at' < at
        BY <1>2, <3>1, <3>3
      <4>2. diverted' > 1 => diverted > 0
        BY <1>0, <3>3
      <4>3. diverted > 0 => AgainDiverts
        <5>1. ASSUME NEW k \in 1..D, chain[k] = "divert", at < k
              PROVE  AgainDiverts
          BY <1>a, <4>1, <5>1
        <5> QED
          BY <1>4, <5>1
      <4>4. ~ handled'
        BY <2>1, <3>1
      <4> QED
        BY <4>1, <4>2, <4>3, <4>4
    <3> QED
      BY <2>1, <3>2, <3>3
  <2>6. /\ permanent' =>
              \/ doing' \in {"up", "done"} /\ result' = "permanent"
              \/ \E k \in 1..D :
                   \/ chain[k] = "retry" /\ at' < k
                   \/ chain[k] = "divert" /\ (at' < k \/ (at' = k /\ doing' = "publish"))
              \/ AgainCalls
        /\ recalled' => AgainCalls
    BY <1>0, <1>2, <1>5, <1>a, <2>1
  <2>7. \A k \in O :
          /\ span'[k] = "open" <=> doing' # "done" /\ k < IF doing' = "up" THEN at' + 1 ELSE at'
          /\ counted'[k] <= 1
          /\ counted'[k] = 1 => result' = "ok" /\ span'[k] = "ok"
    BY <1>0, <1>1, <1>2, <1>3, <1>6, <2>1
  <2>8. doing' \in {"up", "done"} /\ at' = 0 /\ 1 \in O =>
           (result' = "ok" <=> span'[1] = "ok") /\ (result' = "ok" <=> counted'[1] = 1)
    BY <1>0, <1>1, <1>2, <1>3, <1>6, <1>7, <2>1
  <2> QED
    BY <1>b, <2>1, <2>2, <2>3, <2>4, <2>5, <2>6, <2>7, <2>8
<1>15. CASE Chain!Settle
  <2>1. /\ doing = "up" /\ at = 0
        /\ doing' = "done" /\ at' = at /\ result' = result
        /\ UNCHANGED <<chain, tries, span, counted, handled, diverted, permanent, recalled>>
    BY <1>15, <1>0, <1>2 DEF Chain!Settle, Chain!Keep, Chain!observed
  <2>2. /\ at' \in 0..(D + 1) /\ doing' \in {"run", "up", "sleep", "publish", "done"}
        /\ result' \in Results /\ tries' \in Tries /\ span' \in Spans /\ counted' \in Counts
        /\ handled' \in BOOLEAN /\ diverted' \in 0..2 /\ permanent' \in BOOLEAN /\ recalled' \in BOOLEAN
    BY <1>0, <1>2, <2>1
  <2>3. /\ doing' = "run" => at' = D + 1
        /\ doing' \in {"sleep", "publish"} => at' \in 1..D
        /\ doing' = "sleep" => chain[at'] = "retry" /\ tries'[at'] < MaxRetries
        /\ doing' = "publish" => chain[at'] = "divert"
        /\ doing' = "done" => at' = 0
        /\ doing' = "up" => at' <= D
    BY <1>0, <1>2, <2>1
  <2>4. /\ result' = "ok" => doing' \in {"up", "done"} /\ (handled' \/ diverted' > 0)
        /\ handled' => result' = "ok"
    BY <1>0, <1>2, <1>3, <2>1
  <2>5. /\ diverted' > 0 => AgainDiverts \/ \E k \in 1..D : chain[k] = "divert" /\ at' < k
        /\ diverted' > 1 \/ (handled' /\ diverted' > 0) => AgainDiverts
    BY <1>0, <1>2, <1>3, <1>4, <1>a, <2>1
  <2>6. /\ permanent' =>
              \/ doing' \in {"up", "done"} /\ result' = "permanent"
              \/ \E k \in 1..D :
                   \/ chain[k] = "retry" /\ at' < k
                   \/ chain[k] = "divert" /\ (at' < k \/ (at' = k /\ doing' = "publish"))
              \/ AgainCalls
        /\ recalled' => AgainCalls
    BY <1>0, <1>2, <1>5, <1>a, <2>1
  <2>7. \A k \in O :
          /\ span'[k] = "open" <=> doing' # "done" /\ k < IF doing' = "up" THEN at' + 1 ELSE at'
          /\ counted'[k] <= 1
          /\ counted'[k] = 1 => result' = "ok" /\ span'[k] = "ok"
    BY <1>0, <1>1, <1>2, <1>3, <1>6, <2>1
  <2>8. doing' \in {"up", "done"} /\ at' = 0 /\ 1 \in O =>
           (result' = "ok" <=> span'[1] = "ok") /\ (result' = "ok" <=> counted'[1] = 1)
    BY <1>0, <1>1, <1>2, <1>3, <1>6, <1>7, <2>1
  <2> QED
    BY <1>b, <2>1, <2>2, <2>3, <2>4, <2>5, <2>6, <2>7, <2>8
<1>16. CASE Chain!Retry
  <2>1. doing = "up" /\ at > 0 /\ chain[at] = "retry" /\ Chain!Keep
    BY <1>16 DEF Chain!Retry, Chain!Up
  <2>2. at \in 1..D
    BY <2>1, <1>0, <1>2
  <2>3. CASE result \in {"ok", "permanent"} \/ tries[at] >= MaxRetries
    <3>1. Chain!Out(at, IF result = "permanent" THEN "error" ELSE result)
      BY <1>16, <2>3 DEF Chain!Retry, Chain!Final
    <3> QED
      BY <1>9, <2>1, <3>1
  <2>4. CASE ~(result \in {"ok", "permanent"} \/ tries[at] >= MaxRetries)
    <3>1. tries[at] < MaxRetries
      BY <2>2, <2>4, <1>0
    <3>2. CASE doing' = "sleep" /\ UNCHANGED <<at, result>>
      BY <1>10, <2>1, <2>4, <3>1, <3>2
    <3>3. CASE Chain!Out(at, "error")
      BY <1>9, <2>1, <2>4, <3>3
    <3> QED
      BY <1>16, <2>4, <3>2, <3>3 DEF Chain!Retry, Chain!Final
  <2> QED
    BY <2>3, <2>4
<1>17. CASE Chain!TimeoutInTime
  BY <1>9, <1>17 DEF Chain!TimeoutInTime, Chain!Up
<1>18. CASE Chain!Divert
  BY <1>9, <1>10, <1>18 DEF Chain!Divert, Chain!Up
<1>19. CASE Chain!DivertRefused
  BY <1>13, <1>19 DEF Chain!DivertRefused, Chain!RaisesFailure, Chain!Keep, Chain!observed
<1>20. ASSUME NEW r \in {"ok", "error"}, Chain!DivertPublished(r)
       PROVE  ChainInv'
  BY <1>13, <1>20 DEF Chain!DivertPublished, Chain!observed
<1> QED
  BY <1>8, <1>11, <1>12, <1>14, <1>15, <1>16, <1>17, <1>18, <1>19, <1>20
     DEF Chain!Next, Chain!Proceeds, D

-----------------------------------------------------------------------------
(* Dependencies                                                            *)

\* The functions of the handler, as MCParts has them.
Needed == [h |-> <<"a", "b">>, a |-> <<"b">>, b |-> <<>>]
Frames == [func : DOMAIN Needed, resolved : Nat]
\* No function has more parameters than it needs, and one that waits for another still needs it.
GoodStack(s) ==
    /\ s \in Seq(Frames)
    /\ \A i \in 1..Len(s) :
         /\ s[i].resolved <= Len(Needed[s[i].func])
         /\ i < Len(s) => s[i].resolved < Len(Needed[s[i].func])

CallInv ==
    /\ Call!TypeOK
    /\ DOMAIN stack = Senders /\ phase \in [Senders -> {"resolving", "queued", "running"}]
    /\ \A c \in Senders : GoodStack(stack[c])

\* What the functions need are functions.
LEMMA NeededAreFunctions ==
    /\ DOMAIN Needed = {"h", "a", "b"}
    /\ \A f \in DOMAIN Needed : Needed[f] \in Seq(DOMAIN Needed)
<1> DEFINE F == {"h", "a", "b"}
<1>1. DOMAIN Needed = {"h", "a", "b"}
  BY DEF Needed
<1>2. Needed["h"] = <<"a", "b">> /\ Needed["a"] = <<"b">> /\ Needed["b"] = <<>>
  BY DEF Needed
<1>3. "a" \in F /\ "b" \in F
  OBVIOUS
<1> HIDE DEF F
<1>4. <<"a", "b">> \in Seq(F) /\ <<"b">> \in Seq(F) /\ <<>> \in Seq(F)
  BY <1>3
<1>5. DOMAIN Needed = F
  BY <1>1 DEF F
<1>6. \A f \in F : f = "h" \/ f = "a" \/ f = "b"
  BY DEF F
<1>7. \A f \in F : Needed[f] \in Seq(F)
  BY <1>2, <1>4, <1>6
<1> QED
  BY <1>1, <1>5, <1>7

\* Dependencies counts as this module does.
LEMMA CallCountsSo ==
    ASSUME NEW S
    PROVE  Call!Cardinality(S) = Cardinality(S)
BY DEF Call!Cardinality, Cardinality

\* A function that is called for a parameter goes on top.
LEMMA StackGrows ==
    ASSUME NEW s, GoodStack(s), s # <<>>, NEW g \in DOMAIN Needed,
           s[Len(s)].resolved < Len(Needed[s[Len(s)].func])
    PROVE  GoodStack(Append(s, [func |-> g, resolved |-> 0]))
<1> DEFINE F == [func |-> g, resolved |-> 0]
           t == Append(s, F)
<1>1. s \in Seq(Frames) /\ F \in Frames /\ Len(s) \in Nat
  BY DEF GoodStack, Frames
<1>2. /\ t \in Seq(Frames) /\ Len(t) = Len(s) + 1
      /\ \A i \in 1..Len(s) : t[i] = s[i]
      /\ t[Len(s) + 1] = F
  BY <1>1
<1>3. Len(Needed[g]) \in Nat
  BY NeededAreFunctions
<1>4. F.resolved = 0 /\ F.func = g
  OBVIOUS
<1> HIDE DEF F, t
<1>5. ASSUME NEW i \in 1..Len(t)
      PROVE  /\ t[i].resolved <= Len(Needed[t[i].func])
             /\ i < Len(t) => t[i].resolved < Len(Needed[t[i].func])
  <2>1. CASE i = Len(s) + 1
    BY <2>1, <1>1, <1>2, <1>3, <1>4
  <2>2. CASE i # Len(s) + 1
    <3>1. i \in 1..Len(s) /\ t[i] = s[i]
      BY <2>2, <1>1, <1>2
    <3>2. i < Len(s) \/ i = Len(s)
      BY <3>1, <1>1
    <3>3. s[i].resolved <= Len(Needed[s[i].func]) /\ s[i].resolved < Len(Needed[s[i].func])
      BY <3>1, <3>2 DEF GoodStack
    <3> QED
      BY <3>1, <3>3
  <2> QED
    BY <2>1, <2>2
<1>6. GoodStack(t)
  BY <1>2, <1>5 DEF GoodStack
<1> QED
  BY <1>6 DEF t, F

\* A function that returns gives its caller a parameter.
LEMMA StackShrinks ==
    ASSUME NEW s, GoodStack(s), s # <<>>, Len(s) # 1
    PROVE  GoodStack([SubSeq(s, 1, Len(s) - 1) EXCEPT ![Len(s) - 1].resolved = @ + 1])
<1> DEFINE r == SubSeq(s, 1, Len(s) - 1)
           n == Len(s) - 1
           t == [r EXCEPT ![n].resolved = @ + 1]
<1>1. s \in Seq(Frames) /\ Len(s) \in Nat /\ Len(s) > 1
  <2>1. s \in Seq(Frames)
    BY DEF GoodStack
  <2>2. Len(s) \in Nat \ {0}
    BY <2>1, EmptySeq
  <2>3. \A k \in Nat : k # 0 /\ k # 1 => k > 1
    OBVIOUS
  <2>4. Len(s) > 1
    BY <2>2, <2>3
  <2> QED
    BY <2>1, <2>2, <2>4
<1>2. n \in Nat /\ 1 <= n /\ Len(s) = n + 1
  BY <1>1
<1>3. r \in Seq(Frames) /\ Len(r) = n /\ \A i \in 1..n : r[i] = s[i]
  BY <1>1, <1>2
<1> HIDE DEF r, n
<1>4. n \in 1..Len(r) /\ DOMAIN r = 1..n
  BY <1>2, <1>3
<1>5. r[n] \in Frames
  BY <1>3, <1>4
<1>6. [r[n] EXCEPT !.resolved = @ + 1] \in Frames
  BY <1>5 DEF Frames
<1>7. /\ DOMAIN t = 1..n
      /\ \A i \in 1..n : t[i] = IF i = n THEN [r[n] EXCEPT !.resolved = @ + 1] ELSE r[i]
  BY <1>4
<1>8. \A i \in 1..n : t[i] \in Frames
  BY <1>3, <1>6, <1>7
<1>9. t \in [1..n -> Frames]
  BY <1>7, <1>8
<1>10. t \in Seq(Frames) /\ Len(t) = n
  <2>1. t \in Seq(Frames)
    BY <1>2, <1>9, SeqDef
  <2> QED
    BY <2>1, <1>2, <1>7, LenProperties
<1> HIDE DEF t
<1>11. ASSUME NEW i \in 1..n
       PROVE  /\ t[i].resolved <= Len(Needed[t[i].func])
              /\ i < n => t[i].resolved < Len(Needed[t[i].func])
  <2>1. s[i] \in Frames /\ s[i].resolved < Len(Needed[s[i].func])
    BY <1>1, <1>2 DEF GoodStack
  <2>2. s[i].resolved \in Nat /\ Len(Needed[s[i].func]) \in Nat
    BY <2>1, NeededAreFunctions DEF Frames
  <2>3. CASE i = n
    <3>1. t[i].resolved = s[i].resolved + 1 /\ t[i].func = s[i].func
      BY <2>1, <2>3, <1>3, <1>7 DEF Frames
    <3> QED
      BY <3>1, <2>1, <2>2, <2>3
  <2>4. CASE i # n
    BY <2>1, <2>2, <2>4, <1>3, <1>7
  <2> QED
    BY <2>3, <2>4
<1>12. GoodStack(t)
  BY <1>10, <1>11 DEF GoodStack
<1> QED
  BY <1>12 DEF t, r, n

\* Every action of Dependencies preserves the invariant.
LEMMA CallStep == CallInv /\ Call!Next => CallInv'
<1> SUFFICES ASSUME CallInv, Call!Next
             PROVE  CallInv'
  OBVIOUS
<1> DEFINE Phases == {"resolving", "queued", "running"}
           U == Call!InUse
<1>0. /\ DOMAIN stack = Senders /\ phase \in [Senders -> Phases]
      /\ \A c \in Senders : GoodStack(stack[c])
      /\ inThread \subseteq DOMAIN Needed /\ cancelled \subseteq Senders
      /\ Call!Cardinality(U) <= Threads
  BY DEF CallInv, Call!TypeOK, Needed
<1>1. IsFiniteSet(Senders) /\ Threads \in Nat
  BY SizesAssumption
<1>2. \A c : c \in U <=> /\ c \in Senders /\ stack[c] # <<>> /\ phase[c] = "running"
                         /\ stack[c][Len(stack[c])].func \in inThread
  BY DEF Call!InUse, Call!Ended, Call!Inner, Call!Last
<1>3. \A c : c \in U' <=> /\ c \in Senders /\ stack'[c] # <<>> /\ phase'[c] = "running"
                          /\ stack'[c][Len(stack'[c])].func \in inThread'
  BY DEF Call!InUse, Call!Ended, Call!Inner, Call!Last
<1> HIDE DEF U
<1>4. IsFiniteSet(U) /\ Cardinality(U) \in Nat /\ Cardinality(U) <= Threads
  <2>1. U \subseteq Senders
    BY <1>2
  <2>2. IsFiniteSet(U)
    BY <2>1, <1>1, FS_Subset
  <2> QED
    BY <2>2, <1>0, FS_CardinalityType, CallCountsSo
\* The invariant of the next state, when the stack and the phase of one call change.
<1>a. ASSUME NEW c \in Senders, NEW s, NEW p \in Phases, GoodStack(s),
             \/ stack' = [stack EXCEPT ![c] = s]
             \/ stack' = stack /\ s = stack[c],
             phase' = [phase EXCEPT ![c] = p], inThread' = inThread, cancelled' \subseteq Senders,
             \/ p = "running" /\ s # <<>> /\ s[Len(s)].func \in inThread
                => Cardinality(U) < Threads \/ c \in U
      PROVE  CallInv'
  <2>1. /\ DOMAIN stack' = Senders /\ phase' \in [Senders -> Phases]
        /\ \A d \in Senders : /\ stack'[d] = IF d = c THEN s ELSE stack[d]
                              /\ phase'[d] = IF d = c THEN p ELSE phase[d]
    BY <1>a, <1>0
  <2>2. \A d \in Senders : GoodStack(stack'[d])
    BY <2>1, <1>a, <1>0
  <2>3. Cardinality(U') <= Threads
    <3>1. \A d \in U' : d = c \/ d \in U
      BY <2>1, <1>2, <1>3, <1>a
    <3>2. CASE c \in U' /\ c \notin U
      <4>1. Cardinality(U) < Threads
        BY <3>2, <2>1, <1>3, <1>a
      <4>2. U' \subseteq U \cup {c}
        BY <3>1
      <4>3. IsFiniteSet(U \cup {c}) /\ Cardinality(U \cup {c}) = Cardinality(U) + 1
        BY <3>2, <1>4, FS_AddElement
      <4>4. Cardinality(U') <= Cardinality(U \cup {c}) /\ IsFiniteSet(U')
        BY <4>2, <4>3, FS_Subset
      <4>5. Cardinality(U') \in Nat
        BY <4>4, FS_CardinalityType
      <4> QED
        BY <4>1, <4>3, <4>4, <4>5, <1>1, <1>4
    <3>3. CASE ~(c \in U' /\ c \notin U)
      <4>1. U' \subseteq U
        BY <3>1, <3>3
      <4>2. Cardinality(U') <= Cardinality(U) /\ IsFiniteSet(U')
        BY <4>1, <1>4, FS_Subset
      <4>3. Cardinality(U') \in Nat
        BY <4>2, FS_CardinalityType
      <4> QED
        BY <4>2, <4>3, <1>1, <1>4
    <3> QED
      BY <3>2, <3>3
  <2>4. Call!Cardinality(Call!InUse') <= Threads
    BY <2>3, CallCountsSo DEF U
  <2>5. \A d \in Senders : \A i \in DOMAIN stack'[d] :
           /\ stack'[d][i].func \in DOMAIN Needed
           /\ stack'[d][i].resolved \in 0..Len(Needed[stack'[d][i].func])
    <3> SUFFICES ASSUME NEW d \in Senders, NEW t, t = stack'[d], NEW i \in DOMAIN t
                 PROVE  t[i].func \in DOMAIN Needed /\ t[i].resolved \in 0..Len(Needed[t[i].func])
      OBVIOUS
    <3>1. GoodStack(t)
      BY <2>2
    <3>2. t \in Seq(Frames) /\ i \in 1..Len(t)
      BY <3>1 DEF GoodStack
    <3>3. t[i] \in Frames
      BY <3>2
    <3>4. t[i].func \in DOMAIN Needed /\ t[i].resolved \in Nat
      BY <3>3 DEF Frames
    <3>5. Len(Needed[t[i].func]) \in Nat
      BY <3>4, NeededAreFunctions
    <3>6. t[i].resolved <= Len(Needed[t[i].func])
      BY <3>1, <3>2 DEF GoodStack
    <3> QED
      BY <3>4, <3>5, <3>6
  <2>6. Call!TypeOK'
    BY <2>1, <2>4, <2>5, <1>0, <1>a DEF Call!TypeOK, Needed
  <2> QED
    BY <2>1, <2>2, <2>6 DEF CallInv
<1>5. GoodStack(<<>>)
  BY DEF GoodStack
<1>6. ASSUME NEW c \in Senders, Call!Resolve(c)
      PROVE  CallInv'
  <2> DEFINE s == stack[c]
             f == s[Len(s)].func
             g == Needed[f][s[Len(s)].resolved + 1]
  <2>1. /\ s # <<>> /\ phase[c] = "resolving" /\ s[Len(s)].resolved < Len(Needed[f])
        /\ stack' = [stack EXCEPT ![c] = Append(s, [func |-> g, resolved |-> 0])]
        /\ UNCHANGED <<inThread, phase, cancelled>>
    BY <1>6 DEF Call!Resolve, Call!Ended, Call!Inner, Call!Last, Call!Frame, Needed
  <2>2. GoodStack(s)
    BY <1>0
  <2>3. s \in Seq(Frames) /\ s[Len(s)] \in Frames
    BY <2>1, <2>2 DEF GoodStack
  <2>4. f \in DOMAIN Needed /\ s[Len(s)].resolved \in Nat
    BY <2>3 DEF Frames
  <2>5. g \in DOMAIN Needed
    <3>1. Needed[f] \in Seq(DOMAIN Needed)
      BY <2>4, NeededAreFunctions
    <3> QED
      BY <3>1, <2>1, <2>4
  <2> HIDE DEF g
  <2>6. GoodStack(Append(s, [func |-> g, resolved |-> 0]))
    BY <2>1, <2>2, <2>5, StackGrows
  <2>7. phase' = [phase EXCEPT ![c] = "resolving"]
    BY <2>1, <1>0
  <2> QED
    BY <1>a, <1>0, <2>1, <2>6, <2>7
<1>7. ASSUME NEW c \in Senders, Call!CallFunction(c)
      PROVE  CallInv'
  <2>1. /\ stack[c] # <<>> /\ UNCHANGED <<inThread, stack, cancelled>>
        /\ phase' = [phase EXCEPT ![c] = IF stack[c][Len(stack[c])].func \in inThread
                                         THEN "queued" ELSE "running"]
    BY <1>7 DEF Call!CallFunction, Call!Ended, Call!Inner, Call!Last
  <2>2. CASE stack[c][Len(stack[c])].func \in inThread
    BY <2>1, <2>2, <1>0, <1>a
  <2>3. CASE stack[c][Len(stack[c])].func \notin inThread
    BY <2>1, <2>3, <1>0, <1>a
  <2> QED
    BY <2>2, <2>3
<1>8. ASSUME NEW c \in Senders, Call!GetThread(c)
      PROVE  CallInv'
  <2>1. /\ Call!Cardinality(U) < Threads /\ UNCHANGED <<inThread, stack, cancelled>>
        /\ phase' = [phase EXCEPT ![c] = "running"]
    BY <1>8 DEF Call!GetThread, U
  <2>2. Cardinality(U) < Threads
    BY <2>1, CallCountsSo
  <2> QED
    BY <2>1, <2>2, <1>0, <1>a
<1>9. ASSUME NEW c \in Senders, Call!Return(c)
      PROVE  CallInv'
  <2> DEFINE s == stack[c]
             t == [SubSeq(s, 1, Len(s) - 1) EXCEPT ![Len(s) - 1].resolved = @ + 1]
  <2>1. /\ s # <<>> /\ stack' = [stack EXCEPT ![c] = IF Len(s) = 1 THEN <<>> ELSE t]
        /\ phase' = [phase EXCEPT ![c] = "resolving"] /\ UNCHANGED <<inThread, cancelled>>
    BY <1>9 DEF Call!Return, Call!Ended, Call!Returned, Call!Front
  <2>2. GoodStack(s)
    BY <1>0
  <2>3. Len(s) # 1 => GoodStack(t)
    BY <2>1, <2>2, StackShrinks
  <2> HIDE DEF t
  <2>4. GoodStack(IF Len(s) = 1 THEN <<>> ELSE t)
    BY <2>3, <1>5
  <2> QED
    BY <2>1, <2>4, <1>0, <1>a
<1>10. ASSUME NEW c \in Senders, Call!Raise(c) \/ Call!Cancelled(c)
       PROVE  CallInv'
  <2>1. /\ stack' = [stack EXCEPT ![c] = <<>>] /\ phase' = [phase EXCEPT ![c] = "resolving"]
        /\ UNCHANGED <<inThread, cancelled>>
    BY <1>10 DEF Call!Raise, Call!Cancelled, Call!Unwind
  <2> QED
    BY <2>1, <1>0, <1>5, <1>a
<1>11. ASSUME NEW c \in Senders, Call!Cancel(c)
       PROVE  CallInv'
  <2>1. cancelled' = cancelled \cup {c} /\ UNCHANGED <<inThread, stack, phase>>
    BY <1>11 DEF Call!Cancel
  <2>2. phase' = [phase EXCEPT ![c] = phase[c]] /\ phase[c] \in Phases
    BY <2>1, <1>0
  <2>3. phase[c] = "running" /\ stack[c] # <<>> /\ stack[c][Len(stack[c])].func \in inThread
        => c \in U
    BY <1>2
  <2>4. PICK s : s = stack[c]
    OBVIOUS
  <2>5. inThread' = inThread /\ cancelled' \subseteq Senders
    BY <2>1, <1>0
  <2>6. stack' = stack /\ GoodStack(s)
    BY <2>1, <2>4, <1>0
  <2>7. phase[c] = "running" /\ s # <<>> /\ s[Len(s)].func \in inThread
        => Cardinality(U) < Threads \/ c \in U
    BY <2>3, <2>4, Zenon
  <2> QED
    BY <2>2, <2>4, <2>5, <2>6, <2>7, <1>a
<1> QED
  BY <1>6, <1>7, <1>8, <1>9, <1>10, <1>11 DEF Call!Next, Call!Proceeds

-----------------------------------------------------------------------------
(* Registration                                                            *)

\* The types, the functions and the prefixes, as MCParts has them.
TypesHere == {"t", "u"}
FuncsHere == {"f", "g", "h"}
TypeOfHere == [f |-> "t", g |-> "t", h |-> "u"]
ExtrasHere == {<<>>, <<"p">>, <<"q">>}
FuncsOf(t) == {f \in FuncsHere : TypeOfHere[f] = t}

\* A type has only functions of its own, whether the bus or the router has them.
FuncsMatch ==
    /\ order \in Seq(TypesHere)
    /\ \A t \in TypesHere : handlers[t] \in Seq(FuncsOf(t)) /\ routed[t] \in Seq(FuncsOf(t))
\* A loop listens on the topic of its type as it was at run(), which only a prefix has moved.
LoopsListen ==
    \A l \in loops :
       /\ handlers[l.type] # <<>>
       /\ l.extra = prefixes[l.type] \/ (kind = "event" /\ l.extra = <<>>)

RegisterInv == Register!TypeOK /\ FuncsMatch /\ LoopsListen

\* RunningHandlersAreReached: a loop that does not hear is one whose topic was moved, and one
\* that hears and gets nothing has a competitor with the same subscriber that does.
LEMMA LoopsAreReached == RegisterInv => Register!RunningHandlersAreReached
<1> SUFFICES ASSUME RegisterInv, NEW s \in Setups, NEW l \in loops,
                    NEW given \in Register!Receivers(s, l.type), l \notin given
             PROVE  \/ /\ kind = "event" /\ s.topics = "default"
                       /\ l.extra = <<>> /\ prefixes[l.type] # <<>>
                    \/ /\ s.delivery # "broadcast"
                       /\ \E k \in loops \ {l} :
                            /\ Register!Topic(s, k.type, k.extra) = Register!Topic(s, l.type, l.extra)
                            /\ s.delivery = "own" =>
                                 k.func = l.func \/ {k.func, l.func} \subseteq s.namesakes
  BY DEF Register!RunningHandlersAreReached
<1> DEFINE H == Register!Hears(s, l.type)
<1>1. /\ s.topics \in {"default", "each", "one"}
      /\ s.delivery \in {"broadcast", "shared", "own"}
  BY DEF Setups, Delivered
<1>2. /\ \A k \in loops : k.func \in FuncsHere
      /\ l.extra = prefixes[l.type] \/ (kind = "event" /\ l.extra = <<>>)
  BY DEF RegisterInv, LoopsListen, Register!TypeOK, Register!LoopType, FuncsHere
<1>3. H = {k \in loops : Register!Topic(s, k.type, k.extra)
                         = Register!Topic(s, l.type, prefixes[l.type])}
  BY DEF Register!Hears
<1>4. CASE l \notin H
  <2>1. Register!Topic(s, l.type, l.extra) # Register!Topic(s, l.type, prefixes[l.type])
    BY <1>3, <1>4
  <2>2. l.extra # prefixes[l.type]
    BY <2>1
  <2>3. s.topics = "default"
    BY <2>1, <1>1 DEF Register!Topic
  <2> QED
    BY <2>2, <2>3, <1>2
<1>5. CASE l \in H
  <2> HIDE DEF H
  <2>1. s.delivery # "broadcast"
    BY <1>5 DEF Register!Receivers, H
  <2> DEFINE Same == {k \in given : Register!Subscriber(s, k.func) = Register!Subscriber(s, l.func)}
  <2>2. given \subseteq H /\ Register!Cardinality(Same) = 1
    BY <1>5, <2>1 DEF Register!Receivers, H
  <2>3. Same # {}
    <3>1. Register!Cardinality(Same) = Cardinality(Same)
      BY DEF Register!Cardinality, Cardinality
    <3>2. Cardinality({}) = 0
      BY FS_EmptySet
    <3> HIDE DEF Same
    <3>3. Cardinality(Same) # 0
      BY <3>1, <2>2
    <3> QED
      BY <3>2, <3>3, Zenon
  <2>4. PICK k \in given : Register!Subscriber(s, k.func) = Register!Subscriber(s, l.func)
    BY <2>3
  <2>5. k \in loops \ {l}
    BY <2>2, <2>4, <1>3
  <2>6. Register!Topic(s, k.type, k.extra) = Register!Topic(s, l.type, l.extra)
    BY <2>2, <2>4, <1>3, <1>5
  <2>7. ASSUME s.delivery = "own"
        PROVE  k.func = l.func \/ {k.func, l.func} \subseteq s.namesakes
    <3>1. k.func \in FuncsHere /\ l.func \in FuncsHere
      BY <2>5, <1>2
    <3>2. k.func # "namesake" /\ l.func # "namesake"
      BY <3>1 DEF FuncsHere
    <3>3. s.delivery # "shared"
      BY <2>7
    <3>4. \A f : Register!Subscriber(s, f) = IF f \in s.namesakes THEN "namesake" ELSE f
      BY <3>3 DEF Register!Subscriber
    <3>5. CASE k.func \in s.namesakes
      BY <2>4, <3>2, <3>4, <3>5
    <3>6. CASE k.func \notin s.namesakes
      BY <2>4, <3>2, <3>4, <3>6
    <3> QED
      BY <3>5, <3>6
  <2> QED
    BY <2>1, <2>5, <2>6, <2>7
<1> QED
  BY <1>4, <1>5

\* A sequence begins with itself, and goes on beginning so when another is appended.
LEMMA PrefixOfLonger ==
    ASSUME NEW S, NEW s \in Seq(S), NEW r \in Seq(S)
    PROVE  Register!IsPrefix(s, s \o r)
<1>1. /\ s \o r \in Seq(S) /\ Len(s \o r) = Len(s) + Len(r)
      /\ \A i \in 1..Len(s) + Len(r) : (s \o r)[i] = IF i <= Len(s) THEN s[i] ELSE r[i - Len(s)]
  BY ConcatProperties
<1>2. Len(s) \in Nat /\ Len(r) \in Nat
  BY LenProperties
<1> DEFINE u == s \o r
<1> HIDE DEF u
<1>3. u \in Seq(S) /\ \A i \in 1..Len(s) : u[i] = s[i] /\ u[i] \in S
  BY <1>1, <1>2, ElementOfSeq DEF u
<1>4. /\ SubSeq(u, 1, Len(s)) \in Seq(S) /\ Len(SubSeq(u, 1, Len(s))) = Len(s)
      /\ \A i \in 1..Len(s) : SubSeq(u, 1, Len(s))[i] = u[i]
  <2>1. \A i \in 1..Len(s) : u[i] \in S
    BY <1>3
  <2>2. /\ SubSeq(u, 1, Len(s)) \in Seq(S)
        /\ Len(SubSeq(u, 1, Len(s))) = IF 1 <= Len(s) THEN Len(s) - 1 + 1 ELSE 0
        /\ \A i \in 1..(Len(s) - 1 + 1) : SubSeq(u, 1, Len(s))[i] = u[1 + i - 1]
    BY <2>1, <1>2, SubSeqProperties
  <2> QED
    BY <2>2, <1>2
<1> DEFINE v == SubSeq(u, 1, Len(s))
<1> HIDE DEF v
<1>5. v = s
  <2>1. v \in Seq(S) /\ Len(v) = Len(s) /\ \A i \in 1..Len(v) : v[i] = s[i]
    BY <1>3, <1>4 DEF v
  <2> QED
    BY <2>1, SeqEqual
<1>6. SubSeq(s, 1, Len(s)) = s
  BY SubSeqFull
<1>7. Len(s) <= Len(u) /\ SubSeq(s, 1, Len(s)) = SubSeq(u, 1, Len(s))
  BY <1>1, <1>2, <1>5, <1>6 DEF u, v
<1> QED
  BY <1>7 DEF Register!IsPrefix, u

\* The same without a second sequence, with one element, and after nothing.
LEMMA Prefixes ==
    ASSUME NEW S, NEW s \in Seq(S), NEW e \in S
    PROVE  Register!IsPrefix(s, s) /\ Register!IsPrefix(s, Append(s, e)) /\ Register!IsPrefix(<<>>, s)
<1>1. <<e>> \in Seq(S) /\ <<>> \in Seq(S)
  OBVIOUS
<1>2. s \o <<>> = s /\ <<>> \o s = s
  BY ConcatEmptySeq
<1>3. s \o <<e>> = Append(s, e)
  OBVIOUS
<1> QED
  BY <1>1, <1>2, <1>3, PrefixOfLonger

\* Every action of Registration preserves the invariant, and only adds.
LEMMA RegisterStep == RegisterInv /\ Register!Next => RegisterInv' /\ Register!OnlyAdds
<1> SUFFICES ASSUME RegisterInv, Register!Next
             PROVE  RegisterInv' /\ Register!OnlyAdds
  OBVIOUS
<1> DEFINE T == TypesHere
<1>0. /\ kind \in {"command", "event"} /\ calls \in 0..MaxCalls /\ MaxCalls \in Nat
      /\ handlers \in [T -> Seq(FuncsHere)] /\ routed \in [T -> Seq(FuncsHere)]
      /\ prefixes \in [T -> ExtrasHere]
      /\ kind = "command" => \A t \in T : Len(handlers[t]) <= 1 /\ Len(routed[t]) <= 1
      /\ \A t \in T : prefixes[t] # <<>> => handlers[t] # <<>>
      /\ order \in Seq(T)
      /\ \A t \in T : handlers[t] \in Seq(FuncsOf(t)) /\ routed[t] \in Seq(FuncsOf(t))
  BY SizesAssumption DEF RegisterInv, Register!TypeOK, FuncsMatch, TypesHere, FuncsHere, ExtrasHere
<1>1. /\ \A t : t \in Register!ToSet(order) <=> t \in T /\ routed[t] # <<>>
      /\ Register!IsInjective(order)
  BY DEF RegisterInv, Register!TypeOK, TypesHere
<1>2. \A l \in loops : /\ l \in Register!LoopType /\ TypeOfHere[l.func] = l.type
                       /\ handlers[l.type] # <<>>
                       /\ l.extra = prefixes[l.type] \/ (kind = "event" /\ l.extra = <<>>)
  BY DEF RegisterInv, Register!TypeOK, LoopsListen, TypeOfHere
<1>3. \A f \in FuncsHere : TypeOfHere[f] \in T /\ f \in FuncsOf(TypeOfHere[f])
  BY DEF FuncsHere, TypeOfHere, TypesHere, FuncsOf
<1>4. \A t \in T : FuncsOf(t) \subseteq FuncsHere
  BY DEF FuncsOf
<1>5. \A l \in Register!LoopType : l.type \in T /\ l.extra \in ExtrasHere
  BY DEF Register!LoopType, TypesHere, ExtrasHere
<1> HIDE DEF T
\* The invariant of the next state, part by part.
<1>a. ASSUME kind' = kind, calls' \in 0..MaxCalls,
             DOMAIN handlers' = T, DOMAIN routed' = T,
             \A t \in T : handlers'[t] \in Seq(FuncsOf(t)) /\ routed'[t] \in Seq(FuncsOf(t)),
             prefixes' \in [T -> ExtrasHere],
             handlers' \in [T -> Seq(FuncsHere)], routed' \in [T -> Seq(FuncsHere)],
             kind = "command" => \A t \in T : Len(handlers'[t]) <= 1 /\ Len(routed'[t]) <= 1,
             \A t \in T : prefixes'[t] # <<>> => handlers'[t] # <<>>,
             order' \in Seq(T), Register!IsInjective(order'),
             \A t : t \in Register!ToSet(order') <=> t \in T /\ routed'[t] # <<>>,
             \A l \in loops' : /\ l \in Register!LoopType /\ TypeOfHere[l.func] = l.type
                               /\ handlers'[l.type] # <<>>
                               /\ l.extra = prefixes'[l.type] \/ (kind = "event" /\ l.extra = <<>>)
      PROVE  RegisterInv'
  <2>1. Register!ToSet(order)' = {t \in T : routed'[t] # <<>>}
    <3>1. Register!ToSet(order') = {t \in T : routed'[t] # <<>>}
      BY <1>a
    <3> QED
      BY <3>1 DEF Register!ToSet
  <2>2. Register!IsInjective(order)'
    BY <1>a DEF Register!IsInjective
  <2>3. Register!TypeOK'
    BY <1>a, <1>0, <2>1, <2>2 DEF Register!TypeOK, T, TypesHere, FuncsHere, TypeOfHere, ExtrasHere
  <2>4. FuncsMatch'
    BY <1>a DEF FuncsMatch, T
  <2>5. LoopsListen'
    BY <1>a DEF LoopsListen
  <2> QED
    BY <2>3, <2>4, <2>5 DEF RegisterInv
\* Where only the bus gets handlers and prefixes.
<1>b. ASSUME UNCHANGED <<kind, loops, order, routed>>, calls' \in 0..MaxCalls,
             handlers' = [t \in T |-> handlers'[t]], prefixes' \in [T -> ExtrasHere],
             \A t \in T : handlers'[t] \in Seq(FuncsOf(t)),
             kind = "command" => \A t \in T : Len(handlers'[t]) <= 1,
             \A t \in T : prefixes'[t] # <<>> => handlers'[t] # <<>>,
             \A t \in T : handlers[t] # <<>> =>
                handlers'[t] # <<>> /\ (kind = "event" \/ prefixes'[t] = prefixes[t]),
             \A t \in T : prefixes[t] # <<>> => prefixes'[t] = prefixes[t],
             \A t \in T : Register!IsPrefix(handlers[t], handlers'[t])
                          \/ (kind = "command" /\ \E f \in FuncsHere : Register!Handler(f))
      PROVE  RegisterInv' /\ Register!OnlyAdds
  <2>1. handlers' \in [T -> Seq(FuncsHere)]
    <3>1. \A t \in T : handlers'[t] \in Seq(FuncsHere)
      BY <1>b, <1>4, SeqMonotonic
    <3> QED
      BY <3>1, <1>b
  <2>2. \A l \in loops' : /\ l \in Register!LoopType /\ TypeOfHere[l.func] = l.type
                          /\ handlers'[l.type] # <<>>
                          /\ l.extra = prefixes'[l.type] \/ (kind = "event" /\ l.extra = <<>>)
    <3> SUFFICES ASSUME NEW l \in loops
                 PROVE  /\ l \in Register!LoopType /\ TypeOfHere[l.func] = l.type
                        /\ handlers'[l.type] # <<>>
                        /\ l.extra = prefixes'[l.type] \/ (kind = "event" /\ l.extra = <<>>)
      BY <1>b
    <3>1. l \in Register!LoopType /\ l.type \in T
      BY <1>2, <1>5
    <3> QED
      BY <3>1, <1>2, <1>b
  <2>3. Register!OnlyAdds
    <3>1. \A t \in T : prefixes'[t] # prefixes[t] /\ kind = "command" => handlers[t] = <<>>
      BY <1>b
    <3> QED
      BY <3>1, <1>b DEF Register!OnlyAdds, T, TypesHere, FuncsHere
  <2>4. RegisterInv'
    BY <1>a, <1>b, <1>0, <1>1, <2>1, <2>2
  <2> QED
    BY <2>3, <2>4
\* Handlers that stay are a prefix of themselves.
<1>c. \A t \in T : Register!IsPrefix(handlers[t], handlers[t])
  <2> SUFFICES ASSUME NEW t \in T
               PROVE  Register!IsPrefix(handlers[t], handlers[t])
    OBVIOUS
  <2>1. handlers[t] \in Seq({1} \cup FuncsOf(t)) /\ 1 \in {1} \cup FuncsOf(t)
    BY <1>0, SeqMonotonic
  <2> QED
    BY <2>1, Prefixes
<1>d. UNCHANGED <<handlers, prefixes>> => Register!OnlyAdds
  BY <1>c DEF Register!OnlyAdds, T, TypesHere
\* What a handler, or one more, makes of a sequence.
<1>e. ASSUME NEW f \in FuncsHere, NEW s \in Seq(FuncsOf(TypeOfHere[f])), kind = "command" => Len(s) <= 1
      PROVE  /\ Register!With(s, f) \in Seq(FuncsOf(TypeOfHere[f])) /\ Register!With(s, f) # <<>>
             /\ kind = "command" => Len(Register!With(s, f)) <= 1
             /\ kind = "event" => Register!IsPrefix(s, Register!With(s, f))
  <2>1. f \in FuncsOf(TypeOfHere[f])
    BY <1>3
  <2>2. CASE kind = "command"
    BY <2>1, <2>2 DEF Register!With
  <2>3. CASE kind # "command"
    <3>1. Register!With(s, f) = Append(s, f)
      BY <2>3 DEF Register!With
    <3>2. Append(s, f) \in Seq(FuncsOf(TypeOfHere[f])) /\ Append(s, f) # <<>>
      BY <2>1
    <3> QED
      BY <2>1, <2>3, <3>1, <3>2, Prefixes
  <2> QED
    BY <2>2, <2>3
<1>6. ASSUME NEW f \in FuncsHere, Register!Handler(f)
      PROVE  RegisterInv' /\ Register!OnlyAdds
  <2> DEFINE t == TypeOfHere[f]
             w == Register!With(handlers[t], f)
  <2>1. /\ calls < MaxCalls /\ calls' = calls + 1 /\ UNCHANGED <<kind, loops, prefixes, order, routed>>
        /\ handlers' = [handlers EXCEPT ![t] = w]
    BY <1>6 DEF Register!Handler, Register!Registers, TypeOfHere
  <2>2. t \in T
    BY <1>3
  <2> HIDE DEF t
  <2>3. /\ w \in Seq(FuncsOf(t)) /\ w # <<>> /\ (kind = "command" => Len(w) <= 1)
        /\ kind = "event" => Register!IsPrefix(handlers[t], w)
    BY <2>2, <1>0, <1>e DEF t
  <2> HIDE DEF w
  <2>4. /\ handlers' = [x \in T |-> handlers'[x]]
        /\ \A x \in T : handlers'[x] = IF x = t THEN w ELSE handlers[x]
    BY <2>1, <2>2, <1>0
  <2>5. calls' \in 0..MaxCalls
    BY <2>1, <1>0
  <2>6. \A x \in T : handlers'[x] \in Seq(FuncsOf(x)) /\ (handlers[x] # <<>> => handlers'[x] # <<>>)
    BY <2>3, <2>4, <1>0
  <2>7. kind = "command" => \A x \in T : Len(handlers'[x]) <= 1
    BY <2>3, <2>4, <1>0
  <2>8. \A x \in T : Register!IsPrefix(handlers[x], handlers'[x])
                     \/ (kind = "command" /\ \E g \in FuncsHere : Register!Handler(g))
    BY <2>3, <2>4, <1>0, <1>c, <1>6
  <2> QED
    BY <1>b, <1>0, <2>1, <2>4, <2>5, <2>6, <2>7, <2>8
<1>7. ASSUME NEW f \in FuncsHere, Register!RouterHandler(f)
      PROVE  RegisterInv' /\ Register!OnlyAdds
  <2> DEFINE t == TypeOfHere[f]
             w == Register!With(routed[t], f)
  <2>1. /\ calls < MaxCalls /\ calls' = calls + 1 /\ UNCHANGED <<kind, loops, handlers, prefixes>>
        /\ routed' = [routed EXCEPT ![t] = w]
        /\ order' = IF t \in Register!ToSet(order) THEN order ELSE Append(order, t)
    BY <1>7 DEF Register!RouterHandler, Register!Registers, TypeOfHere
  <2>2. t \in T
    BY <1>3
  <2> HIDE DEF t
  <2>3. w \in Seq(FuncsOf(t)) /\ w # <<>> /\ (kind = "command" => Len(w) <= 1)
    BY <2>2, <1>0, <1>e DEF t
  <2> HIDE DEF w
  <2>4. DOMAIN routed' = T /\ \A x \in T : routed'[x] = IF x = t THEN w ELSE routed[x]
    BY <2>1, <2>2, <1>0
  <2>5. calls' \in 0..MaxCalls
    BY <2>1, <1>0
  <2>6. /\ order' \in Seq(T) /\ Register!IsInjective(order')
        /\ \A x : x \in Register!ToSet(order') <=> x \in Register!ToSet(order) \/ x = t
    <3>1. CASE t \in Register!ToSet(order)
      BY <2>1, <3>1, <1>0, <1>1
    <3>2. CASE t \notin Register!ToSet(order)
      <4>1. order' = Append(order, t) /\ order' \in Seq(T) /\ Len(order) \in Nat
        BY <2>1, <2>2, <3>2, <1>0
      <4>2. /\ DOMAIN order = 1..Len(order) /\ DOMAIN order' = 1..Len(order) + 1
            /\ \A i \in 1..Len(order) : order'[i] = order[i]
            /\ order'[Len(order) + 1] = t
        BY <4>1, <2>2, <1>0
      <4>3. \A i \in 1..Len(order) : order[i] # t
        BY <3>2, <4>2 DEF Register!ToSet
      <4>4. Register!IsInjective(order')
        BY <1>1, <4>1, <4>2, <4>3 DEF Register!IsInjective
      <4>5. \A x : x \in Register!ToSet(order') <=> \E i \in 1..Len(order) + 1 : x = order'[i]
        BY <4>2 DEF Register!ToSet
      <4>6. \A x : x \in Register!ToSet(order) <=> \E i \in 1..Len(order) : x = order[i]
        BY <4>2 DEF Register!ToSet
      <4>7. \A i \in 1..Len(order) + 1 : i \in 1..Len(order) \/ i = Len(order) + 1
        BY <4>1
      <4>8. \A i \in 1..Len(order) : i \in 1..Len(order) + 1
        BY <4>1
      <4>9. Len(order) + 1 \in 1..Len(order) + 1
        BY <4>1
      <4>10. \A x : x \in Register!ToSet(order') <=> x \in Register!ToSet(order) \/ x = t
        BY <4>2, <4>5, <4>6, <4>7, <4>8, <4>9
      <4> QED
        BY <4>1, <4>4, <4>10
    <3> QED
      BY <3>1, <3>2
  <2>7. \A x \in T : routed'[x] \in Seq(FuncsOf(x))
    BY <2>3, <2>4, <1>0
  <2>8. routed' \in [T -> Seq(FuncsHere)]
    <3>1. \A x \in T : routed'[x] \in Seq(FuncsHere)
      BY <2>7, <1>4, SeqMonotonic
    <3>2. routed' = [x \in T |-> routed'[x]]
      BY <2>1, <2>4, <1>0
    <3> QED
      BY <3>1, <3>2
  <2>9. \A x : x \in Register!ToSet(order') <=> x \in T /\ routed'[x] # <<>>
    BY <2>2, <2>3, <2>4, <2>6, <1>1
  <2>10. kind = "command" => \A x \in T : Len(handlers'[x]) <= 1 /\ Len(routed'[x]) <= 1
    BY <2>1, <2>3, <2>4, <1>0
  <2>11. RegisterInv'
    BY <1>a, <1>0, <1>2, <2>1, <2>4, <2>5, <2>6, <2>7, <2>8, <2>9, <2>10
  <2> QED
    BY <2>1, <2>11, <1>d
<1>8. ASSUME NEW p \in ExtrasHere, Register!IncludeCommands(p)
      PROVE  RegisterInv' /\ Register!OnlyAdds
  <2> DEFINE B == Register!BeforeDuplicate
  <2>1. /\ kind = "command" /\ calls < MaxCalls /\ calls' = calls + 1
        /\ UNCHANGED <<kind, loops, order, routed>>
        /\ handlers' = [t \in T |-> IF t \in B THEN routed[t] ELSE handlers[t]]
        /\ prefixes' = [t \in T |-> IF t \in B /\ p # <<>> THEN p ELSE prefixes[t]]
    BY <1>8 DEF Register!IncludeCommands, Register!Registers, T, TypesHere
  <2>2. ASSUME NEW t \in B
        PROVE  t \in T /\ handlers[t] = <<>> /\ routed[t] # <<>>
    <3>1. PICK i \in DOMAIN order : t = order[i] /\ \A j \in 1..i : handlers[order[j]] = <<>>
      BY DEF Register!BeforeDuplicate
    <3>2. t \in Register!ToSet(order)
      BY <3>1 DEF Register!ToSet
    <3>3. i \in 1..i
      BY <3>1, <1>0
    <3> QED
      BY <3>1, <3>2, <3>3, <1>1
  <2> HIDE DEF B
  <2>3. calls' \in 0..MaxCalls
    BY <2>1, <1>0
  <2>4. \A t \in T : /\ handlers'[t] = IF t \in B THEN routed[t] ELSE handlers[t]
                     /\ prefixes'[t] = IF t \in B /\ p # <<>> THEN p ELSE prefixes[t]
    BY <2>1
  <2>5. handlers' = [t \in T |-> handlers'[t]] /\ prefixes' \in [T -> ExtrasHere]
    BY <2>1, <1>0
  <2>6. \A t \in T : /\ handlers'[t] \in Seq(FuncsOf(t)) /\ Len(handlers'[t]) <= 1
                     /\ prefixes'[t] # <<>> => handlers'[t] # <<>>
                     /\ handlers[t] # <<>> => handlers'[t] # <<>> /\ prefixes'[t] = prefixes[t]
                     /\ prefixes[t] # <<>> => prefixes'[t] = prefixes[t]
    BY <2>1, <2>2, <2>4, <1>0
  <2>7. ASSUME NEW t \in T
        PROVE  Register!IsPrefix(handlers[t], handlers'[t])
    <3>1. CASE t \in B
      <4>1. handlers[t] = <<>> /\ handlers'[t] = routed[t]
        BY <2>2, <2>4, <3>1
      <4>2. routed[t] \in Seq({1} \cup FuncsOf(t)) /\ 1 \in {1} \cup FuncsOf(t)
        BY <1>0, SeqMonotonic
      <4>3. Register!IsPrefix(<<>>, routed[t])
        BY <4>2, Prefixes
      <4> QED
        BY <4>1, <4>3
    <3>2. CASE t \notin B
      BY <2>4, <3>2, <1>c
    <3> QED
      BY <3>1, <3>2
  <2> QED
    BY <1>b, <2>1, <2>3, <2>5, <2>6, <2>7
<1>9. ASSUME NEW p \in ExtrasHere, Register!IncludeEvents(p)
      PROVE  RegisterInv' /\ Register!OnlyAdds
  <2> DEFINE O == Register!ToSet(order)
  <2>1. /\ kind = "event" /\ calls < MaxCalls /\ calls' = calls + 1
        /\ UNCHANGED <<kind, loops, order, routed>>
        /\ handlers' = [t \in T |-> handlers[t] \o routed[t]]
        /\ prefixes' = [t \in T |-> IF t \in O /\ prefixes[t] = <<>> THEN p ELSE prefixes[t]]
    BY <1>9 DEF Register!IncludeEvents, Register!Registers, T, TypesHere
  <2> HIDE DEF O
  <2>2. \A t \in O : routed[t] # <<>>
    BY <1>1 DEF O
  <2>3. calls' \in 0..MaxCalls
    BY <2>1, <1>0
  <2>4. \A t \in T : /\ handlers'[t] = handlers[t] \o routed[t]
                     /\ prefixes'[t] = IF t \in O /\ prefixes[t] = <<>> THEN p ELSE prefixes[t]
    BY <2>1
  <2>5. handlers' = [t \in T |-> handlers'[t]] /\ prefixes' \in [T -> ExtrasHere]
    BY <2>1, <1>0
  <2>6. ASSUME NEW t \in T
        PROVE  /\ handlers'[t] \in Seq(FuncsOf(t))
               /\ Register!IsPrefix(handlers[t], handlers'[t])
               /\ handlers'[t] = <<>> <=> handlers[t] = <<>> /\ routed[t] = <<>>
    <3>1. handlers[t] \in Seq(FuncsOf(t)) /\ routed[t] \in Seq(FuncsOf(t))
      BY <1>0
    <3>2. handlers'[t] = handlers[t] \o routed[t]
      BY <2>4
    <3>3. handlers[t] \o routed[t] \in Seq(FuncsOf(t))
      BY <3>1, ConcatProperties
    <3>4. Register!IsPrefix(handlers[t], handlers[t] \o routed[t])
      BY <3>1, PrefixOfLonger
    <3>5. handlers[t] \o routed[t] = <<>> <=> handlers[t] = <<>> /\ routed[t] = <<>>
      BY <3>1, ConcatEqualIffEmpty
    <3> QED
      BY <3>2, <3>3, <3>4, <3>5
  <2>7. \A t \in T : prefixes'[t] # <<>> => handlers'[t] # <<>>
    BY <2>2, <2>4, <2>6, <1>0
  <2>8. \A t \in T : prefixes[t] # <<>> => prefixes'[t] = prefixes[t]
    BY <2>4
  <2> QED
    BY <1>b, <2>1, <2>3, <2>5, <2>6, <2>7, <2>8
<1>10. CASE Register!Run
  <2>1. /\ UNCHANGED <<kind, handlers, prefixes, order, routed, calls>>
        /\ loops' = UNION {{[type |-> t, func |-> handlers[t][i], nth |-> i, extra |-> prefixes[t]] :
                               i \in DOMAIN handlers[t]} : t \in T}
    BY <1>10 DEF Register!Run, T, TypesHere
  <2>2. ASSUME NEW l \in loops'
        PROVE  /\ l \in Register!LoopType /\ TypeOfHere[l.func] = l.type
               /\ handlers'[l.type] # <<>>
               /\ l.extra = prefixes'[l.type] \/ (kind = "event" /\ l.extra = <<>>)
    <3>1. PICK t \in T : l \in {[type |-> t, func |-> handlers[t][i], nth |-> i, extra |-> prefixes[t]] :
                                  i \in DOMAIN handlers[t]}
      BY <2>1
    <3>2. PICK i \in DOMAIN handlers[t] :
              l = [type |-> t, func |-> handlers[t][i], nth |-> i, extra |-> prefixes[t]]
      BY <3>1
    <3>3. handlers[t] \in Seq(FuncsOf(t))
      BY <1>0
    <3>4. i \in 1..Len(handlers[t]) /\ i \in Nat /\ handlers[t] # <<>>
      BY <3>2, <3>3
    <3>5. handlers[t][i] \in FuncsOf(t)
      BY <3>3, <3>4, ElementOfSeq
    <3>6. handlers[t][i] \in FuncsHere /\ TypeOfHere[handlers[t][i]] = t
      BY <3>5 DEF FuncsOf
    <3>7. prefixes[t] \in ExtrasHere
      BY <1>0
    <3>8. l \in [type : T, func : FuncsHere, nth : Nat, extra : ExtrasHere]
      BY <3>2, <3>4, <3>6, <3>7
    <3>9. l \in Register!LoopType
      BY <3>8 DEF Register!LoopType, T, TypesHere, FuncsHere, ExtrasHere
    <3>10. l.type = t /\ l.func = handlers[t][i] /\ l.extra = prefixes[t]
      BY <3>2
    <3> QED
      BY <3>4, <3>6, <3>9, <3>10, <2>1
  <2>3. RegisterInv'
    BY <1>a, <1>0, <1>1, <2>1, <2>2
  <2> QED
    BY <2>1, <2>3, <1>d
<1>11. CASE Register!RunEnds
  <2>1. /\ UNCHANGED <<kind, handlers, prefixes, order, routed, calls>> /\ loops' = {}
    BY <1>11 DEF Register!RunEnds
  <2>2. RegisterInv'
    BY <1>a, <1>0, <1>1, <2>1
  <2> QED
    BY <2>1, <2>2, <1>d
<1> QED
  BY <1>6, <1>7, <1>8, <1>9, <1>10, <1>11 DEF Register!Next, FuncsHere, ExtrasHere

-----------------------------------------------------------------------------
(* MessageFormats                                                          *)

MessagesHere ==
    [payload : Format!Payloads, keys : SUBSET Format!Keys,
     uuid : {"own", "absent", "renamed", "other", "new", "None"}]

\* A message has no UUID until it was received, or None, and that from Redis.
FormatUuidInv ==
    /\ got.uuid \in {"absent", "renamed", "None"} => sent.uuid \in {"absent", "renamed"}
    /\ got.uuid \in {"absent", "renamed"} => path = <<>> \/ broken
    /\ got.uuid = "None" => path # <<>> /\ path[1] = "redis"
FormatInv ==
    /\ Format!TypeOK
    /\ sent \in MessagesHere /\ got \in MessagesHere
    /\ sent.uuid \in {"own", "absent", "renamed"} /\ value \in {"other", "text"}
    /\ path = <<>> => got = sent /\ ~broken
    /\ FormatUuidInv
    /\ Format!ArrivesAsSent

\* What is decoded of what was encoded has lost at most a layer.
LEMMA DecodedOfEncoded ==
    ASSUME NEW p \in Format!Payloads
    PROVE  /\ Format!Decode(Format!Encode(p)) \in Format!Payloads
           /\ Format!Decode(Format!Encode(p)) = p \/ p.layers > 0
<1> DEFINE Q == [core : {"text", "bytes"}, layers : Nat]
           q == Format!Encode(p)
           r == Format!Decode(q)
<1>1. /\ p \in Q /\ p.layers \in 0..MaxLayers /\ MaxLayers \in Nat
      /\ p.core \in {"text", "bytes"}
  BY SizesAssumption DEF Format!Payloads
<1>2. CASE Format!IsUtf8(p)
  <2>1. q = p
    BY <1>2 DEF Format!Encode
  <2>2. CASE p.layers > 0
    <3>1. r = [p EXCEPT !.layers = p.layers - 1]
      BY <2>1, <2>2 DEF Format!Decode
    <3>2. p.layers - 1 \in 0..MaxLayers
      BY <1>1, <2>2
    <3>3. r \in Format!Payloads
      BY <3>1, <3>2 DEF Format!Payloads
    <3> QED
      BY <3>3, <2>2
  <2>3. CASE ~(p.layers > 0)
    BY <2>1, <2>3 DEF Format!Decode
  <2> QED
    BY <2>2, <2>3
<1>3. CASE ~Format!IsUtf8(p)
  <2>1. p.layers = 0
    BY <1>1, <1>3 DEF Format!IsUtf8
  <2>2. q = [p EXCEPT !.layers = 1]
    BY <1>3, <2>1 DEF Format!Encode
  <2>3. q \in Q /\ q.layers = 1 /\ q.core = p.core
    BY <1>1, <2>2
  <2>4. r = [q EXCEPT !.layers = 0]
    BY <2>3 DEF Format!Decode
  <2>5. r = p
    BY <1>1, <2>1, <2>2, <2>4
  <2> QED
    BY <2>5
<1> QED
  BY <1>2, <1>3

\* A hop of a message that is the one received, but perhaps for a trace context.
LEMMA FormatHops ==
    ASSUME FormatInv, NEW s \in Format!Services, NEW m \in MessagesHere,
           m.payload = got.payload, m.uuid = got.uuid,
           got.keys \subseteq m.keys, m.keys \subseteq got.keys \cup {"trace"},
           Format!Hop(s, m)
    PROVE  FormatInv'
<1> DEFINE ToSet(q) == Format!ToSet(q)
           A == {"sqs", "sns"}
           AK == {"sqs", "sns", "kafka"}
           NU == {"absent", "renamed"}
           E == IF path # <<>> /\ sent.uuid = "renamed" /\ path[1] \in AK THEN {"alias"} ELSE {}
           EN == IF sent.uuid = "renamed" /\ path'[1] \in AK THEN {"alias"} ELSE {}
           F == IF m.uuid = "renamed" /\ s \in AK THEN {"alias"} ELSE {}
           R == "reserved" \in sent.keys /\ Format!Over(AK)
           RN == "reserved" \in sent.keys /\ (Format!Over(AK) \/ s \in AK)
<1>0. /\ sent \in MessagesHere /\ got \in MessagesHere
      /\ sent.uuid \in {"own"} \cup NU /\ value \in {"other", "text"}
      /\ path = <<>> => got = sent /\ ~broken
      /\ path \in Seq(Format!Services) /\ Len(path) <= MaxHops /\ broken \in BOOLEAN
      /\ got.uuid \in {"own", "other", "new", "None"} \cup NU
      /\ MaxHops \in Nat
  BY SizesAssumption DEF FormatInv, Format!TypeOK, Format!NoUuid, MessagesHere
<1>1. /\ got.uuid \in NU \cup {"None"} => sent.uuid \in NU
      /\ got.uuid \in NU => path = <<>> \/ broken
      /\ got.uuid = "None" => path # <<>> /\ path[1] = "redis"
  BY DEF FormatInv, FormatUuidInv
<1>2. /\ got.payload = sent.payload \/ (sent.payload.layers > 0 /\ Format!Over(A))
      /\ \A k \in sent.keys \ got.keys : (k = "fifo" /\ Format!Over(A)) \/ (k = "reserved" /\ R)
      /\ got.keys \subseteq sent.keys \cup {"trace"} \cup E
      /\ got.uuid = sent.uuid \/ R \/ sent.uuid \in NU
  <2>1. CASE path = <<>>
    BY <1>0, <2>1
  <2>2. CASE path # <<>>
    <3>1. Format!Aws = A /\ Format!Aws \cup {"kafka"} = AK
      BY DEF Format!Aws
    <3> QED
      BY <2>2, <3>1 DEF FormatInv, Format!ArrivesAsSent, Format!Renamed, Format!OneTable, Format!NoUuid
  <2> QED
    BY <2>1, <2>2
<1>3. /\ ~broken /\ Len(path) < MaxHops /\ (s = "memory" => m.uuid \notin NU)
      /\ path' = Append(path, s) /\ UNCHANGED <<sent, value>>
      /\ broken' = (s # "memory" /\ Format!Raises(s, m))
      /\ got' = IF broken' THEN got ELSE Format!Received(s, m)
  BY DEF Format!Hop, Format!NoUuid
<1>4. Len(path) \in Nat
  BY <1>0
<1>5. /\ path' \in Seq(Format!Services) /\ Len(path') = Len(path) + 1 /\ path' # <<>>
      /\ \A i \in 1..Len(path) : path'[i] = path[i]
      /\ path'[Len(path) + 1] = s
  BY <1>0, <1>3
<1>6. \A S : Format!Over(S)' <=> Format!Over(S) \/ s \in S
  <2>1. DOMAIN path' = 1..Len(path) + 1 /\ DOMAIN path = 1..Len(path)
    BY <1>0, <1>5
  <2>2. \A x : x \in Format!ToSet(path') <=> x \in Format!ToSet(path) \/ x = s
    <3>1. \A x : x \in Format!ToSet(path') <=> \E i \in 1..Len(path) + 1 : x = path'[i]
      BY <2>1 DEF Format!ToSet
    <3>2. \A x : x \in Format!ToSet(path) <=> \E i \in 1..Len(path) : x = path[i]
      BY <2>1 DEF Format!ToSet
    <3>3. \A i \in 1..Len(path) + 1 : i \in 1..Len(path) \/ i = Len(path) + 1
      BY <1>4
    <3>4. \A i \in 1..Len(path) : i \in 1..Len(path) + 1
      BY <1>4
    <3>5. Len(path) + 1 \in 1..Len(path) + 1
      BY <1>4
    <3> QED
      BY <1>5, <3>1, <3>2, <3>3, <3>4, <3>5
  <2>3. \A S : Format!Over(S) <=> Format!ToSet(path) \cap S # {}
    BY DEF Format!Over
  <2>4. \A S : Format!Over(S)' <=> Format!ToSet(path') \cap S # {}
    BY DEF Format!Over, Format!ToSet
  <2> QED
    BY <2>2, <2>3, <2>4
<1>7. m.keys \subseteq sent.keys \cup {"trace"} \cup E /\ m.keys \subseteq Format!Keys
  BY <1>2 DEF MessagesHere
<1>8. Format!OneTable(s) <=> s \in AK
  BY DEF Format!OneTable, Format!Aws
<1>9. /\ "reserved" \in m.keys => "reserved" \in sent.keys
      /\ Format!Overridden(s, m.keys) => RN
  BY <1>7, <1>8 DEF Format!Overridden
\* What is unreadable.
<1>10. broken' => (RN /\ value = "text")
                  \/ (sent.uuid \in NU /\ path'[1] = "redis" /\ Len(path') > 1)
  <2> SUFFICES ASSUME Format!Raises(s, m)
               PROVE  (RN /\ value = "text")
                      \/ (sent.uuid \in NU /\ path'[1] = "redis" /\ Len(path') > 1)
    BY <1>3
  <2>1. CASE Format!Overridden(s, m.keys) /\ value = "text"
    BY <2>1, <1>9
  <2>2. CASE ~(Format!Overridden(s, m.keys) /\ value = "text")
    <3>1. m.uuid = "None"
      BY <2>2, <1>0 DEF Format!Raises, Format!UuidString
    <3>2. sent.uuid \in NU /\ path # <<>> /\ path[1] = "redis"
      BY <3>1, <1>1
    <3>3. 1 \in 1..Len(path)
      BY <3>2, <1>0, <1>4, EmptySeq
    <3> QED
      BY <3>2, <3>3, <1>4, <1>5
  <2> QED
    BY <2>1, <2>2
\* What is received of what can be read.
<1>11. ASSUME ~broken'
       PROVE  /\ got' \in MessagesHere
              /\ got'.payload = m.payload \/ (m.payload.layers > 0 /\ s \in A)
              /\ got'.keys \subseteq m.keys \cup F
              /\ \A k \in m.keys \ got'.keys : (k = "fifo" /\ s \in A) \/ (k = "reserved" /\ RN)
              /\ \/ got'.uuid = m.uuid /\ m.uuid \notin NU
                 \/ got'.uuid = "other" /\ RN
                 \/ m.uuid \in NU /\ got'.uuid = IF s = "redis" THEN "None" ELSE "new"
  <2>1. CASE s = "memory"
    <3>1. got' = m /\ m.uuid \notin NU
      BY <2>1, <1>3, <1>11 DEF Format!Received
    <3> QED
      BY <3>1
  <2>2. CASE s # "memory"
    <3> DEFINE g == Format!Received(s, m)
               us == Format!UuidString(s, m)
    <3>1. got' = g /\ ~Format!Raises(s, m)
      BY <2>2, <1>3, <1>11
    <3>2. g = [payload |-> IF s \in A THEN Format!Decode(Format!Encode(m.payload)) ELSE m.payload,
               keys |-> Format!KeysFrom(s, m),
               uuid |-> Format!UuidFrom(s, us)]
      BY <2>2 DEF Format!Received, Format!Aws
    <3>3. /\ us \notin {"text", "None"}
          /\ us = IF Format!Overridden(s, m.keys) THEN value ELSE m.uuid
      BY <3>1 DEF Format!Raises, Format!UuidString
    <3> HIDE DEF g, us
    <3>4. /\ g.payload = IF s \in A THEN Format!Decode(Format!Encode(m.payload)) ELSE m.payload
          /\ g.keys = Format!KeysFrom(s, m)
          /\ g.uuid = IF us \notin NU THEN us ELSE IF s = "redis" THEN "None" ELSE "new"
      <4>1. Format!UuidFrom(s, us) = IF us \notin NU THEN us ELSE IF s = "redis" THEN "None" ELSE "new"
        BY DEF Format!UuidFrom, Format!NoUuid
      <4>2. /\ g.payload = IF s \in A THEN Format!Decode(Format!Encode(m.payload)) ELSE m.payload
            /\ g.keys = Format!KeysFrom(s, m) /\ g.uuid = Format!UuidFrom(s, us)
        BY <3>2
      <4> QED
        BY <4>1, <4>2
    <3>5. m.payload \in Format!Payloads
      BY DEF MessagesHere
    <3>6. g.payload \in Format!Payloads /\ (g.payload = m.payload \/ (m.payload.layers > 0 /\ s \in A))
      BY <3>4, <3>5, DecodedOfEncoded
    <3>7. /\ g.keys \subseteq m.keys \cup F
          /\ \A k \in m.keys \ g.keys : (k = "fifo" /\ s \in A) \/ (k = "reserved" /\ RN)
      BY <3>4, <1>8, <1>9 DEF Format!KeysFrom, Format!Aws
    <3>8. /\ g.uuid \in {"own", "other", "new", "None"} \cup NU
          /\ \/ g.uuid = m.uuid /\ m.uuid \notin NU
             \/ g.uuid = "other" /\ RN
             \/ m.uuid \in NU /\ g.uuid = IF s = "redis" THEN "None" ELSE "new"
      BY <3>3, <3>4, <1>0, <1>9 DEF MessagesHere
    <3>9. g.keys \subseteq Format!Keys
      BY <3>7, <1>7 DEF Format!Keys
    <3>10. g \in MessagesHere
      BY <3>2, <3>4, <3>6, <3>8, <3>9 DEF MessagesHere
    <3> QED
      BY <3>1, <3>6, <3>7, <3>8, <3>10
  <2> QED
    BY <2>1, <2>2
<1>12. got' \in MessagesHere
  BY <1>0, <1>3, <1>11
<1>13. /\ R => RN
       /\ Format!Over(A)' <=> Format!Over(A) \/ s \in A
       /\ Format!Over(AK)' <=> Format!Over(AK) \/ s \in AK
       /\ E \subseteq EN /\ F \subseteq EN
  <2>1. E \subseteq EN
    <3> SUFFICES ASSUME path # <<>> PROVE path'[1] = path[1]
      OBVIOUS
    <3>1. 1 \in 1..Len(path)
      BY <1>0, <1>4, EmptySeq
    <3> QED
      BY <3>1, <1>5
  <2>2. F \subseteq EN
    <3> SUFFICES ASSUME m.uuid = "renamed" PROVE path'[1] = s /\ sent.uuid = "renamed"
      OBVIOUS
    <3>1. path = <<>> /\ got = sent
      BY <1>0, <1>1, <1>3
    <3>2. Len(path) = 0
      BY <3>1
    <3>3. Len(path) + 1 = 1
      BY <3>2
    <3>4. path'[1] = s
      BY <3>3, <1>5
    <3>5. sent.uuid = "renamed"
      BY <3>1
    <3> QED
      BY <3>4, <3>5
  <2> QED
    BY <1>6, <2>1, <2>2
<1> DEFINE OA == Format!Over(A) \/ s \in A
<1>14. /\ got'.payload = sent.payload \/ (sent.payload.layers > 0 /\ OA)
       /\ \A k \in sent.keys \ got'.keys : (k = "fifo" /\ OA) \/ (k = "reserved" /\ RN)
       /\ got'.keys \subseteq sent.keys \cup {"trace"} \cup EN
       /\ got'.uuid = sent.uuid \/ RN \/ sent.uuid \in NU
  <2> HIDE DEF RN, R, A, AK, E, EN, F
  <2>1. CASE broken'
    <3>1. got' = got
      BY <2>1, <1>3
    <3>2. got'.keys \subseteq sent.keys \cup {"trace"} \cup EN
      BY <3>1, <1>2, <1>13
    <3>3. \A k \in sent.keys \ got'.keys : (k = "fifo" /\ OA) \/ (k = "reserved" /\ RN)
      BY <3>1, <1>2, <1>13
    <3>4. got'.payload = sent.payload \/ (sent.payload.layers > 0 /\ OA)
      BY <3>1, <1>2
    <3>5. got'.uuid = sent.uuid \/ RN \/ sent.uuid \in NU
      BY <3>1, <1>2, <1>13
    <3> QED
      BY <3>2, <3>3, <3>4, <3>5
  <2>2. CASE ~broken'
    <3>1. got'.payload = sent.payload \/ (sent.payload.layers > 0 /\ OA)
      BY <2>2, <1>2, <1>11
    <3>2. \A k \in sent.keys \ got'.keys : (k = "fifo" /\ OA) \/ (k = "reserved" /\ RN)
      <4> SUFFICES ASSUME NEW k \in sent.keys, k \notin got'.keys
                   PROVE  (k = "fifo" /\ OA) \/ (k = "reserved" /\ RN)
        OBVIOUS
      <4>1. CASE k \in m.keys
        BY <4>1, <2>2, <1>11
      <4>2. CASE k \notin m.keys
        BY <4>2, <1>2, <1>13
      <4> QED
        BY <4>1, <4>2
    <3>3. got'.keys \subseteq sent.keys \cup {"trace"} \cup EN
      BY <2>2, <1>7, <1>11, <1>13
    <3>4. got'.uuid = sent.uuid \/ RN \/ sent.uuid \in NU
      BY <2>2, <1>1, <1>2, <1>11, <1>13
    <3> QED
      BY <3>1, <3>2, <3>3, <3>4
  <2> QED
    BY <2>1, <2>2
<1>15. FormatUuidInv'
  <2>1. CASE broken'
    <3>1. got' = got /\ sent' = sent
      BY <2>1, <1>3
    <3>2. got.uuid = "None" => path'[1] = "redis"
      <4> SUFFICES ASSUME got.uuid = "None" PROVE path'[1] = "redis"
        OBVIOUS
      <4>1. path # <<>> /\ path[1] = "redis"
        BY <1>1
      <4>2. 1 \in 1..Len(path)
        BY <4>1, <1>0, <1>4, EmptySeq
      <4> QED
        BY <4>1, <4>2, <1>5
    <3> QED
      BY <2>1, <3>1, <3>2, <1>1, <1>5 DEF FormatUuidInv
  <2>2. CASE ~broken'
    <3>1. /\ got'.uuid \notin NU
          /\ got'.uuid = "None" => m.uuid \in NU \cup {"None"} /\ sent.uuid \in NU
      BY <2>2, <1>1, <1>11
    <3>2. got'.uuid = "None" => path'[1] = "redis"
      <4> SUFFICES ASSUME got'.uuid = "None" PROVE path'[1] = "redis"
        OBVIOUS
      <4>1. CASE m.uuid = "None"
        <5>1. path # <<>> /\ path[1] = "redis"
          BY <4>1, <1>1
        <5>2. 1 \in 1..Len(path)
          BY <5>1, <1>0, <1>4, EmptySeq
        <5> QED
          BY <5>1, <5>2, <1>5
      <4>2. CASE m.uuid # "None"
        <5>1. m.uuid \in NU /\ s = "redis"
          BY <4>2, <2>2, <1>11
        <5>2. path = <<>>
          BY <5>1, <1>1, <1>3
        <5>3. Len(path) = 0
          BY <5>2
        <5> QED
          BY <5>1, <5>3, <1>5
      <4> QED
        BY <4>1, <4>2
    <3> QED
      BY <3>1, <3>2, <1>3, <1>5 DEF FormatUuidInv
  <2> QED
    BY <2>1, <2>2
<1>16. Format!ArrivesAsSent'
  <2>1. Format!Aws = A /\ Format!Aws \cup {"kafka"} = AK
    BY DEF Format!Aws
  <2>2. RN <=> "reserved" \in sent.keys /\ Format!Over(AK)'
    BY <1>13
  <2>3. OA <=> Format!Over(A)'
    BY <1>13
  <2>4. /\ EN = IF Format!Renamed' THEN {"alias"} ELSE {}
        /\ NU = Format!NoUuid
    BY <1>3, <2>1 DEF Format!Renamed, Format!OneTable, Format!NoUuid
  <2> HIDE DEF RN, OA, A, AK, EN, NU
  <2> QED
    BY <1>3, <1>10, <1>14, <2>1, <2>2, <2>3, <2>4 DEF Format!ArrivesAsSent
<1>17. Format!TypeOK'
  <2>1. broken' \in BOOLEAN
    BY <1>3
  <2>2. /\ got'.payload \in Format!Payloads /\ got'.keys \subseteq Format!Keys
        /\ got'.uuid \in {"own", "other", "new", "None"} \cup NU
        /\ sent.payload \in Format!Payloads /\ sent.keys \subseteq Format!Keys
    BY <1>0, <1>12 DEF MessagesHere
  <2>3. Len(path') <= MaxHops
    BY <1>0, <1>3, <1>4, <1>5
  <2> QED
    BY <1>3, <1>5, <2>1, <2>2, <2>3 DEF Format!TypeOK, Format!NoUuid
<1> QED
  BY <1>0, <1>3, <1>5, <1>12, <1>15, <1>16, <1>17 DEF FormatInv

\* Every hop preserves the invariant.
LEMMA FormatStep == FormatInv /\ Format!Next => FormatInv'
<1> SUFFICES ASSUME FormatInv, NEW s \in Format!Services,
                    Format!Hop(s, got) \/ Format!Hop(s, Format!Injected(got))
             PROVE  FormatInv'
  BY DEF Format!Next
<1>1. got \in MessagesHere
  BY DEF FormatInv
<1>2. CASE Format!Hop(s, got)
  BY <1>1, <1>2, FormatHops
<1>3. CASE Format!Hop(s, Format!Injected(got))
  <2> DEFINE m == Format!Injected(got)
  <2>1. m = [got EXCEPT !.keys = got.keys \cup {"trace"}]
    BY DEF Format!Injected
  <2>2. got.keys \cup {"trace"} \subseteq Format!Keys
    BY <1>1 DEF MessagesHere, Format!Keys
  <2> HIDE DEF m
  <2>3. /\ m \in MessagesHere /\ m.payload = got.payload /\ m.uuid = got.uuid
        /\ m.keys = got.keys \cup {"trace"}
    BY <1>1, <2>1, <2>2 DEF MessagesHere
  <2>4. Format!Hop(s, m)
    BY <1>3 DEF m
  <2> QED
    BY <2>3, <2>4, FormatHops
<1> QED
  BY <1>2, <1>3

-----------------------------------------------------------------------------
(* The parts                                                               *)

\* The part that Init picked stays, and only it moves.
LEMMA ServicePartMoves ==
    ASSUME [Next]_vars
    PROVE  /\ part' = part
           /\ part = "shutdown" => Shutdown!Next \/ UNCHANGED shutdownVars
           /\ part = "chain" => Chain!Next \/ UNCHANGED chainVars
           /\ part = "call" => Call!Next \/ UNCHANGED callVars
           /\ part = "register" => Register!Next \/ UNCHANGED registerVars
           /\ part = "format" => Format!Next \/ UNCHANGED formatVars
BY DEF Next, Of, vars

\* GracefulShutdown starts with nothing closed.
LEMMA ShutdownStarts == Init /\ part = "shutdown" => ShutdownInv
<1> SUFFICES ASSUME Init, part = "shutdown"
             PROVE  ShutdownInv
  OBVIOUS
<1>1. Shutdown!Init
  BY DEF Init
<1>2. /\ running \subseteq Shutdown!Args /\ installed = TRUE /\ event = FALSE /\ watcher = 0
      /\ run = [k \in Shutdown!Args |-> IF k \in running THEN "runs" ELSE "none"]
      /\ close = [k \in Shutdown!Args |-> "uncalled"]
      /\ scope = "active" /\ alone = {} /\ Closeables \in Nat
  BY <1>1, SizesAssumption DEF Shutdown!Init
<1>3. \A k \in Shutdown!Args : k > 0
  BY <1>2 DEF Shutdown!Args
<1>4. Shutdown!TypeOK
  <2>1. /\ run \in [Shutdown!Args -> {"none", "runs", "ended", "failed", "cut"}]
        /\ close \in [Shutdown!Args -> {"uncalled", "called", "returned", "failed", "cut"}]
    BY <1>2
  <2>2. watcher \in 0..(Closeables + 1)
    BY <1>2
  <2> QED
    BY <1>2, <2>1, <2>2 DEF Shutdown!TypeOK
<1>5. NoneIsNotRunning /\ EndedWasClosed /\ CalmEndsAtLast
  BY <1>2 DEF NoneIsNotRunning, EndedWasClosed, CalmEndsAtLast
<1>6. ClosedInTurn
  BY <1>2, <1>3 DEF ClosedInTurn, Shutdown!Args
<1> QED
  BY <1>4, <1>5, <1>6 DEF ShutdownInv

\* Middleware starts in the function, with all observers' spans open.
LEMMA ChainStarts == Init /\ part = "chain" => ChainInv
<1> SUFFICES ASSUME Init, part = "chain"
             PROVE  ChainInv
  OBVIOUS
<1> DEFINE D == Chain!Depth
<1>1. Chain!Init
  BY DEF Init
<1>2. /\ chain \in Chain!Chains
      /\ at = D + 1 /\ doing = "run" /\ result = "none"
      /\ tries = [k \in 1..MaxDepth |-> 0]
      /\ span = [j \in 1..MaxDepth |-> IF j > 0 /\ j \in Chain!Observers THEN "open" ELSE "none"]
      /\ counted = [k \in 1..MaxDepth |-> 0]
      /\ handled = FALSE /\ diverted = 0 /\ permanent = FALSE /\ recalled = FALSE
  <2>1. \A j \in 1..MaxDepth : [k \in 1..MaxDepth |-> "none"][j] = "none"
    OBVIOUS
  <2> QED
    BY <1>1, <2>1 DEF Chain!Init, Chain!Opened
<1>3. D \in 0..MaxDepth /\ MaxDepth \in Nat /\ MaxRetries \in Nat
  BY <1>2, ChainDepth, SizesAssumption DEF Chain!Depth
<1> HIDE DEF D
<1>4. \A k \in Chain!Observers : k \in 1..MaxDepth /\ k < D + 1
  BY <1>3 DEF Chain!Observers, D
<1>5. Chain!TypeOK
  <2>1. tries \in [1..MaxDepth -> 0..MaxRetries] /\ counted \in [1..MaxDepth -> Nat]
    BY <1>2, <1>3
  <2>2. span \in [1..MaxDepth -> {"none", "open", "ok", "error", "unset"}]
    BY <1>2
  <2>3. at \in 0..(D + 1)
    BY <1>2, <1>3
  <2>4. /\ chain \in Chain!Chains /\ doing \in {"run", "up", "sleep", "publish", "done"}
        /\ result \in {"none", "ok", "error", "permanent"}
        /\ diverted \in 0..2
    BY <1>2
  <2>5. handled \in BOOLEAN /\ permanent \in BOOLEAN /\ recalled \in BOOLEAN
    BY <1>2, Zenon
  <2> QED
    BY <2>1, <2>2, <2>3, <2>4, <2>5, Zenon DEF Chain!TypeOK, D
<1>6. DoingInv /\ OkIsFinal
  BY <1>2 DEF DoingInv, OkIsFinal, D
<1>7. DivertedInside /\ PermanentInside /\ Chain!PermanentErrorIsNotRetried /\ OutermostInv
  BY <1>2 DEF DivertedInside, PermanentInside, Chain!PermanentErrorIsNotRetried, OutermostInv
<1>8. \A k \in Chain!Observers : span[k] = "open" /\ counted[k] = 0
  BY <1>2, <1>3, <1>4
<1>9. Chain!ObserversTellTheOutcome
  BY <1>2, <1>4, <1>8 DEF Chain!ObserversTellTheOutcome
<1> QED
  BY <1>5, <1>6, <1>7, <1>9 DEF ChainInv

\* Dependencies start with every call in the handler.
LEMMA CallStarts == Init /\ part = "call" => CallInv
<1> SUFFICES ASSUME Init, part = "call"
             PROVE  CallInv
  OBVIOUS
<1> DEFINE F == [func |-> "h", resolved |-> 0]
<1>1. Call!Init
  BY DEF Init
<1>2. /\ inThread \subseteq DOMAIN Needed
      /\ stack = [c \in Senders |-> <<F>>]
      /\ phase = [c \in Senders |-> "resolving"] /\ cancelled = {}
  BY <1>1 DEF Call!Init, Call!Frame, Needed
<1>3. "h" \in DOMAIN Needed /\ Len(Needed["h"]) \in Nat
  BY NeededAreFunctions
<1>4. F \in Frames /\ F.func = "h" /\ F.resolved = 0
  BY <1>3 DEF Frames
<1> HIDE DEF F
<1>5. <<F>> \in Seq(Frames) /\ Len(<<F>>) = 1 /\ <<F>>[1] = F
  BY <1>4
<1>6. GoodStack(<<F>>)
  BY <1>3, <1>4, <1>5 DEF GoodStack
<1>7. \A c \in Senders : stack[c] = <<F>> /\ phase[c] = "resolving"
  BY <1>2
<1>8. Call!InUse = {}
  BY <1>7 DEF Call!InUse
<1>9. Call!Cardinality(Call!InUse) <= Threads
  BY <1>8, FS_EmptySet, CallCountsSo, SizesAssumption
<1>10. \A c \in Senders : \A i \in DOMAIN stack[c] :
          /\ stack[c][i].func \in DOMAIN Needed
          /\ stack[c][i].resolved \in 0..Len(Needed[stack[c][i].func])
  <2>1. \A i \in DOMAIN <<F>> : <<F>>[i] = F
    BY <1>5
  <2> QED
    BY <2>1, <1>3, <1>4, <1>7
<1>11. Call!TypeOK
  BY <1>2, <1>9, <1>10 DEF Call!TypeOK, Needed
<1> QED
  BY <1>2, <1>6, <1>7, <1>11 DEF CallInv

\* Registration starts with nothing.
LEMMA RegisterStarts == Init /\ part = "register" => RegisterInv
<1> SUFFICES ASSUME Init, part = "register"
             PROVE  RegisterInv
  OBVIOUS
<1>1. Register!Init
  BY DEF Init
<1>2. /\ kind \in {"command", "event"}
      /\ handlers = [t \in TypesHere |-> <<>>] /\ routed = handlers
      /\ prefixes = [t \in TypesHere |-> <<>>]
      /\ order = <<>> /\ loops = {} /\ calls = 0 /\ MaxCalls \in Nat
  BY <1>1, SizesAssumption DEF Register!Init, TypesHere
<1>3. /\ \A t \in TypesHere : handlers[t] = <<>> /\ routed[t] = <<>> /\ prefixes[t] = <<>>
      /\ DOMAIN order = {}
  BY <1>2
<1>4. Register!ToSet(order) = {t \in TypesHere : routed[t] # <<>>} /\ Register!IsInjective(order)
  BY <1>3 DEF Register!ToSet, Register!IsInjective
<1>5. Register!TypeOK
  <2>1. handlers \in [TypesHere -> Seq(FuncsHere)] /\ prefixes \in [TypesHere -> ExtrasHere]
    <3>1. <<>> \in Seq(FuncsHere) /\ <<>> \in ExtrasHere
      BY DEF ExtrasHere
    <3> QED
      BY <3>1, <1>2
  <2>2. \A t \in TypesHere : Len(handlers[t]) = 0 /\ Len(routed[t]) = 0
    BY <1>3
  <2> QED
    BY <1>2, <1>3, <1>4, <2>1, <2>2 DEF Register!TypeOK, TypesHere, FuncsHere, ExtrasHere
<1>6. FuncsMatch
  BY <1>2, <1>3 DEF FuncsMatch
<1>7. LoopsListen
  BY <1>2 DEF LoopsListen
<1> QED
  BY <1>5, <1>6, <1>7 DEF RegisterInv

\* MessageFormats starts with the message as its sender made it.
LEMMA FormatStarts == Init /\ part = "format" => FormatInv
<1> SUFFICES ASSUME Init, part = "format"
             PROVE  FormatInv
  OBVIOUS
<1>1. Format!Init
  BY DEF Init
<1>2. /\ sent \in [payload : Format!Payloads, keys : SUBSET (Format!Keys \ {"trace", "alias"}),
                   uuid : {"own", "absent", "renamed"}]
      /\ value \in {"other", "text"}
      /\ got = sent /\ path = <<>> /\ broken = FALSE /\ MaxHops \in Nat
  BY <1>1, SizesAssumption DEF Format!Init, Format!NoUuid
<1>3. sent \in MessagesHere /\ sent.uuid \in {"own", "absent", "renamed"}
  BY <1>2 DEF MessagesHere
<1>4. Format!TypeOK
  <2>1. path \in Seq(Format!Services) /\ Len(path) <= MaxHops
    BY <1>2
  <2> QED
    BY <1>2, <1>3, <2>1 DEF Format!TypeOK, Format!NoUuid, MessagesHere
<1>5. Format!ArrivesAsSent
  BY <1>2 DEF Format!ArrivesAsSent
<1>6. FormatUuidInv
  BY <1>2, <1>3 DEF FormatUuidInv
<1> QED
  BY <1>2, <1>3, <1>4, <1>5, <1>6 DEF FormatInv

\* A step of the part keeps its invariant, and so does a stutter.
LEMMA ServiceStep ==
    ASSUME [Next]_vars
    PROVE  /\ (part = "shutdown" => ShutdownInv) => (part = "shutdown" => ShutdownInv)'
           /\ (part = "chain" => ChainInv) => (part = "chain" => ChainInv)'
           /\ (part = "call" => CallInv) => (part = "call" => CallInv)'
           /\ (part = "register" => RegisterInv) => (part = "register" => RegisterInv)'
           /\ (part = "format" => FormatInv) => (part = "format" => FormatInv)'
<1>1. ASSUME part = "shutdown", ShutdownInv PROVE ShutdownInv'
  <2>1. CASE UNCHANGED shutdownVars
    BY <1>1, <2>1 DEF shutdownVars, ShutdownInv, Shutdown!TypeOK, NoneIsNotRunning, ClosedInTurn,
       EndedWasClosed, CalmEndsAtLast, Shutdown!Calm
  <2> QED
    BY <1>1, <2>1, ServicePartMoves, ShutdownStep
<1>2. ASSUME part = "chain", ChainInv PROVE ChainInv'
  <2>1. CASE UNCHANGED chainVars
    <3>1. UNCHANGED <<chain, at, doing, result, tries, span, counted, handled, diverted, permanent, recalled>>
      BY <2>1 DEF chainVars
    <3>2. /\ Chain!Depth' = Chain!Depth /\ Chain!Observers' = Chain!Observers
          /\ AgainDiverts' = AgainDiverts /\ AgainCalls' = AgainCalls
          /\ Chain!PermanentErrorIsNotRetried' = Chain!PermanentErrorIsNotRetried
      BY <3>1, ChainStays DEF AgainCalls, Chain!PermanentErrorIsNotRetried
    <3>3. Chain!TypeOK' /\ DoingInv' /\ OkIsFinal'
      BY <1>2, <3>1, <3>2 DEF ChainInv, Chain!TypeOK, DoingInv, OkIsFinal
    <3>4. DivertedInside' /\ PermanentInside' /\ Chain!PermanentErrorIsNotRetried'
      BY <1>2, <3>1, <3>2 DEF ChainInv, DivertedInside, PermanentInside
    <3>5. Chain!ObserversTellTheOutcome' /\ OutermostInv'
      BY <1>2, <3>1, <3>2 DEF ChainInv, Chain!ObserversTellTheOutcome, OutermostInv
    <3> QED
      BY <3>3, <3>4, <3>5 DEF ChainInv
  <2> QED
    BY <1>2, <2>1, ServicePartMoves, ChainStep
<1>3. ASSUME part = "call", CallInv PROVE CallInv'
  <2>1. CASE UNCHANGED callVars
    BY <1>3, <2>1 DEF callVars, CallInv, Call!TypeOK, Call!InUse, Call!Ended, Call!Inner
  <2> QED
    BY <1>3, <2>1, ServicePartMoves, CallStep
<1>4. ASSUME part = "register", RegisterInv PROVE RegisterInv'
  <2>1. CASE UNCHANGED registerVars
    BY <1>4, <2>1 DEF registerVars, RegisterInv, Register!TypeOK, FuncsMatch, LoopsListen
  <2> QED
    BY <1>4, <2>1, ServicePartMoves, RegisterStep
<1>5. ASSUME part = "format", FormatInv PROVE FormatInv'
  <2>1. CASE UNCHANGED formatVars
    BY <1>5, <2>1 DEF formatVars, FormatInv, Format!TypeOK, FormatUuidInv, Format!ArrivesAsSent,
       Format!Over, Format!Renamed
  <2> QED
    BY <1>5, <2>1, ServicePartMoves, FormatStep
<1> QED
  BY <1>1, <1>2, <1>3, <1>4, <1>5, ServicePartMoves

\* The inductive invariants are invariants.
THEOREM ServiceInvariants ==
    Spec => /\ [](part = "shutdown" => ShutdownInv)
            /\ [](part = "chain" => ChainInv)
            /\ [](part = "call" => CallInv)
            /\ [](part = "register" => RegisterInv)
            /\ [](part = "format" => FormatInv)
<1>1. Init => /\ part = "shutdown" => ShutdownInv
              /\ part = "chain" => ChainInv
              /\ part = "call" => CallInv
              /\ part = "register" => RegisterInv
              /\ part = "format" => FormatInv
  BY ShutdownStarts, ChainStarts, CallStarts, RegisterStarts, FormatStarts
<1>2. [Next]_vars /\ (part = "shutdown" => ShutdownInv) => (part = "shutdown" => ShutdownInv)'
  BY ServiceStep
<1>3. [Next]_vars /\ (part = "chain" => ChainInv) => (part = "chain" => ChainInv)'
  BY ServiceStep
<1>4. [Next]_vars /\ (part = "call" => CallInv) => (part = "call" => CallInv)'
  BY ServiceStep
<1>5. [Next]_vars /\ (part = "register" => RegisterInv) => (part = "register" => RegisterInv)'
  BY ServiceStep
<1>6. [Next]_vars /\ (part = "format" => FormatInv) => (part = "format" => FormatInv)'
  BY ServiceStep
<1> QED
  BY <1>1, <1>2, <1>3, <1>4, <1>5, <1>6, PTL DEF Spec

\* GracefulShutdown: a shutdown in which nothing fails cancels no service, and has closed every
\* closeable before the last service, for any number of them and any of them services.
THEOREM CalmShutdownCutsNothing == Spec => []CalmShutdownIsOrderly
<1>1. (part = "shutdown" => ShutdownInv) => CalmShutdownIsOrderly
  BY ShutdownOrderly DEF CalmShutdownIsOrderly
<1> QED
  BY <1>1, ServiceInvariants, PTL

\* Middleware: an acked message was handled or diverted, and both, or diverted twice, only with a
\* retry() or another diverting middleware around the one that diverts, in chains of any length.
THEOREM AckedIsHandledOrDiverted == Spec => []HandledOrDivertedOnce
<1>1. (part = "chain" => ChainInv) => HandledOrDivertedOnce
  BY ChainKeeps DEF HandledOrDivertedOnce
<1> QED
  BY <1>1, ServiceInvariants, PTL

\* Middleware: a function that raised PermanentError is called again only by a retry() around
\* another one, or around a diverting middleware.
THEOREM PermanentErrorEndsRetries == Spec => []PermanentErrorIsNotRetried
<1>1. (part = "chain" => ChainInv) => PermanentErrorIsNotRetried
  BY ChainKeeps DEF PermanentErrorIsNotRetried
<1> QED
  BY <1>1, ServiceInvariants, PTL

\* Middleware: spans are open exactly while their calls are, and a message counts as consumed
\* once at most and only if it is acked, whatever is retried, diverted or timed out.
THEOREM SpansAndCountersAreRight == Spec => []ObserversTellTheOutcome
<1>1. (part = "chain" => ChainInv) => ObserversTellTheOutcome
  BY ChainKeeps DEF ObserversTellTheOutcome
<1> QED
  BY <1>1, ServiceInvariants, PTL

\* Registration: what a handler of a running bus misses went to a competitor with its
\* subscriber, or to a topic that an event router moved since run().
THEOREM HandlersAreReached == Spec => []RunningHandlersAreReached
<1>1. (part = "register" => RegisterInv) => RunningHandlersAreReached
  BY LoopsAreReached DEF RunningHandlersAreReached
<1> QED
  BY <1>1, ServiceInvariants, PTL

\* Registration: no call takes a handler away but handler() of a command bus, or moves a topic
\* but to the first prefix of its type, however many calls there are.
THEOREM RegisteringOnlyAdds == Spec => RegistrationOnlyAdds
<1>1. (part = "register" => RegisterInv) /\ [Next]_vars => [part = "register" => Register!OnlyAdds]_vars
  <2> SUFFICES ASSUME part = "register" => RegisterInv, [Next]_vars, vars' # vars, part = "register"
               PROVE  Register!OnlyAdds
    BY DEF vars
  <2>1. CASE Register!Next
    BY <2>1, RegisterStep
  <2>2. CASE ~Register!Next
    BY <2>2 DEF Next, Of
  <2> QED
    BY <2>1, <2>2
<1> QED
  BY <1>1, ServiceInvariants, PTL DEF Spec, RegistrationOnlyAdds

\* MessageFormats: what a message loses, gains or has replaced on which way over any number of
\* services, a UUID that comes under another name included, and when it cannot be read.
THEOREM MessagesArriveAsSent == Spec => []ArrivesAsSent
<1>1. (part = "format" => FormatInv) => ArrivesAsSent
  BY DEF ArrivesAsSent, FormatInv
<1> QED
  BY <1>1, ServiceInvariants, PTL

\* The states of all ten parts have their types: no batch or hold outgrows its bound, no retry()
\* calls on after max_retries, no more threads run than there are, no handler of a command is
\* joined by another.
THEOREM TypesOfParts == Spec => []TypeOK
<1>1. Init => part \in {"redis", "kafka", "aws", "http", "chain", "shutdown",
                        "register", "call", "format", "publish"}
  BY DEF Init
<1>2. [Next]_vars => part' = part
  BY ServicePartMoves
<1> DEFINE P == part \in {"redis", "kafka", "aws", "http", "chain", "shutdown",
                          "register", "call", "format", "publish"}
<1>3. Spec => []P
  <2>1. Init => P
    BY <1>1
  <2>2. P /\ [Next]_vars => P'
    BY <1>2
  <2> QED
    BY <2>1, <2>2, PTL DEF Spec
<1>4. /\ P
      /\ part = "redis" => RedisInv
      /\ part = "kafka" => KafkaInv
      /\ part = "aws" => AwsInv
      /\ part = "http" => HttpInv
      /\ part = "publish" => LazyInv
      /\ part = "shutdown" => ShutdownInv
      /\ part = "chain" => ChainInv
      /\ part = "call" => CallInv
      /\ part = "register" => RegisterInv
      /\ part = "format" => FormatInv
      => TypeOK
  BY DEF TypeOK, RedisInv, KafkaInv, AwsInv, HttpInv, LazyInv, ShutdownInv, ChainInv, CallInv,
         RegisterInv, FormatInv
<1> QED
  BY <1>3, <1>4, LogInvariants, BackendInvariants, ServiceInvariants, PTL
=============================================================================
