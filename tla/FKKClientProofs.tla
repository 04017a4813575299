-------------------------- MODULE FKKClientProofs ---------------------------
(***************************************************************************)
(* What holds of the cached token and of the envelopes for any callers,    *)
(* any lifetime, timeouts and number of waits as FKKClientAssumption has   *)
(* them, and any number of failures and stray answers.                     *)
(***************************************************************************)
EXTENDS FKKClient, TLAPS

\* No wait has outlasted its timeout.
Timing ==
    \A c \in Callers :
       /\ pc[c] = "fetch" => waited[c] <= FetchTimeout
       /\ pc[c] \in {"sent", "accepted"} => waited[c] <= RequestTimeout
       /\ pc[c] = "idle" => waits[c] = 0 /\ waited[c] = 0

\* A token loses no more than the time its caller waits.
Lasting ==
    \A c \in Callers :
       pc[c] = "fetch" /\ held[c] \in Tokens =>
          held[c].left + waits[c] * FetchTimeout + waited[c] >= Lifetime

ClientInv == TypeOK /\ Timing /\ Lasting

LEMMA ConstantsAreNat ==
    /\ Lifetime \in Nat /\ FetchTimeout \in Nat /\ RequestTimeout \in Nat
    /\ Window \in Nat /\ Ahead \in Nat /\ MaxFaults \in Nat /\ MaxStrays \in Nat
    /\ MaxWaits \in Nat \ {0}
    /\ Retrying \subseteq Callers
    /\ NoToken \notin Tokens /\ NotAToken \notin Tokens /\ NoToken # NotAToken
BY FKKClientAssumption, TokenAssumption

\* What all the waits of a request come to.
LEMMA WaitsAddUp ==
    ASSUME NEW t \in Nat, NEW w \in 0..(MaxWaits - 1), NEW d \in Nat, d <= t
    PROVE  w * t + d <= MaxWaits * t
<1>1. PICK k \in Nat : MaxWaits = w + 1 + k
    BY ConstantsAreNat
<1>2. MaxWaits * t = w * t + t + k * t
    BY <1>1
<1>3. w * t \in Nat /\ k * t \in Nat
    OBVIOUS
<1> QED BY <1>2, <1>3

\* A token that has just been fetched lasts for a request, by the assumption.
LEMMA LeftEnough ==
    ASSUME ClientInv, NEW c \in Callers, pc[c] = "fetch", held[c] \in Tokens
    PROVE  held[c].left > MaxWaits * RequestTimeout + Ahead
<1>1. waits[c] * FetchTimeout + waited[c] <= MaxWaits * FetchTimeout
    BY WaitsAddUp, ConstantsAreNat DEF ClientInv, TypeOK, Timing
<1>2. held[c].left + waits[c] * FetchTimeout + waited[c] >= Lifetime
    BY DEF ClientInv, Lasting
<1>3. MaxWaits * (FetchTimeout + RequestTimeout)
        = MaxWaits * FetchTimeout + MaxWaits * RequestTimeout
    BY ConstantsAreNat
<1>4. /\ MaxWaits * FetchTimeout \in Nat /\ MaxWaits * RequestTimeout \in Nat
      /\ waits[c] * FetchTimeout \in Nat /\ waited[c] \in Nat /\ held[c].left \in Nat
    BY ConstantsAreNat DEF ClientInv, TypeOK, Tokens
<1>5. MaxWaits * (FetchTimeout + RequestTimeout) + Ahead < Lifetime
    BY FKKClientAssumption
<1> HIDE DEF ClientInv
<1> DEFINE f == MaxWaits * FetchTimeout
           q == MaxWaits * RequestTimeout
           w == waits[c] * FetchTimeout
<1>6. /\ f \in Nat /\ q \in Nat /\ w \in Nat /\ w + waited[c] <= f
      /\ held[c].left + w + waited[c] >= Lifetime /\ f + q + Ahead < Lifetime
    BY <1>1, <1>2, <1>3, <1>4, <1>5
<1> HIDE DEF f, q, w
<1>7. held[c].left > q + Ahead
    BY <1>4, <1>6, ConstantsAreNat
<1> QED BY <1>7 DEF q

LEMMA FreshIsToken == Fresh \in Tokens /\ Fresh.left = Lifetime /\ Fresh.whole
BY ConstantsAreNat DEF Fresh, Tokens

LEMMA StrayIsKnown ==
    ASSUME NEW t \in Strays
    PROVE  /\ t \in Tokens \union {NotAToken}
           /\ t \in Tokens => t.left = Lifetime
BY ConstantsAreNat, FreshIsToken DEF Strays, Fresh, Tokens

\* A token that was issued just now has its lifetime, whatever was waited for.
LEMMA IssuedLasts ==
    ASSUME TypeOK, NEW c \in Callers, NEW n \in Nat, n = Lifetime
    PROVE  n + waits[c] * FetchTimeout + waited[c] >= Lifetime
<1>1. waits[c] * FetchTimeout \in Nat /\ waited[c] \in Nat
    BY ConstantsAreNat DEF TypeOK
<1> DEFINE w == waits[c] * FetchTimeout
<1>2. w \in Nat /\ waited[c] \in Nat
    BY <1>1
<1> HIDE DEF w
<1>3. n + w + waited[c] >= Lifetime
    BY <1>2
<1> QED BY <1>3 DEF w

\* One tick takes at most one from what is left, and nothing else.
LEMMA OlderIsToken ==
    ASSUME NEW t \in Tokens \union {NoToken, NotAToken}
    PROVE  /\ Older(t) \in Tokens \union {NoToken, NotAToken}
           /\ t \in Tokens <=> Older(t) \in Tokens
           /\ t \notin Tokens => Older(t) = t
           /\ t \in Tokens => Older(t).left >= t.left - 1
BY ConstantsAreNat DEF Older, Tokens

\* Calls that return leave the others as they are.
LEMMA ReturnKeeps ==
    ASSUME ClientInv, NEW C \in SUBSET Callers, Return(C),
           work' \subseteq Callers, \A c \in Callers \ C : c \in work <=> c \in work',
           token' \in Tokens \union {NoToken, NotAToken},
           faults' \in Nat, strays' \in Nat
    PROVE  ClientInv'
<1>1. TypeOK'
    BY ConstantsAreNat DEF ClientInv, TypeOK, Return
<1>2. Timing'
    BY DEF ClientInv, Timing, TypeOK, Return
<1>3. Lasting'
  <2> SUFFICES ASSUME NEW c \in Callers, pc'[c] = "fetch", held'[c] \in Tokens
               PROVE  held'[c].left + waits'[c] * FetchTimeout + waited'[c] >= Lifetime
      BY DEF Lasting
  <2>1. /\ pc[c] = "fetch" /\ held'[c] = held[c]
        /\ waits'[c] = waits[c] /\ waited'[c] = waited[c]
      BY DEF ClientInv, TypeOK, Return
  <2> QED BY <2>1 DEF ClientInv, Lasting
<1> QED BY <1>1, <1>2, <1>3 DEF ClientInv

\* An envelope is posted with any token.
LEMMA PostKeeps ==
    ASSUME ClientInv, NEW c \in Callers, NEW t \in Tokens, Post(c, t), c \in work,
           token' = t, UNCHANGED <<age, faults, strays>>
    PROVE  ClientInv'
<1>1. TypeOK'
    BY ConstantsAreNat DEF ClientInv, TypeOK, Post
<1>2. Timing'
    BY ConstantsAreNat DEF ClientInv, Timing, TypeOK, Post
<1>3. Lasting'
    BY DEF ClientInv, Lasting, TypeOK, Post
<1> QED BY <1>1, <1>2, <1>3 DEF ClientInv

\* An answer of the token service is on its way, a token or something else.
LEMMA IssuedKeeps ==
    ASSUME ClientInv, NEW c \in Callers, NEW t \in Tokens \union {NotAToken},
           t \in Tokens => t.left = Lifetime,
           pc[c] = "fetch", held' = [held EXCEPT ![c] = t],
           UNCHANGED <<pc, waits, waited>>
    PROVE  Lasting'
<1> SUFFICES ASSUME NEW d \in Callers, pc[d] = "fetch", held'[d] \in Tokens
             PROVE  held'[d].left + waits[d] * FetchTimeout + waited[d] >= Lifetime
    BY DEF Lasting
<1>1. CASE d = c
  <2>1. held'[d] = t
      BY <1>1 DEF ClientInv, TypeOK
  <2> QED BY <1>1, <2>1, IssuedLasts, ConstantsAreNat DEF ClientInv
<1>2. CASE d # c
  <2>1. held'[d] = held[d]
      BY <1>2 DEF ClientInv, TypeOK
  <2> QED BY <2>1 DEF ClientInv, Lasting
<1> QED BY <1>1, <1>2

LEMMA TickKeeps == ClientInv /\ Tick => ClientInv'
<1> SUFFICES ASSUME ClientInv, Tick PROVE ClientInv'
    OBVIOUS
<1>1. ASSUME NEW c \in Callers
      PROVE  /\ held'[c] = Older(held[c])
             /\ held[c] \in Tokens \union {NoToken, NotAToken}
             /\ age'[c] \in 0..Window
             /\ pc[c] = "idle" => waited'[c] = 0
             /\ pc[c] # "idle" => waited'[c] = waited[c] + 1
             /\ pc[c] = "fetch" => waited[c] < FetchTimeout
             /\ pc[c] \in {"sent", "accepted"} => waited[c] < RequestTimeout
             /\ waits[c] \in Nat /\ waited[c] \in Nat
    BY <1>1, ConstantsAreNat DEF ClientInv, TypeOK, Tick, Timeout, Later
<1>2. TypeOK'
    BY <1>1, OlderIsToken, ConstantsAreNat DEF ClientInv, TypeOK, Tick
<1>3. Timing'
    BY <1>1, ConstantsAreNat DEF ClientInv, Timing, TypeOK, Tick
<1>4. Lasting'
  <2> SUFFICES ASSUME NEW c \in Callers, pc[c] = "fetch", held'[c] \in Tokens
               PROVE  held'[c].left + waits[c] * FetchTimeout + waited'[c] >= Lifetime
      BY DEF Lasting, Tick
  <2>1. held[c] \in Tokens /\ held'[c].left >= held[c].left - 1
      BY <1>1, OlderIsToken
  <2>2. held[c].left + waits[c] * FetchTimeout + waited[c] >= Lifetime
      BY <2>1 DEF ClientInv, Lasting
  <2>3. /\ held[c].left \in Nat /\ held'[c].left \in Nat
        /\ waits[c] * FetchTimeout \in Nat
      BY <1>1, <2>1, ConstantsAreNat DEF Tokens
  <2> DEFINE w == waits[c] * FetchTimeout
  <2> HIDE DEF w
  <2>4. held'[c].left + w + waited'[c] >= Lifetime
      BY <1>1, <2>1, <2>2, <2>3, ConstantsAreNat DEF w
  <2> QED BY <2>4 DEF w
<1> QED BY <1>2, <1>3, <1>4 DEF ClientInv

LEMMA DishonourKeeps == ClientInv /\ Dishonour => ClientInv'
<1> SUFFICES ASSUME ClientInv, Dishonour PROVE ClientInv'
    OBVIOUS
<1> DEFINE Spoilt(t) == IF t \in Tokens THEN [t EXCEPT !.honoured = FALSE] ELSE t
<1>1. token' = Spoilt(token) /\ held' = [c \in Callers |-> Spoilt(held[c])]
    BY DEF Dishonour
<1>2. ASSUME NEW t \in Tokens \union {NoToken, NotAToken}
      PROVE  /\ Spoilt(t) \in Tokens \union {NoToken, NotAToken}
             /\ t \in Tokens <=> Spoilt(t) \in Tokens
             /\ t \notin Tokens => Spoilt(t) = t
             /\ t \in Tokens => Spoilt(t).left = t.left
  <2>1. CASE t \in Tokens
    <3>1. [t EXCEPT !.honoured = FALSE] \in Tokens
        BY <2>1 DEF Tokens
    <3> QED BY <2>1, <3>1 DEF Tokens
  <2>2. CASE t \notin Tokens
      BY <1>2, <2>2
  <2> QED BY <2>1, <2>2
<1> HIDE DEF Spoilt
<1>3. ASSUME NEW c \in Callers
      PROVE  /\ held'[c] \in Tokens \union {NoToken, NotAToken}
             /\ held[c] \in Tokens <=> held'[c] \in Tokens
             /\ held[c] = NoToken => held'[c] = NoToken
             /\ held[c] \in Tokens => held'[c].left = held[c].left
    BY <1>1, <1>2, ConstantsAreNat DEF ClientInv, TypeOK
<1>4. token' \in Tokens \union {NoToken, NotAToken}
    BY <1>1, <1>2, ConstantsAreNat DEF ClientInv, TypeOK
<1>5. held' \in [Callers -> Tokens \union {NoToken, NotAToken}]
    BY <1>1, <1>3
<1>6. TypeOK'
    BY <1>3, <1>4, <1>5, ConstantsAreNat DEF ClientInv, TypeOK, Dishonour
<1>7. Timing'
    BY DEF ClientInv, Timing, Dishonour
<1>8. Lasting'
    BY <1>3 DEF ClientInv, Lasting, Dishonour
<1> QED BY <1>6, <1>7, <1>8 DEF ClientInv

\* The waits of a call before the next one begins.
LEMMA NextWaitKeeps ==
    ASSUME ClientInv, NEW c \in Callers, NextWait(c)
    PROVE  ClientInv'
<1>1. TypeOK' /\ Timing'
    BY ConstantsAreNat DEF ClientInv, TypeOK, Timing, NextWait
<1>2. Lasting'
  <2> SUFFICES ASSUME NEW d \in Callers, pc[d] = "fetch", held[d] \in Tokens
               PROVE  held[d].left + waits'[d] * FetchTimeout + waited'[d] >= Lifetime
      BY DEF Lasting, NextWait
  <2>1. held[d].left + waits[d] * FetchTimeout + waited[d] >= Lifetime
      BY DEF ClientInv, Lasting
  <2>2. CASE d # c
      BY <2>1, <2>2 DEF NextWait, ClientInv, TypeOK
  <2>3. CASE d = c
    <3>1. /\ waits'[d] = waits[d] + 1 /\ waited'[d] = 0
          /\ waits[d] \in Nat /\ waited[d] \in Nat /\ waited[d] <= FetchTimeout
          /\ held[d].left \in Nat
        BY <2>3, ConstantsAreNat DEF NextWait, ClientInv, TypeOK, Timing, Tokens
    <3>2. waits'[d] * FetchTimeout = waits[d] * FetchTimeout + FetchTimeout
        BY <3>1, ConstantsAreNat
    <3>3. waits[d] * FetchTimeout \in Nat
        BY <3>1, ConstantsAreNat
    <3> DEFINE w == waits[d] * FetchTimeout
               v == waits'[d] * FetchTimeout
    <3>4. /\ w \in Nat /\ v = w + FetchTimeout
          /\ held[d].left + w + waited[d] >= Lifetime
        BY <2>1, <3>2, <3>3
    <3> HIDE DEF w, v
    <3>5. held[d].left + v + waited'[d] >= Lifetime
        BY <3>1, <3>4, ConstantsAreNat
    <3> QED BY <3>5 DEF v
  <2> QED BY <2>2, <2>3
<1> QED BY <1>1, <1>2 DEF ClientInv

LEMMA ClientInvHolds == Spec => []ClientInv
<1>1. Init => ClientInv
    BY ConstantsAreNat DEF Init, ClientInv, TypeOK, Timing, Lasting
<1>2. ClientInv /\ [Next]_vars => ClientInv'
  <2> SUFFICES ASSUME ClientInv, [Next]_vars PROVE ClientInv'
      OBVIOUS
  <2> USE DEF ClientInv
  <2>1. ASSUME NEW c \in Callers, Want(c) PROVE ClientInv'
      BY <2>1 DEF Want, TypeOK, Timing, Lasting
  <2>2. ASSUME NEW c \in Callers, AskWithCached(c) PROVE ClientInv'
      BY <2>2, PostKeeps DEF AskWithCached, IsTokenValid, Asks
  <2>3. ASSUME NEW c \in Callers, AskAndFetch(c) PROVE ClientInv'
      BY <2>3, ConstantsAreNat DEF AskAndFetch, Asks, TypeOK, Timing, Lasting
  <2>4. ASSUME NEW c \in Callers, AskInVain(c) PROVE ClientInv'
      BY <2>4, ReturnKeeps DEF AskInVain, Raise, TypeOK
  <2>5. ASSUME NEW c \in Callers, Issue(c) PROVE ClientInv'
    <3>1. TypeOK' /\ Timing'
        BY <2>5, FreshIsToken DEF Issue, TypeOK, Timing
    <3>2. Lasting'
        BY <2>5, FreshIsToken, IssuedKeeps DEF Issue
    <3> QED BY <3>1, <3>2
  <2>6. ASSUME NEW c \in Callers, IssueStray(c) PROVE ClientInv'
    <3>1. PICK t \in Strays : held' = [held EXCEPT ![c] = t]
        BY <2>6 DEF IssueStray
    <3>2. TypeOK' /\ Timing'
        BY <2>6, <3>1, StrayIsKnown DEF IssueStray, TypeOK, Timing
    <3>3. Lasting'
        BY <2>6, <3>1, StrayIsKnown, IssuedKeeps DEF IssueStray
    <3> QED BY <3>2, <3>3
  <2>7. ASSUME NEW c \in Callers, TakeToken(c) PROVE ClientInv'
      <3>1. CASE Usable(held[c])
          BY <2>7, <3>1, PostKeeps DEF TakeToken, Usable, TypeOK
      <3>2. CASE ~Usable(held[c])
          BY <2>7, <3>2, ReturnKeeps DEF TakeToken, Raise, TypeOK
      <3> QED BY <3>1, <3>2
  <2>8. ASSUME NEW c \in Callers, Accepted(c) PROVE ClientInv'
      BY <2>8 DEF Accepted, TypeOK, Timing, Lasting
  <2>9. ASSUME NEW c \in Callers, Answered(c) PROVE ClientInv'
      BY <2>9, ReturnKeeps DEF Answered, TypeOK
  <2>10. ASSUME NEW c \in Callers, Rejected(c) PROVE ClientInv'
      BY <2>10, ReturnKeeps DEF Rejected, Raise, TypeOK
  <2>11. ASSUME NEW c \in Callers, Fail(c) PROVE ClientInv'
      BY <2>11, ReturnKeeps DEF Fail, Raise, TypeOK
  <2>12. CASE Restart
      BY <2>12, ReturnKeeps DEF Restart, Raise, TypeOK
  <2>13. CASE UNCHANGED vars
      BY <2>13 DEF vars, TypeOK, Timing, Lasting
  <2> QED BY <2>1, <2>2, <2>3, <2>4, <2>5, <2>6, <2>7, <2>8, <2>9, <2>10, <2>11,
             <2>12, <2>13, NextWaitKeeps, TickKeeps, DishonourKeeps DEF Next, Step
<1> QED BY <1>1, <1>2, PTL DEF Spec

-----------------------------------------------------------------------------

\* The type invariant: a caller holds a token exactly as far as it has come.
THEOREM ClientTypeCorrect == Spec => []TypeOK
BY ClientInvHolds, PTL DEF ClientInv

\* No envelope is posted with a token that has already expired, in whatever
\* order fetches and requests of concurrent callers take their course.
THEOREM TokensAreValidWhenSent == Spec => ValidWhenSent
<1>1. ASSUME ClientInv, [Next]_vars, NEW c \in Callers, pc[c] # "sent", pc'[c] = "sent"
      PROVE  held'[c].left > 0
  <2>1. ASSUME NEW d \in Callers, AskWithCached(d) PROVE held'[c].left > 0
      BY <1>1, <2>1 DEF AskWithCached, Post, IsTokenValid, ClientInv, TypeOK
  <2>2. ASSUME NEW d \in Callers, TakeToken(d) PROVE held'[c].left > 0
    <3>1. CASE Usable(held[d])
      <4>1. pc[d] = "fetch" /\ held[d] \in Tokens /\ held[d].left \in Nat
          BY <2>2, <3>1 DEF TakeToken, Usable, Tokens
      <4>2. c = d /\ held'[c] = held[c]
          BY <1>1, <2>2, <3>1 DEF TakeToken, Post, ClientInv, TypeOK
      <4>3. MaxWaits * RequestTimeout \in Nat
          BY ConstantsAreNat
      <4> QED BY <1>1, <4>1, <4>2, <4>3, LeftEnough, ConstantsAreNat
    <3>2. CASE ~Usable(held[d])
        BY <1>1, <2>2, <3>2 DEF TakeToken, Raise, Return, ClientInv, TypeOK
    <3> QED BY <3>1, <3>2
  <2>3. ASSUME NEW d \in Callers,
               Want(d) \/ AskAndFetch(d) \/ AskInVain(d) \/ Issue(d) \/ IssueStray(d)
               \/ Accepted(d) \/ Answered(d) \/ Rejected(d) \/ Fail(d) \/ NextWait(d)
        PROVE  FALSE
      BY <1>1, <2>3
         DEF Want, AskAndFetch, AskInVain, Issue, IssueStray, Accepted, Answered,
             Rejected, Fail, NextWait, Raise, Return, ClientInv, TypeOK
  <2>4. ~(Tick \/ Dishonour \/ Restart \/ UNCHANGED vars)
      BY <1>1 DEF Tick, Dishonour, Restart, Raise, Return, vars
  <2> QED BY <1>1, <2>1, <2>2, <2>3, <2>4 DEF Next, Step
<1>2. ClientInv /\ [Next]_vars
        => [\A c \in Callers :
               pc[c] # "sent" /\ pc'[c] = "sent" => held'[c].left > 0]_vars
    BY <1>1
<1> QED BY <1>2, ClientInvHolds, PTL DEF Spec, ValidWhenSent

\* A token is good for a whole request when it is cached, in whatever order the
\* answers to concurrent fetches arrive.
THEOREM FetchedTokensSuffice == Spec => []FetchedTokenSuffices
<1>1. ClientInv => FetchedTokenSuffices
    BY LeftEnough DEF FetchedTokenSuffices
<1> QED BY <1>1, ClientInvHolds, PTL

=============================================================================
