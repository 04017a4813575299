----------------------------- MODULE FKKClient ------------------------------
(***************************************************************************)
(* The FKK API client (klassifikation/api.py): signed SOAP requests of     *)
(* concurrent callers that share one cached SAML token.                    *)
(*                                                                         *)
(* _request() takes the time that goes into its envelope, then asks        *)
(* _get_token(), which returns the cached token or awaits a new one, and   *)
(* posts the envelope.  Nothing keeps two callers from fetching a token at *)
(* once.  The handlers and the event generator call again after a failure, *)
(* HTTP requests do not.                                                   *)
(*                                                                         *)
(* Time is what is left of a token and what has passed of a wait, so it    *)
(* needs no bound.  A timeout of httpx limits one wait only: for a place   *)
(* in the pool, for the connection, for the request to be written, and for *)
(* each part of the answer.  A call is a number of such waits, and may     *)
(* outlast the envelope it carries; FKK refuses that one when it arrives.  *)
(* Copying the token and posting are one action, nothing is awaited        *)
(* between the two.                                                        *)
(***************************************************************************)
EXTENDS Integers

CONSTANTS
    Callers,
    Retrying,        \* those that call again after a failure
    Lifetime,        \* of a token when it is issued
    FetchTimeout,    \* of each wait of a token request (httpx's default)
    RequestTimeout,  \* of each wait of any other request (timeout=300)
    MaxWaits,        \* bound on the waits of one request
    Window,          \* for how long an envelope is good (timedelta(minutes=10))
    Ahead,           \* how far FKK's clock is ahead of ours
    NoToken,
    NotAToken,       \* an XML document without the lifetime of a token
    MaxFaults, MaxStrays  \* bounds on failures and on answers that are no token

ASSUME FKKClientAssumption ==
    /\ Retrying \subseteq Callers
    /\ Lifetime \in Nat /\ FetchTimeout \in Nat /\ RequestTimeout \in Nat
    /\ Window \in Nat /\ Ahead \in Nat /\ MaxFaults \in Nat /\ MaxStrays \in Nat
    /\ MaxWaits \in Nat \ {0}
    /\ MaxWaits * (FetchTimeout + RequestTimeout) + Ahead < Lifetime

\* whole: the Assertion and the SecurityTokenReference are there.
Tokens == [left : 0..Lifetime, honoured : BOOLEAN, whole : BOOLEAN]

ASSUME TokenAssumption ==
    NoToken \notin Tokens /\ NotAToken \notin Tokens /\ NoToken # NotAToken

VARIABLES
    token,   \* FKKAPI._token
    work,    \* callers that want an answer of FKK
    pc,      \* idle, awaiting a token, awaiting FKK, or only its answer
    held,    \* the token on its way to a caller, then the one in its envelope
    age,     \* time since the Created timestamp of the envelope, up to Window
    waits,   \* the waits of the request that are over
    waited,  \* time since the last of them
    faults, strays

vars == <<token, work, pc, held, age, waits, waited, faults, strays>>

Init ==
    /\ token = NoToken
    /\ work = {}
    /\ pc = [c \in Callers |-> "idle"]
    /\ held = [c \in Callers |-> NoToken]
    /\ age = [c \in Callers |-> 0]
    /\ waits = [c \in Callers |-> 0]
    /\ waited = [c \in Callers |-> 0]
    /\ faults = 0 /\ strays = 0

-----------------------------------------------------------------------------
(* Tokens. *)

Fresh == [left |-> Lifetime, honoured |-> TRUE, whole |-> TRUE]

\* What a request to the token service may bring that is not a token of use.
Strays == {NotAToken, [Fresh EXCEPT !.whole = FALSE]}

\* Mutant: a token is taken to be valid for ever.
IsTokenValid_Always(t) == t \in Tokens

IsTokenValid(t) == t \in Tokens /\ t.left > 0

\* Mutant: find() without the check that it found something.
Usable_Unchecked(t) == t # NoToken

\* Finding the Assertion and the SecurityTokenReference does not raise.
Usable(t) == t \in Tokens /\ t.whole

Older(t) == IF t \in Tokens /\ t.left > 0 THEN [t EXCEPT !.left = @ - 1] ELSE t

-----------------------------------------------------------------------------
(* Steps of a call. *)

\* The envelope is posted with token t.
Post(c, t) ==
    /\ pc' = [pc EXCEPT ![c] = "sent"]
    /\ held' = [held EXCEPT ![c] = t]
    /\ waits' = [waits EXCEPT ![c] = 0]
    /\ waited' = [waited EXCEPT ![c] = 0]
    /\ UNCHANGED work

\* The calls of C are over.
Return(C) ==
    /\ pc' = [c \in Callers |-> IF c \in C THEN "idle" ELSE pc[c]]
    /\ held' = [c \in Callers |-> IF c \in C THEN NoToken ELSE held[c]]
    /\ age' = [c \in Callers |-> IF c \in C THEN 0 ELSE age[c]]
    /\ waits' = [c \in Callers |-> IF c \in C THEN 0 ELSE waits[c]]
    /\ waited' = [c \in Callers |-> IF c \in C THEN 0 ELSE waited[c]]

\* An exception: requests are answered with it, the others call again.
Raise(C) == Return(C) /\ work' = work \ (C \ Retrying)

\* A message is delivered, a poll is due, or a request is made.
Want(c) ==
    /\ work' = work \union {c}
    /\ UNCHANGED <<token, pc, held, age, waits, waited, faults, strays>>

Asks(c) == c \in work /\ pc[c] = "idle"

AskWithCached(c) ==
    /\ Asks(c)
    /\ IsTokenValid(token) /\ Usable(token)
    /\ Post(c, token)
    /\ UNCHANGED <<token, age, faults, strays>>

AskAndFetch(c) ==
    /\ Asks(c)
    /\ token = NoToken \/ (token \in Tokens /\ ~IsTokenValid(token))
    /\ pc' = [pc EXCEPT ![c] = "fetch"]
    /\ UNCHANGED <<token, work, held, age, waits, waited, faults, strays>>

\* _find() raises: on the lifetime, or on the parts of the token.
AskInVain(c) ==
    /\ Asks(c)
    /\ token = NotAToken \/ (IsTokenValid(token) /\ ~Usable(token))
    /\ Raise({c})
    /\ UNCHANGED <<token, faults, strays>>

\* The token service answers; the answer is on its way.
Issue(c) ==
    /\ pc[c] = "fetch"
    /\ held[c] = NoToken
    /\ held' = [held EXCEPT ![c] = Fresh]
    /\ UNCHANGED <<token, work, pc, age, waits, waited, faults, strays>>

\* The answer is a document with a status of success that is no token.
IssueStray(c) ==
    /\ strays < MaxStrays
    /\ pc[c] = "fetch"
    /\ held[c] = NoToken
    /\ \E t \in Strays : held' = [held EXCEPT ![c] = t]
    /\ strays' = strays + 1
    /\ UNCHANGED <<token, work, pc, age, waits, waited, faults>>

\* The answer arrives: it is cached as it is, over what may have been cached
\* meanwhile, and used without another look at its lifetime.
TakeToken(c) ==
    /\ pc[c] = "fetch"
    /\ held[c] # NoToken
    /\ token' = held[c]
    /\ \/ Usable(held[c]) /\ Post(c, held[c]) /\ UNCHANGED age
       \/ ~Usable(held[c]) /\ Raise({c})
    /\ UNCHANGED <<faults, strays>>

\* FKK looks at the envelope by its own clock, when it arrives.
Accepts(c) == held[c].honoured /\ held[c].left > Ahead /\ age[c] < Window

Accepted(c) ==
    /\ pc[c] = "sent"
    /\ Accepts(c)
    /\ pc' = [pc EXCEPT ![c] = "accepted"]
    /\ UNCHANGED <<token, work, held, age, waits, waited, faults, strays>>

Answered(c) ==
    /\ pc[c] = "accepted"
    /\ Return({c})
    /\ work' = work \ {c}
    /\ UNCHANGED <<token, faults, strays>>

\* raise_for_status(); the token stays in the cache.
Rejected(c) ==
    /\ pc[c] = "sent"
    /\ ~Accepts(c)
    /\ Raise({c})
    /\ UNCHANGED <<token, faults, strays>>

\* A post ends with an error or a timeout.
Fail(c) ==
    /\ faults < MaxFaults
    /\ pc[c] # "idle"
    /\ Raise({c})
    /\ faults' = faults + 1
    /\ UNCHANGED <<token, strays>>

-----------------------------------------------------------------------------
(* Time, FKK and restarts. *)

\* Mutant: token requests have the timeout of other requests.
Timeout_Same(c) == RequestTimeout

Timeout(c) == IF pc[c] = "fetch" THEN FetchTimeout ELSE RequestTimeout

\* A wait of the request is over, and the timeout begins again.
NextWait(c) ==
    /\ pc[c] # "idle"
    /\ waits[c] + 1 < MaxWaits
    /\ waits' = [waits EXCEPT ![c] = @ + 1]
    /\ waited' = [waited EXCEPT ![c] = 0]
    /\ UNCHANGED <<token, work, pc, held, age, faults, strays>>

Later(c) == IF age[c] < Window THEN age[c] + 1 ELSE Window

\* No wait is longer than its timeout.
Tick ==
    /\ \A c \in Callers : pc[c] # "idle" => waited[c] < Timeout(c)
    /\ token' = Older(token)
    /\ held' = [c \in Callers |-> Older(held[c])]
    /\ age' = [c \in Callers |-> IF pc[c] = "idle" THEN 0 ELSE Later(c)]
    /\ waited' = [c \in Callers |-> IF pc[c] = "idle" THEN 0 ELSE waited[c] + 1]
    /\ UNCHANGED <<work, pc, waits, faults, strays>>

\* FKK no longer accepts the tokens issued so far.
Dishonour ==
    /\ faults < MaxFaults
    /\ faults' = faults + 1
    /\ LET Spoilt(t) == IF t \in Tokens THEN [t EXCEPT !.honoured = FALSE] ELSE t
       IN  token' = Spoilt(token) /\ held' = [c \in Callers |-> Spoilt(held[c])]
    /\ UNCHANGED <<work, pc, age, waits, waited, strays>>

Restart ==
    /\ faults < MaxFaults
    /\ token' = NoToken
    /\ Raise(Callers)
    /\ faults' = faults + 1
    /\ UNCHANGED strays

Step(c) ==
    \/ AskWithCached(c) \/ AskAndFetch(c) \/ AskInVain(c)
    \/ Issue(c) \/ TakeToken(c) \/ Accepted(c) \/ Answered(c) \/ Rejected(c)

Next ==
    \/ \E c \in Callers : Want(c) \/ Step(c) \/ NextWait(c) \/ IssueStray(c) \/ Fail(c)
    \/ Tick \/ Dishonour \/ Restart

Spec == Init /\ [][Next]_vars

\* A call that begins while FKK still takes the cached token.
AskInTime(c) == AskWithCached(c) /\ token.left > Ahead

\* The event loop runs a task that can run and time passes.  Neither do all
\* attempts of a caller fall into the last moments of a token that somebody
\* else fetched, nor do all its envelopes take longer than the ten minutes
\* they are good for.
FairSpec ==
    /\ Spec
    /\ \A c \in Callers :
          WF_vars(Step(c)) /\ SF_vars(AskInTime(c)) /\ SF_vars(Accepted(c))
    /\ WF_vars(Tick)

-----------------------------------------------------------------------------
(* Properties. *)

\* Types, and that a caller holds a token exactly as far as it has come.
TypeOK ==
    /\ token \in Tokens \union {NoToken, NotAToken}
    /\ work \subseteq Callers
    /\ pc \in [Callers -> {"idle", "fetch", "sent", "accepted"}]
    /\ held \in [Callers -> Tokens \union {NoToken, NotAToken}]
    /\ age \in [Callers -> 0..Window]
    /\ waits \in [Callers -> 0..(MaxWaits - 1)] /\ waited \in [Callers -> Nat]
    /\ faults \in Nat /\ strays \in Nat
    /\ \A c \in Callers :
          /\ pc[c] = "idle" => held[c] = NoToken
          /\ pc[c] \in {"sent", "accepted"} => held[c] \in Tokens
          /\ pc[c] # "idle" => c \in work

\* A token is put in an envelope only before it expires, though after it was
\* fetched nobody looks at its lifetime again (api.py:226-231, 258).
ValidWhenSent ==
    [][\A c \in Callers :
          pc[c] # "sent" /\ pc'[c] = "sent" => held'[c].left > 0]_vars

\* A fetched token lasts for the request it was fetched for, and for any other
\* that begins at once, even if its answer arrives after that of a later fetch
\* and replaces that token in the cache (api.py:226-228).
FetchedTokenSuffices ==
    \A c \in Callers : pc[c] = "fetch" /\ held[c] \in Tokens =>
        held[c].left > MaxWaits * RequestTimeout + Ahead

\* The message of a handler, and the poll of the generator, get their answer:
\* a token that has run out or is no longer honoured is replaced in the end, and
\* so is an envelope whose timestamp, older than its token (api.py:245-258), ran
\* out on the way, unless the token service has sent something else than a token.
AnsweredEventually ==
    \A c \in Retrying : c \in work ~> c \notin work \/ strays > 0

\* "Return cached token or fetch a new one if expired." (api.py:226): who asks
\* for a token finds the cache empty or holding one.
ReturnsOrFetches == \A c \in Callers : Asks(c) => token # NotAToken

=============================================================================
