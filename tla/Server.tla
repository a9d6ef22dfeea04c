--------------------------------- MODULE Server --------------------------------
(* The HTTP layer in front of the assistant: which identity configuration the   *)
(* server starts with, whom it admits to a gated path and under which actor,    *)
(* and the sliding-window rate limiter its threads share.                       *)
(*                                                                              *)
(* A bearer token is abstracted to what verification looks at: the algorithm it *)
(* is signed with, whether signature, expiry, issuer and audience are good, its *)
(* subject and its scopes.  The limiter reads the clock before it takes its     *)
(* lock, so a thread's "now" may be older than one already decided.             *)
EXTENDS Integers, Sequences, FiniteSets, SequencesExt

CONSTANTS
  Thread,        \* worker threads
  Address,       \* client addresses, the limiter's keys
  Environment,   \* the configurations the server may be started with
  Token,         \* the bearer tokens presented; NoToken is none
  NoToken,
  Limit, Window, \* the limiter's limit and window
  MAX_KEYS,      \* RateLimiter._MAX_KEYS
  MaxClock,      \* bound on the clock
  MaxGrants      \* bound on the requests let through

VARIABLES
  config,    \* what the server started with, and the environment it came from
  hits,      \* RateLimiter._hits: entries [key, at], least recently seen first
  clock,     \* time.monotonic()
  served,    \* Thread -> the request it holds before the limiter's lock
  last,      \* the request answered last: its path, its token, its answer
  granted,   \* history: the admissions [key, at], in the order of the lock
  excused    \* history: keys evicted, or decided under an older clock

serverVars == <<config, hits, clock, served, last, granted, excused>>

--------------------------------------------------------------------------------
Family(source) == IF source = "secret" THEN {"HS256", "HS384", "HS512"}
                  ELSE {"RS256", "RS384", "RS512", "ES256", "ES384", "ES512"}
Default(source) == IF source = "secret" THEN {"HS256"} ELSE {"RS256", "ES256"}

\* The configuration of an environment: off without a source, refused when it is
\* ambiguous, lacks issuer or audience, names an algorithm of the other family,
\* or fetches keys over a plain connection.
ConfigOf(environment, source) ==
  IF ~ environment.issuer_and_audience
       \/ ~ environment.algs \subseteq Family(source)
       \/ (source = "jwks_url" /\ ~ environment.https)
    THEN [auth |-> "refused"]
    ELSE [auth |-> "on", scope |-> environment.required_scope,
          algorithms |-> IF environment.algs = {} THEN Default(source)
                         ELSE environment.algs]

from_env_any(environment) ==
  IF environment.sources = {} THEN [auth |-> "off"]
  ELSE ConfigOf(environment, CHOOSE source \in environment.sources : TRUE)

from_env(environment) ==
  IF environment.sources = {} THEN [auth |-> "off"]
  ELSE IF \E a, b \in environment.sources : a # b THEN [auth |-> "refused"]
  ELSE ConfigOf(environment, CHOOSE source \in environment.sources : TRUE)

\* Any failure is refused; the actor is the sanitized subject.
verify(auth, token) ==
  token # NoToken /\ token.alg \in auth.algorithms /\ token.valid
    /\ token.subject # "none"

Refused(status) == [status |-> status, actor |-> <<"none", "none">>]
Admitted(actor) == [status |-> 200, actor |-> actor]

\* The middleware's answer for a path.  With verification on, the asserted user
\* header is ignored; with it off, the header names the actor.
Admission(auth, path, token, header, shared) ==
  LET gated == path # "/api/about" IN
  IF auth.auth = "on"
    THEN IF ~ gated THEN Admitted(<<"process", "login">>)
         ELSE IF ~ verify(auth, token) THEN Refused(401)
         ELSE IF path = "/api/ask" /\ auth.scope /\ ~ token.scoped THEN Refused(403)
         ELSE Admitted(<<"auth", token.subject>>)
    ELSE IF gated /\ shared /\ token.alg # "shared" THEN Refused(401)
         ELSE Admitted(<<"web", header>>)

--------------------------------------------------------------------------------
Seen(key) == \E i \in 1 .. Len(hits) : hits[i].key = key
Place(key) == CHOOSE i \in 1 .. Len(hits) : hits[i].key = key
HitsOf(key) == IF Seen(key) THEN hits[Place(key)].at ELSE <<>>
Others(key) == IF Seen(key) THEN RemoveAt(hits, Place(key)) ELSE hits

\* Drop the leading entries older than the cutoff.
TrimToo(at, cutoff) ==
  LET kept == {i \in 1 .. Len(at) : at[i] > cutoff}
  IN IF kept = {} THEN <<>> ELSE SubSeq(at, Min(kept), Len(at))
Trim(at, cutoff) ==
  LET kept == {i \in 1 .. Len(at) : at[i] >= cutoff}
  IN IF kept = {} THEN <<>> ELSE SubSeq(at, Min(kept), Len(at))

NoRequest == [key |-> "none", now |-> 0]

Answered(path, token, answer) == [path |-> path, token |-> token, answer |-> answer]

ServerInit ==
  /\ \E environment \in Environment :
       config = [environment |-> environment, identity |-> from_env(environment)]
  /\ hits = <<>> /\ clock = Window /\ granted = <<>> /\ excused = {}
  /\ served = [t \in Thread |-> NoRequest]
  /\ last = Answered("/api/about", NoToken, Refused(0))

TimePasses ==
  /\ clock < MaxClock
  /\ clock' = clock + 1
  /\ UNCHANGED <<config, hits, served, last, granted, excused>>

\* A request passes the middleware; one for the assistant that is admitted reads
\* the clock.  A server whose configuration was refused did not start.
Receive(t) ==
  /\ config.identity.auth # "refused" /\ served[t] = NoRequest
  /\ \E path \in {"/api/about", "/api/cas", "/api/ask"}, key \in Address,
        token \in Token \union {NoToken} :
       LET answer == Admission(config.identity, path, token, "user",
                               config.environment.shared) IN
       /\ last' = Answered(path, token, answer)
       /\ served' = IF answer.status = 200 /\ path = "/api/ask"
                      THEN [served EXCEPT ![t] = [key |-> key, now |-> clock]]
                      ELSE served
  /\ UNCHANGED <<config, hits, clock, granted, excused>>

\* RateLimiter.allow, under the lock: trim, decide, remember, evict.
allow(t) ==
  /\ served[t] # NoRequest /\ Len(granted) < MaxGrants
  /\ LET key     == served[t].key
         now     == served[t].now
         at      == Trim(HitsOf(key), now - Window)
         allowed == Len(at) < Limit
         seen    == Others(key) \o
                      <<[key |-> key, at |-> IF allowed THEN Append(at, now) ELSE at]>>
         full    == Len(seen) > MAX_KEYS
         older   == \E i \in 1 .. Len(granted) :
                      granted[i].key = key /\ granted[i].at > now
     IN /\ hits' = IF full THEN Tail(seen) ELSE seen
        /\ granted' = IF allowed THEN Append(granted, [key |-> key, at |-> now])
                      ELSE granted
        /\ excused' = excused \union (IF full THEN {seen[1].key} ELSE {})
                              \union (IF older THEN {key} ELSE {})
        /\ served' = [served EXCEPT ![t] = NoRequest]
        /\ last' = IF allowed THEN last
                   ELSE Answered("/api/ask", NoToken, Refused(429))
  /\ UNCHANGED <<config, clock>>

ServerNext ==
  \/ TimePasses
  \/ \E t \in Thread : Receive(t) \/ allow(t)

ServerSpec == ServerInit /\ [][ServerNext]_serverVars

--------------------------------------------------------------------------------
GrantsWithin(key, from, to) ==
  {i \in 1 .. Len(granted) :
     granted[i].key = key /\ granted[i].at >= from /\ granted[i].at <= to}

\* No address is let through more often than the limit in any closed window -
\* unless it was evicted in between, or a thread decided under a clock it had
\* read before another thread's later decision.
LimitHolds ==
  \A key \in Address \ excused, to \in Window .. MaxClock :
    Cardinality(GrantsWithin(key, to - Window, to)) <= Limit

\* Whatever the environment names, a request let through to a gated path of a
\* server with any signing source carries a good token, signed with an algorithm
\* that every named source accepts, and its actor is that token's subject.
AdmittedIsVerified ==
  (/\ last.answer.status = 200 /\ last.path # "/api/about"
   /\ config.environment.sources # {})
  => /\ last.token # NoToken /\ last.token.valid
     /\ \A source \in config.environment.sources :
          last.token.alg \in Family(source)
     /\ last.answer.actor = <<"auth", last.token.subject>>
================================================================================
