---------------------------- MODULE BrokerAccess ----------------------------
(***************************************************************************)
(* Who is let into the Android broker: guarded() authenticates a call and  *)
(* then asks the rate limiter.  The bearer token is in preferences that    *)
(* two TokenVault objects share, the service's (read by the HTTP threads)  *)
(* and the activity's (which regenerates it on the main thread).  The rate *)
(* window is measured with the wall clock.                                 *)
(*                                                                         *)
(* Abstractions.  Tokens are numbered in the order they are generated.     *)
(* Ciphertext and nonce are the number of the token they belong to: the    *)
(* two are committed together and read one after the other, and decrypting *)
(* one with the other's fails.  Everything on the main thread is one step. *)
(***************************************************************************)
EXTENDS Naturals, Sequences, SequencesExt, FiniteSets

CONSTANTS
  Caller,        \* HTTP calls
  MaxRequests, Window,  \* RateLimiter: 60 and 60,000 ms
  MaxTime, MaxTokens, MaxSetBack  \* bounds: time, tokens, clock changes

ASSUME AccessAssumption ==
  /\ MaxRequests \in Nat \ {0} /\ Window \in Nat \ {0}
  /\ MaxTime \in Nat /\ MaxTokens \in Nat /\ MaxSetBack \in Nat

Token == 1 .. MaxTokens
NoToken == 0

VARIABLES
  stored,      \* the last token committed to the preferences
  step,        \* where a call is in guarded()
  candidate,   \* the token its header carries, NoToken for anything else
  cipher,      \* the ciphertext it has read
  verdict,     \* what guarded() decided
  requests,    \* RateLimiter.requests
  wall, setBacks,  \* the wall clock, and how often it was set back
  now,         \* history: time that really passed
  grants,      \* history: the real times at which the limiter let a call in
  seen         \* history: the tokens stored since the call arrived

accessVars == <<stored, step, candidate, cipher, verdict, requests, wall, setBacks,
                now, grants, seen>>
calls == <<step, candidate, cipher, verdict>>
clock == <<wall, setBacks, now>>

AccessInit ==
  /\ stored = NoToken
  /\ step = [c \in Caller |-> "new"] /\ candidate = [c \in Caller |-> NoToken]
  /\ cipher = [c \in Caller |-> NoToken] /\ verdict = [c \in Caller |-> "none"]
  /\ requests = <<>> /\ grants = <<>>
  /\ wall = MaxSetBack /\ setBacks = 0 /\ now = 0
  /\ seen = [c \in Caller |-> {}]

(* regenerate(), from the activity or from the first getOrCreate(), which  *)
(* the service makes before it starts the server.                          *)
Regenerate ==
  /\ stored < MaxTokens
  /\ stored' = stored + 1
  /\ seen' = [c \in Caller |-> IF step[c] \in {"new", "done"} THEN seen[c]
                                  ELSE seen[c] \cup {stored'}]
  /\ UNCHANGED <<calls, requests, grants, clock>>

Present(c, t) ==
  /\ step[c] = "new" /\ stored # NoToken /\ t \in 0 .. stored
  /\ candidate' = [candidate EXCEPT ![c] = t]
  /\ step' = [step EXCEPT ![c] = "header"]
  /\ seen' = [seen EXCEPT ![c] = {stored}]
  /\ UNCHANGED <<stored, cipher, verdict, requests, grants, clock>>

Decide(c, status) ==
  /\ verdict' = [verdict EXCEPT ![c] = status]
  /\ step' = [step EXCEPT ![c] = "done"]

(* isAuthorized: no usable header, no look at the token.                   *)
ReadCiphertext(c) ==
  /\ step[c] = "header"
  /\ IF candidate[c] = NoToken THEN Decide(c, "unauthorized") /\ UNCHANGED cipher
     ELSE /\ cipher' = [cipher EXCEPT ![c] = stored]
          /\ step' = [step EXCEPT ![c] = "nonce"]
          /\ UNCHANGED verdict
  /\ UNCHANGED <<stored, candidate, requests, grants, clock, seen>>

\* Mistake: the expected token is the one of the first start.
CompareWithFirst(c) ==
  /\ step[c] = "nonce"
  /\ IF candidate[c] # 1 THEN Decide(c, "unauthorized")
     ELSE step' = [step EXCEPT ![c] = "rate"] /\ UNCHANGED verdict
  /\ UNCHANGED <<stored, candidate, cipher, requests, grants, clock, seen>>

(* The nonce, decryption and comparison.  A mismatch of the two halves is  *)
(* an exception, which guarded() answers with an internal error.           *)
Compare(c) ==
  /\ step[c] = "nonce"
  /\ \/ cipher[c] # stored /\ Decide(c, "error")
     \/ cipher[c] = stored /\ candidate[c] # stored /\ Decide(c, "unauthorized")
     \/ /\ cipher[c] = stored /\ candidate[c] = stored
        /\ step' = [step EXCEPT ![c] = "rate"]
        /\ UNCHANGED verdict
  /\ UNCHANGED <<stored, candidate, cipher, requests, grants, clock, seen>>

(* The window's first entries that are Window old go; `wall - t` may be    *)
(* negative, so entries of the future stay, with all that follow them.     *)
Forget(log) ==
  LET Fresh == {i \in DOMAIN log : ~(wall >= log[i] + Window)}
  IN IF Fresh = {} THEN <<>>
     ELSE SubSeq(log, CHOOSE i \in Fresh : \A j \in Fresh : i <= j, Len(log))

\* Mistake: the limit is compared with > instead of >=.
LimitTooHigh(c) ==
  /\ step[c] = "rate"
  /\ LET kept == Forget(requests)
     IN IF Len(kept) > MaxRequests
        THEN requests' = kept /\ Decide(c, "rate_limited") /\ UNCHANGED grants
        ELSE /\ requests' = Append(kept, wall) /\ grants' = Append(grants, now)
             /\ Decide(c, "served")
  /\ UNCHANGED <<stored, candidate, cipher, clock, seen>>

(* tryAcquire, under the limiter's monitor.                                *)
TryAcquire(c) ==
  /\ step[c] = "rate"
  /\ LET kept == Forget(requests)
     IN IF Len(kept) >= MaxRequests
        THEN requests' = kept /\ Decide(c, "rate_limited") /\ UNCHANGED grants
        ELSE /\ requests' = Append(kept, wall) /\ grants' = Append(grants, now)
             /\ Decide(c, "served")
  /\ UNCHANGED <<stored, candidate, cipher, clock, seen>>

Tick ==
  /\ now < MaxTime /\ now' = now + 1 /\ wall' = wall + 1
  /\ UNCHANGED <<stored, calls, requests, grants, setBacks, seen>>

SetBack ==
  /\ setBacks < MaxSetBack /\ wall > 0
  /\ setBacks' = setBacks + 1 /\ wall' = wall - 1
  /\ UNCHANGED <<stored, calls, requests, grants, now, seen>>

AccessNext ==
  \/ Regenerate \/ Tick \/ SetBack
  \/ \E c \in Caller : \/ \E t \in Token \cup {NoToken} : Present(c, t)
                       \/ ReadCiphertext(c) \/ Compare(c) \/ TryAcquire(c)

AccessSpec == AccessInit /\ [][AccessNext]_accessVars

(* The token that counts is the one stored while the call was handled: a   *)
(* call with a token regenerated away before it arrived is never served,   *)
(* and one with the stored token is refused for it only if the token was   *)
(* regenerated meanwhile (the two halves are read one after the other).    *)
TokenDecides ==
  \A c \in Caller :
    /\ verdict[c] \in {"served", "rate_limited"} => candidate[c] \in seen[c]
    /\ verdict[c] \in {"unauthorized", "error"} => seen[c] # {candidate[c]}

(* In no stretch of real time of the window's length are more calls let in *)
(* than the limit, also when the clock is set back (which makes the        *)
(* limiter refuse more, never less).  A clock that is set forward, also to *)
(* correct it after it was set back, is not modelled: it shortens the      *)
(* window by as much (RateLimiter.kt lines 17-23).                         *)
WindowHolds ==
  \A i \in DOMAIN grants :
    i + MaxRequests \in DOMAIN grants => grants[i + MaxRequests] >= grants[i] + Window
=============================================================================
