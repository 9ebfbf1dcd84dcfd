--------------------------- MODULE LogoutFreshness ---------------------------
(***************************************************************************)
(* How long a LogoutRequest is honoured and remembered                      *)
(* (crates/gamlastan/src/profiles/logout.rs: validate_logout_request and    *)
(* validate_logout_request_with_replay).  Both roles use it.                *)
(***************************************************************************)
EXTENDS Naturals

CONSTANTS
  Skew,    \* SecurityConfig.clock_skew_seconds
  MaxAge,  \* max_logout_request_age_seconds
  Never    \* a LogoutRequest without NotOnOrAfter; no scheduled expiry

ASSUME FreshnessAssumption == Skew \in Nat /\ MaxAge \in Nat /\ Never \notin Nat

\* NotOnOrAfter and the age of the request, by the handler's reading of the clock.
InWindow(r, now) ==
  /\ r.until # Never => now < r.until + Skew
  /\ r.issued <= now + Skew
  /\ now < r.issued + MaxAge + Skew

\* How long the replay cache remembers its ID.
ExpiryAtAge(r) == r.issued + MaxAge
Expiry(r) ==
  LET age == r.issued + MaxAge + Skew
  IN IF r.until # Never /\ r.until + Skew < age THEN r.until + Skew ELSE age
=============================================================================
