---------------------------- MODULE ReplayCache ----------------------------
(***************************************************************************)
(* The in-memory replay cache (crates/gamlastan/src/security/replay.rs).    *)
(* One lock per call; the call reads the clock itself, under the lock.      *)
(***************************************************************************)
EXTENDS Naturals, FiniteSets

CONSTANTS
  Ids,      \* assertion IDs, or issuer-scoped LogoutRequest IDs
  Never,    \* no scheduled expiry
  MaxTime   \* bound of the clock

ASSUME ReplayAssumption == MaxTime \in Nat /\ Never \notin Nat

VARIABLES
  entries,     \* entries[i]: when the remembered ID expires
  nextExpiry,  \* the earliest expiry worth a cleanup scan
  clock,       \* the wall clock
  uses         \* history: uses[i], the latest expiry i was accepted with

replayVars == <<entries, nextExpiry, clock, uses>>

ReplayTypeOK ==
  /\ DOMAIN entries \subseteq Ids
  /\ \A i \in DOMAIN entries : entries[i] \in Nat \ {0}
  /\ nextExpiry \in Nat \union {Never}
  /\ clock \in 0..MaxTime
  /\ DOMAIN uses \subseteq Ids

ReplayInit ==
  /\ entries = << >>
  /\ nextExpiry = Never
  /\ clock = 0
  /\ uses = << >>

Put(f, i, e) == [j \in DOMAIN f \union {i} |-> IF j = i THEN e ELSE f[j]]

Unexpired == [i \in {j \in DOMAIN entries : entries[j] > clock} |-> entries[i]]

Earliest(f) ==
  IF DOMAIN f = {} THEN Never
  ELSE CHOOSE e \in {f[i] : i \in DOMAIN f} : \A i \in DOMAIN f : e <= f[i]

PruneDue == nextExpiry # Never /\ nextExpiry <= clock

\* The state the check works on: pruned when the schedule says so.
Scanned == IF PruneDue THEN Unexpired ELSE entries
Schedule == IF PruneDue THEN Earliest(Unexpired) ELSE nextExpiry

Fresh(id) == ~(id \in DOMAIN Scanned /\ Scanned[id] > clock)

Remember(expiry) == expiry > clock

Sooner(schedule, expiry) ==
  IF schedule = Never \/ expiry < schedule THEN expiry ELSE schedule

\* check_and_insert answers true: the ID is new, and is remembered unless its
\* expiry is already due.
Accept(id, expiry) ==
  /\ Fresh(id)
  /\ IF Remember(expiry)
     THEN entries' = Put(Scanned, id, expiry) /\ nextExpiry' = Sooner(Schedule, expiry)
     ELSE entries' = Scanned /\ nextExpiry' = Schedule
  /\ uses' = Put(uses, id, expiry)
  /\ UNCHANGED clock

\* check_and_insert answers false: the ID was seen and has not expired.
Refuse(id) ==
  /\ ~Fresh(id)
  /\ entries' = Scanned
  /\ nextExpiry' = Schedule
  /\ UNCHANGED <<clock, uses>>

Cleanup ==
  /\ entries' = Unexpired
  /\ nextExpiry' = Earliest(Unexpired)
  /\ UNCHANGED <<clock, uses>>

Advance ==
  /\ clock < MaxTime
  /\ clock' = clock + 1
  /\ UNCHANGED <<entries, nextExpiry, uses>>

ReplayNext ==
  \/ \E i \in Ids, e \in 0..MaxTime : Accept(i, e)
  \/ \E i \in Ids : Refuse(i)
  \/ Cleanup
  \/ Advance

ReplaySpec == ReplayInit /\ [][ReplayNext]_replayVars

-----------------------------------------------------------------------------

\* Between an acceptance and the expiry it came with, the ID is refused: no
\* pruning, cleanup or other insertion forgets a live ID.
RememberedUntilExpiry ==
  \A i \in DOMAIN uses : uses[i] > clock => ~Fresh(i)

=============================================================================
