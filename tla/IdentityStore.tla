--------------------------- MODULE IdentityStore ---------------------------
(***************************************************************************)
(* The record store behind the identity database                            *)
(* (crates/gamlastan/src/idp/ident.rs: IdentityStore, InMemoryIdentityStore).*)
(* A record associates one local user with one NameID.  Every method of the *)
(* trait is atomic (one lock, or one statement of a real backend), so each  *)
(* is a state function or a next-state expression over the set of records.  *)
(* An absent Format is stored as "unspecified" (effective_format).          *)
(***************************************************************************)
EXTENDS Naturals, FiniteSets

CONSTANTS
  Users,        \* local user identifiers
  Values,       \* NameID values
  Formats,      \* NameID formats, Transient and Persistent among them
  Transient,    \* urn:...:nameid-format:transient
  Persistent,   \* urn:...:nameid-format:persistent
  Qualifiers,   \* SPNameQualifier and NameQualifier values, NoName among them
  SpIds,        \* SPProvidedID values, NoName among them
  NoName        \* an absent optional field

ASSUME FormatAssumption ==
  /\ Transient \in Formats /\ Persistent \in Formats
  /\ Transient # Persistent
  /\ NoName \in Qualifiers /\ NoName \in SpIds

NameId == [value : Values, format : Formats, spq : Qualifiers,
           nq : Qualifiers, spid : SpIds]

Record == [user : Users, nid : NameId]

\* Whether n is the durable NameID of this slot; a transient never is.
DurableMatch(n, format, spq, nq) ==
  /\ format # Transient
  /\ n.format = format
  /\ n.spq = spq
  /\ n.nq = nq

SameSlot(n, m) == DurableMatch(n, m.format, m.spq, m.nq)

\* Writing n for u would leave u with a second durable record of n's slot.
SlotUnchecked(rs, u, n) == FALSE
DurableTupleTaken(rs, u, n) ==
  \E r \in rs : r.user = u /\ r.nid.value # n.value /\ SameSlot(r.nid, n)

ValueTaken(rs, v) == \E r \in rs : r.nid.value = v

ValueTakenByOther(rs, u, v) ==
  \E r \in rs : r.nid.value = v /\ r.user # u

ForUser(rs, u) == {r \in rs : r.user = u}

\* user_for: the users the value is attributed to (a set: at most one when
\* the uniqueness constraint on values holds).
UserFor(rs, v) == {r.user : r \in {s \in rs : s.nid.value = v}}

FindDurable(rs, u, format, spq, nq) ==
  {r \in ForUser(rs, u) : DurableMatch(r.nid, format, spq, nq)}

\* NameIdFilter.matches: an absent field of the filter matches every record.
FilterMatches(f, n) ==
  /\ f.format = NoName \/ n.format = f.format
  /\ f.spq = NoName \/ n.spq = f.spq

Find(rs, u, f) == {r \in ForUser(rs, u) : FilterMatches(f, r.nid)}

\* How insert and replace end: "Ok", "ValueTaken" or "DurableExists".
InsertVerdict(rs, u, n) ==
  IF ValueTaken(rs, n.value) THEN "ValueTaken"
  ELSE IF DurableTupleTaken(rs, u, n) THEN "DurableExists" ELSE "Ok"

ReplaceAnyOwner(rs, u, n) ==
  IF DurableTupleTaken(rs, u, n) THEN "DurableExists" ELSE "Ok"
ReplaceVerdict(rs, u, n) ==
  IF ValueTakenByOther(rs, u, n.value) THEN "ValueTaken"
  ELSE IF DurableTupleTaken(rs, u, n) THEN "DurableExists" ELSE "Ok"

Insert(rs, u, n) == rs \union {[user |-> u, nid |-> n]}

\* replace overwrites the record with this value, and inserts it when there
\* is none.
ReplaceKeepingOld(rs, u, n) == rs \union {[user |-> u, nid |-> n]}
Replace(rs, u, n) ==
  {r \in rs : r.nid.value # n.value} \union {[user |-> u, nid |-> n]}

RemoveOwner(rs, v) == {r \in rs : r.user \notin UserFor(rs, v)}
Remove(rs, v) == {r \in rs : r.nid.value # v}

RemoveAll(rs, u) == {r \in rs : r.user # u}
=============================================================================
