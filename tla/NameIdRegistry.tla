--------------------------- MODULE NameIdRegistry ---------------------------
(***************************************************************************)
(* What the identity database promises, with every request atomic: a        *)
(* register of <user, NameID> associations in which a value and a durable   *)
(* slot are taken once, an entry only ever changes its SPProvidedID, and    *)
(* entries leave by value or by user (the docs of IdentityStore and IdentDb *)
(* in crates/gamlastan/src/idp/ident.rs).                                   *)
(***************************************************************************)
EXTENDS IdentityStore

VARIABLE assoc

RegistryInit == assoc = {}

Register(u, n) ==
  /\ ~ValueTaken(assoc, n.value)
  /\ FindDurable(assoc, u, n.format, n.spq, n.nq) = {}
  /\ assoc' = Insert(assoc, u, n)

Annotate(r, p) ==
  assoc' = (assoc \ {r}) \union {[r EXCEPT !.nid.spid = p]}

Forget(v) == assoc' = Remove(assoc, v)

ForgetUser(u) == assoc' = RemoveAll(assoc, u)

RegistryNext ==
  \/ \E u \in Users, n \in NameId : Register(u, n)
  \/ \E r \in assoc, p \in SpIds : Annotate(r, p)
  \/ \E v \in Values : Forget(v)
  \/ \E u \in Users : ForgetUser(u)

RegistrySpec == RegistryInit /\ [][RegistryNext]_assoc
=============================================================================
