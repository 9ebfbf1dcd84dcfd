---------------------------- MODULE AttributeMap ----------------------------
(***************************************************************************)
(* Attribute names on the wire and local ones                               *)
(* (crates/gamlastan/src/attribute_map/mod.rs).  A converter serves one     *)
(* NameFormat and maps the two directions apart: "fro" from wire to local,  *)
(* "to" from local to wire.  Attribute lists are sets; something that may   *)
(* be missing is a set of at most one element.  Names are case-folded.      *)
(***************************************************************************)
EXTENDS Naturals, Sequences

Attribute(name, format, friendly, values) ==
  [name |-> name, format |-> format, friendly |-> friendly, values |-> values]

\* from_directions: later entries win, which a function says by itself; a map
\* that is the same in both directions has one inverse to the other.
Converter(format, fro, to) == [format |-> format, fro |-> fro, to |-> to]

Lookup1(map, name) == IF name \in DOMAIN map THEN {map[name]} ELSE {}

ConverterFor(converters, format) ==
  LET fitting == {i \in DOMAIN converters : converters[i].format = format}
  IN {converters[i] : i \in {j \in fitting : \A k \in fitting : j <= k}}

\* local_name_via_converters: a declared NameFormat selects its converter, and
\* without one the first converter that knows the name is used.
LocalNameViaConverters(converters, a) ==
  IF a.format # {}
  THEN UNION {Lookup1(c.fro, a.name) : c \in UNION {ConverterFor(converters, f) : f \in a.format}}
  ELSE LET knowing == {i \in DOMAIN converters : a.name \in DOMAIN converters[i].fro}
       IN {converters[i].fro[a.name] : i \in {j \in knowing : \A k \in knowing : j <= k}}

\* local_name falls back on the FriendlyName the attribute carries.
LocalName(converters, a) ==
  LET known == LocalNameViaConverters(converters, a)
  IN IF known # {} THEN known ELSE a.friendly

\* to_local: what a receiver makes of attributes, merged by local name; unknown
\* ones are dropped unless they are let through under their wire name.
ToLocal(converters, allowUnknown, attributes) ==
  LET name(a) == LET local == LocalName(converters, a)
                 IN IF local = {} /\ allowUnknown THEN {a.name} ELSE local
      names == UNION {name(a) : a \in attributes}
  IN {[name |-> n, values |-> UNION {a.values : a \in {b \in attributes : n \in name(b)}}] :
        n \in names}

\* from_local: what a sender makes of local attributes under a NameFormat.
FromLocal(converters, allowUnknown, locals, format) ==
  LET to == [c \in ConverterFor(converters, format) |-> c.to]
      wire(l) == UNION {Lookup1(to[c], l.name) : c \in DOMAIN to}
  IN UNION {IF wire(l) # {} THEN {Attribute(w, {format}, {l.name}, l.values) : w \in wire(l)}
            ELSE IF allowUnknown THEN {Attribute(l.name, {}, {}, l.values)} ELSE {} : l \in locals}
=============================================================================
