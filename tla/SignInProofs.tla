---------------------------- MODULE SignInProofs ----------------------------
(***************************************************************************)
(* Proofs about the profiles of signing in, for any settings of the sites,  *)
(* any users, lifetimes and numbers of messages.  Web-browser SSO: where    *)
(* answers go, that what is taken over is genuine and taken over once, and  *)
(* that persistent NameIDs keep their account.  The Swedish profile: that   *)
(* what is taken over is assured.  ECP: that conversations stay apart.      *)
(* Discovery: that the identity provider used last is the one heard of.     *)
(* At the end: that the SP understands what the IdP of its library answers. *)
(***************************************************************************)
EXTENDS SignIn, FiniteSetTheorems, SequenceTheorems, WellFoundedInduction, TLAPS

-----------------------------------------------------------------------------
(* The endpoint the answer goes to.                                         *)

LEMMA LeastOf ==
  ASSUME NEW S \in SUBSET Nat, S # {}
  PROVE  \E x \in S : \A y \in S : x <= y
  <1>1. IsWellFoundedOn(OpToRel(<, Nat), Nat)
    BY NatLessThanWellFounded
  <1>2. PICK x \in S : \A y \in S : ~(<<y, x>> \in OpToRel(<, Nat))
    BY <1>1, WFMin
  <1>3. \A y \in S : ~(y < x)
    BY <1>2 DEF OpToRel
  <1>4. QED
    BY <1>3

LEMMA FirstIsThere ==
  ASSUME NEW s, NEW S \in SUBSET Nat, S # {}
  PROVE  \E i \in S : FirstAt(s, S) = s[i]
  <1>1. \E i \in S : \A j \in S : i <= j
    BY LeastOf
  <1>2. QED
    BY <1>1 DEF FirstAt

Endpoints(s) == DOMAIN s \subseteq Nat /\ \A i \in DOMAIN s : s[i].index \in Nat

LEMMA DefaultIsRegistered ==
  ASSUME NEW s, Endpoints(s), NEW S \in SUBSET (DOMAIN s), S # {}
  PROVE  \E i \in S : DefaultAcs(s, S) = s[i]
  <1> DEFINE default == {i \in S : s[i].isDefault}
             lowest == {i \in S : \A j \in S : s[i].index <= s[j].index}
  <1>1. lowest # {}
    <2> DEFINE T == {s[i].index : i \in S}
    <2>1. T \in SUBSET Nat /\ T # {}
      BY DEF Endpoints
    <2>2. PICK x \in T : \A y \in T : x <= y
      BY <2>1, LeastOf
    <2>3. PICK i \in S : x = s[i].index
      OBVIOUS
    <2>4. i \in lowest
      BY <2>2, <2>3
    <2>5. QED
      BY <2>4
  <1>2. default \in SUBSET Nat /\ lowest \in SUBSET Nat
    BY DEF Endpoints
  <1>3. CASE default # {}
    <2>1. PICK i \in default : FirstAt(s, default) = s[i]
      BY <1>2, <1>3, FirstIsThere
    <2>2. DefaultAcs(s, S) = FirstAt(s, default)
      BY <1>3 DEF DefaultAcs
    <2>3. QED
      BY <2>1, <2>2
  <1>4. CASE default = {}
    <2>1. PICK i \in lowest : FirstAt(s, lowest) = s[i]
      BY <1>1, <1>2, FirstIsThere
    <2>2. DefaultAcs(s, S) = FirstAt(s, lowest)
      BY <1>4 DEF DefaultAcs
    <2>3. QED
      BY <2>1, <2>2
  <1>5. QED
    BY <1>3, <1>4

LEMMA FirstOrAbsentIsThere ==
  ASSUME NEW s, NEW S \in SUBSET Nat, FirstOrAbsent(s, S) # Absent
  PROVE  \E i \in S : FirstOrAbsent(s, S) = s[i]
  BY FirstIsThere DEF FirstOrAbsent

\* The endpoint that is resolved is one of those registered, and what the request
\* asked for.
Serves(q, e) ==
  /\ q.acsUrl \in {Absent, e.url} /\ q.binding \in {Absent, e.binding}
  /\ q.acsUrl = Absent => q.acsIndex \in {Absent, e.index}

LEMMA ResolvedIsRegistered ==
  ASSUME NEW q, NEW s, Endpoints(s), ResolveAcs(q, s) # Absent
  PROVE  \E i \in DOMAIN s : ResolveAcs(q, s) = s[i] /\ Serves(q, s[i])
  <1> DEFINE bound == {i \in DOMAIN s : q.binding \in {Absent, s[i].binding}}
             atUrl == {i \in bound : s[i].url = q.acsUrl}
             withIndex == {i \in DOMAIN s : s[i].index = q.acsIndex}
             atIndex == FirstOrAbsent(s, withIndex)
  <1>1. /\ atUrl \in SUBSET Nat /\ withIndex \in SUBSET Nat
        /\ bound \in SUBSET (DOMAIN s)
    BY DEF Endpoints
  <1>2. CASE q.acsUrl # Absent
    <2>1. ResolveAcs(q, s) = FirstOrAbsent(s, atUrl)
      BY <1>2 DEF ResolveAcs
    <2>2. PICK i \in atUrl : FirstOrAbsent(s, atUrl) = s[i]
      BY <1>1, <2>1, FirstOrAbsentIsThere
    <2>3. QED
      BY <1>2, <2>1, <2>2 DEF Serves
  <1>3. CASE q.acsUrl = Absent /\ q.acsIndex = Absent
    <2>1. ResolveAcs(q, s) = IF bound = {} THEN Absent ELSE DefaultAcs(s, bound)
      BY <1>3 DEF ResolveAcs
    <2>2. bound # {} /\ ResolveAcs(q, s) = DefaultAcs(s, bound)
      BY <2>1
    <2>3. PICK i \in bound : DefaultAcs(s, bound) = s[i]
      BY <1>1, <2>2, DefaultIsRegistered
    <2>4. QED
      BY <1>3, <2>2, <2>3 DEF Serves
  <1>4. CASE q.acsUrl = Absent /\ q.acsIndex # Absent
    <2>1. ResolveAcs(q, s) = IF atIndex # Absent /\ q.binding \in {Absent, atIndex.binding}
                             THEN atIndex ELSE Absent
      BY <1>4 DEF ResolveAcs
    <2>2. /\ atIndex # Absent /\ q.binding \in {Absent, atIndex.binding}
          /\ ResolveAcs(q, s) = atIndex
      BY <2>1
    <2>3. PICK i \in withIndex : atIndex = s[i]
      BY <1>1, <2>2, FirstOrAbsentIsThere
    <2>4. QED
      BY <1>4, <2>2, <2>3 DEF Serves
  <1>5. QED
    BY <1>2, <1>3, <1>4

-----------------------------------------------------------------------------
(* What a response is made of.  A record is its fields.                     *)

IsResponse(r) ==
  r = [id |-> r.id, destination |-> r.destination, issuerFormat |-> r.issuerFormat,
       irt |-> r.irt, sig |-> r.sig, success |-> r.success, assertions |-> r.assertions,
       encrypted |-> r.encrypted]

IsAssertion(a) ==
  a = [id |-> a.id, issued |-> a.issued, issuer |-> a.issuer, sig |-> a.sig,
       subject |-> a.subject, conditions |-> a.conditions, sessions |-> a.sessions,
       attributes |-> a.attributes]

\* Signing changes nothing but the signature.
SameBut(s, r) ==
  /\ s.id = r.id /\ s.destination = r.destination /\ s.issuerFormat = r.issuerFormat
  /\ s.irt = r.irt /\ s.success = r.success /\ s.encrypted = r.encrypted

LEMMA ResponseWithSignature ==
  ASSUME NEW r, IsResponse(r), NEW g, NEW s, s = [r EXCEPT !.sig = g]
  PROVE  /\ IsResponse(s) /\ SameBut(s, r) /\ s.assertions = r.assertions /\ s.sig = g
         /\ Unsigned(s) = Unsigned(r)
  BY DEF IsResponse, Unsigned, SameBut

LEMMA SignedResponse ==
  ASSUME NEW r, IsResponse(r)
  PROVE  /\ IsResponse(Signed(r)) /\ SameBut(Signed(r), r)
         /\ Signed(r).assertions = r.assertions
         /\ Signed(r).sig = [key |-> site.idpKey, over |-> Unsigned(r)]
         /\ Unsigned(Signed(r)) = Unsigned(r)
  <1> DEFINE g == [key |-> site.idpKey, over |-> Unsigned(r)]
             s == Signed(r)
  <1>1. s = [r EXCEPT !.sig = g]
    BY DEF Signed
  <1> HIDE DEF g, s
  <1>2. /\ IsResponse(s) /\ SameBut(s, r) /\ s.assertions = r.assertions /\ s.sig = g
        /\ Unsigned(s) = Unsigned(r)
    BY <1>1, ResponseWithSignature
  <1>3. QED
    BY <1>2 DEF g, s

LEMMA UnsignedResponse ==
  ASSUME NEW r, IsResponse(r)
  PROVE  /\ IsResponse(Unsigned(r)) /\ SameBut(Unsigned(r), r)
         /\ Unsigned(r).assertions = r.assertions /\ Unsigned(r).sig = Absent
  BY DEF IsResponse, Unsigned, SameBut

LEMMA AssertionWithSignature ==
  ASSUME NEW a, IsAssertion(a), NEW g, NEW s, s = [a EXCEPT !.sig = g]
  PROVE  /\ IsAssertion(s) /\ s.id = a.id /\ s.issued = a.issued
         /\ s.conditions = a.conditions /\ s.subject = a.subject /\ s.sig = g
         /\ Unsigned(s) = Unsigned(a)
  BY DEF IsAssertion, Unsigned

LEMMA SignedAssertion ==
  ASSUME NEW a, IsAssertion(a)
  PROVE  /\ IsAssertion(Signed(a)) /\ Signed(a).id = a.id /\ Signed(a).issued = a.issued
         /\ Signed(a).conditions = a.conditions /\ Signed(a).subject = a.subject
         /\ Signed(a).sig = [key |-> site.idpKey, over |-> Unsigned(a)]
         /\ Unsigned(Signed(a)) = Unsigned(a)
  <1> DEFINE g == [key |-> site.idpKey, over |-> Unsigned(a)]
             s == Signed(a)
  <1>1. s = [a EXCEPT !.sig = g]
    BY DEF Signed
  <1> HIDE DEF g, s
  <1>2. /\ IsAssertion(s) /\ s.id = a.id /\ s.issued = a.issued
        /\ s.conditions = a.conditions /\ s.subject = a.subject /\ s.sig = g
        /\ Unsigned(s) = Unsigned(a)
    BY <1>1, AssertionWithSignature
  <1>3. QED
    BY <1>2 DEF g, s

LEMMA UnsignedAssertion ==
  ASSUME NEW a, IsAssertion(a)
  PROVE  /\ IsAssertion(Unsigned(a)) /\ Unsigned(a).id = a.id /\ Unsigned(a).issued = a.issued
         /\ Unsigned(a).conditions = a.conditions /\ Unsigned(a).sig = Absent
         /\ a.sig = Absent => Unsigned(a) = a
  BY DEF IsAssertion, Unsigned

\* Signing keeps all but the signatures; the first assertion is signed first, if
\* at all, and then the response.
SignedInto(s, r) ==
  /\ IsResponse(s) /\ SameBut(s, r)
  /\ DOMAIN s.assertions = DOMAIN r.assertions
  /\ \A i \in DOMAIN r.assertions : s.assertions[i] \in {r.assertions[i], Signed(r.assertions[i])}
  /\ r.assertions = << >> => s.assertions = << >>
  /\ \A a : r.assertions = <<a>> => s.assertions \in {<<a>>, <<Signed(a)>>}
  /\ s.sig = Absent \/ s.sig = [key |-> site.idpKey, over |-> Unsigned(s)]

LEMMA SignResponseMakes ==
  ASSUME NEW r, IsResponse(r), r.sig = Absent, NEW x, NEW y
  PROVE  SignedInto(SignResponse(r, x, y), r)
  <1> DEFINE as == r.assertions
             heads == [i \in DOMAIN as |-> IF i = 1 THEN Signed(as[i]) ELSE as[i]]
             inner == IF x THEN [r EXCEPT !.assertions = heads] ELSE r
             s == SignResponse(r, x, y)
  <1>1. /\ DOMAIN heads = DOMAIN as
        /\ \A i \in DOMAIN as : heads[i] \in {as[i], Signed(as[i])}
    OBVIOUS
  <1>2. as = << >> => heads = << >>
    OBVIOUS
  <1>3. ASSUME NEW a, as = <<a>> PROVE heads = <<Signed(a)>>
    <2> DEFINE sa == Signed(a)
    <2>1. DOMAIN as = {1} /\ as[1] = a
      BY <1>3
    <2>2. heads = [i \in {1} |-> sa]
      BY <2>1
    <2> HIDE DEF sa
    <2>3. [i \in {1} |-> sa] = <<sa>>
      OBVIOUS
    <2>4. QED
      BY <2>2, <2>3 DEF sa
  <1>4. s = IF y THEN Signed(inner) ELSE inner
    BY DEF SignResponse
  <1> HIDE DEF heads
  <1>5. /\ IsResponse(inner) /\ SameBut(inner, r) /\ inner.sig = Absent
        /\ inner.assertions \in {heads, as}
    BY DEF IsResponse, SameBut
  <1> HIDE DEF inner, s
  <1>6. /\ IsResponse(s) /\ SameBut(s, r) /\ s.assertions = inner.assertions
        /\ s.sig = Absent \/ s.sig = [key |-> site.idpKey, over |-> Unsigned(s)]
    <2>1. CASE ~y
      BY <1>4, <1>5, <2>1
    <2>2. CASE y
      <3>1. s = Signed(inner)
        BY <1>4, <2>2
      <3>2. /\ IsResponse(s) /\ SameBut(s, inner) /\ s.assertions = inner.assertions
            /\ s.sig = [key |-> site.idpKey, over |-> Unsigned(inner)]
            /\ Unsigned(s) = Unsigned(inner)
        BY <1>5, <3>1, SignedResponse
      <3>3. SameBut(s, r)
        BY <1>5, <3>2 DEF SameBut
      <3>4. QED
        BY <3>2, <3>3
    <2>3. QED
      BY <2>1, <2>2
  <1>7. /\ DOMAIN s.assertions = DOMAIN as
        /\ \A i \in DOMAIN as : s.assertions[i] \in {as[i], Signed(as[i])}
    BY <1>1, <1>5, <1>6
  <1>8. as = << >> => s.assertions = << >>
    BY <1>2, <1>5, <1>6
  <1>9. \A a : as = <<a>> => s.assertions \in {<<a>>, <<Signed(a)>>}
    BY <1>3, <1>5, <1>6
  <1>10. SignedInto(s, r)
    BY <1>6, <1>7, <1>8, <1>9 DEF SignedInto
  <1>11. QED
    BY <1>10 DEF s

-----------------------------------------------------------------------------
(* How the library's IdP answers.                                           *)

IsConditions(k) ==
  /\ k = [notBefore |-> k.notBefore, until |-> k.until, audiences |-> k.audiences,
          proxies |-> k.proxies]
  /\ k.until \in Int \union {Absent}

\* An assertion as the library makes it, and one as it may come to be.
Whole(a) == IsAssertion(a) /\ a.issued \in Int /\ IsConditions(a.conditions)
Timed(a) ==
  IsAssertion(a) /\ a.issued \in Int /\ (a.conditions = Absent \/ IsConditions(a.conditions))

TypeInv ==
  /\ site \in Sites /\ now \in Nat /\ pending \in {RequestId, Absent}
  /\ \E S : deliveries \in Seq(S)

\* r is an answer before it is signed: about what the IdP has read, or unsolicited.
Answering(r) ==
  /\ Room /\ IsResponse(r) /\ r.sig = Absent /\ r.id = NextAssertion
  /\ r.irt = Absent \/ (Known /\ r.destination = processed.acsUrl)
  /\ \/ r.assertions = << >>
     \/ \E a : r.assertions = <<a>> /\ Whole(a) /\ a.sig = Absent /\ a.id = NextAssertion
  /\ \E x, y : wire' = wire \union {Message("own", SignResponse(r, x, y))}
  /\ issued' = issued \union {r.assertions[i] : i \in DOMAIN r.assertions}
  /\ UNCHANGED <<site, now, request, pending, processed, seen, owner, deliveries>>

LEMMA AboutIsWhole ==
  ASSUME TypeInv, NEW u, NEW irt, NEW at
  PROVE  LET r == About(u, irt, at) IN
         /\ IsResponse(r) /\ r.sig = Absent /\ r.irt = irt /\ r.destination = at
         /\ r.id = NextAssertion
         /\ \E a : r.assertions = <<a>> /\ Whole(a) /\ a.sig = Absent /\ a.id = NextAssertion
  <1> DEFINE a == Assertion(NextAssertion, irt, at, u)
             r == About(u, irt, at)
  <1>1. IdpNow \in Int /\ IdpNow + Lifetime \in Int
    BY WebSsoAssumption DEF TypeInv, IdpNow
  <1>2. Whole(a) /\ a.sig = Absent /\ a.id = NextAssertion
    BY <1>1 DEF Assertion, Whole, IsAssertion, IsConditions
  <1>3. r = Response(NextAssertion, irt, at, TRUE, <<a>>)
    BY DEF About
  <1> HIDE DEF a, r
  <1>4. /\ IsResponse(r) /\ r.sig = Absent /\ r.irt = irt /\ r.destination = at
        /\ r.id = NextAssertion /\ r.assertions = <<a>>
    BY <1>3 DEF Response, IsResponse
  <1>5. QED
    BY <1>2, <1>4 DEF r

LEMMA EncryptedResponse ==
  ASSUME NEW b, IsResponse(b)
  PROVE  LET r == EncryptAssertions(b) IN
         /\ IsResponse(r) /\ r.sig = b.sig /\ r.irt = b.irt /\ r.destination = b.destination
         /\ r.id = b.id /\ r.assertions = << >>
  <1> DEFINE n == Len(b.assertions) + b.encrypted
             r == EncryptAssertions(b)
  <1>1. r = [b EXCEPT !.assertions = << >>, !.encrypted = n]
    BY DEF EncryptAssertions
  <1> HIDE DEF n, r
  <1>2. /\ IsResponse(r) /\ r.sig = b.sig /\ r.irt = b.irt /\ r.destination = b.destination
        /\ r.id = b.id /\ r.assertions = << >>
    BY <1>1 DEF IsResponse
  <1>3. QED
    BY <1>2 DEF r

LEMMA OwnAnswers ==
  ASSUME TypeInv, Respond \/ RespondEncrypted \/ RespondUnsolicited \/ Deny
  PROVE  \E r : Answering(r)
  <1>1. CASE Respond
    <2>1. PICK u \in Users : Answer("own", About(u, processed.id, processed.acsUrl))
      BY <1>1 DEF Respond
    <2> DEFINE r == About(u, processed.id, processed.acsUrl)
    <2>2. /\ IsResponse(r) /\ r.sig = Absent /\ r.destination = processed.acsUrl
          /\ r.id = NextAssertion
          /\ \E a : r.assertions = <<a>> /\ Whole(a) /\ a.sig = Absent /\ a.id = NextAssertion
      BY AboutIsWhole
    <2>3. Room /\ Known
      BY <1>1 DEF Respond
    <2> HIDE DEF r
    <2>4. Answer("own", r)
      BY <2>1 DEF r
    <2>5. Answering(r)
      BY <2>2, <2>3, <2>4 DEF Answering, Answer, Send
    <2>6. QED
      BY <2>5
  <1>2. CASE RespondEncrypted
    <2>1. PICK u \in Users :
            Answer("own", EncryptAssertions(About(u, processed.id, processed.acsUrl)))
      BY <1>2 DEF RespondEncrypted
    <2> DEFINE b == About(u, processed.id, processed.acsUrl)
               r == EncryptAssertions(b)
    <2>2. /\ IsResponse(b) /\ b.sig = Absent /\ b.destination = processed.acsUrl
          /\ b.id = NextAssertion
      BY AboutIsWhole
    <2>3. Answer("own", r)
      BY <2>1
    <2> HIDE DEF b
    <2>4. /\ IsResponse(r) /\ r.sig = Absent /\ r.destination = processed.acsUrl
          /\ r.id = NextAssertion /\ r.assertions = << >>
      BY <2>2, EncryptedResponse
    <2>5. Room /\ Known
      BY <1>2 DEF RespondEncrypted
    <2> HIDE DEF r
    <2>6. Answering(r)
      BY <2>3, <2>4, <2>5 DEF Answering, Answer, Send
    <2>7. QED
      BY <2>6
  <1>3. CASE RespondUnsolicited
    <2> DEFINE at == DefaultAcs(site.acs, DOMAIN site.acs).url
    <2>1. PICK u \in Users : Answer("own", About(u, Absent, at))
      BY <1>3 DEF RespondUnsolicited
    <2> HIDE DEF at
    <2> DEFINE r == About(u, Absent, at)
    <2>2. /\ IsResponse(r) /\ r.sig = Absent /\ r.irt = Absent /\ r.id = NextAssertion
          /\ \E a : r.assertions = <<a>> /\ Whole(a) /\ a.sig = Absent /\ a.id = NextAssertion
      BY AboutIsWhole
    <2>3. Room
      BY <1>3 DEF RespondUnsolicited
    <2> HIDE DEF r
    <2>4. Answer("own", r)
      BY <2>1 DEF r
    <2>5. Answering(r)
      BY <2>2, <2>3, <2>4 DEF Answering, Answer, Send
    <2>6. QED
      BY <2>5
  <1>4. CASE Deny
    <2> DEFINE r == Response(NextAssertion, processed.id, processed.acsUrl, FALSE, << >>)
    <2>1. /\ wire' = wire \union {Message("own", SignResponse(r, FALSE, TRUE))}
          /\ UNCHANGED <<site, now, request, pending, processed, issued, seen, owner, deliveries>>
          /\ Known /\ Room
      BY <1>4 DEF Deny, Send
    <2>2. /\ IsResponse(r) /\ r.sig = Absent /\ r.destination = processed.acsUrl
          /\ r.id = NextAssertion /\ r.assertions = << >>
      BY DEF Response, IsResponse
    <2> HIDE DEF r
    <2>3. {r.assertions[i] : i \in DOMAIN r.assertions} = {}
      BY <2>2
    <2>4. Answering(r)
      BY <2>1, <2>2, <2>3 DEF Answering
    <2>5. QED
      BY <2>4
  <1>5. QED
    BY <1>1, <1>2, <1>3, <1>4

-----------------------------------------------------------------------------
(* What the IdP has read stays, and its answers to it go where it says.     *)

LEMMA TypeStep == TypeInv /\ [Next]_vars => TypeInv'
  <1> SUFFICES ASSUME TypeInv, [Next]_vars PROVE TypeInv'
    OBVIOUS
  <1>1. PICK S : deliveries \in Seq(S)
    BY DEF TypeInv
  <1>2. ASSUME NEW d, deliveries' = Append(deliveries, d) PROVE \E T : deliveries' \in Seq(T)
    <2>1. deliveries \in Seq(S \union {d})
      BY <1>1
    <2>2. Append(deliveries, d) \in Seq(S \union {d})
      BY <2>1
    <2>3. QED
      BY <1>2, <2>2
  <1>3. CASE Tick
    BY <1>3 DEF Tick, TypeInv
  <1>4. CASE SpLogin
    BY <1>4 DEF SpLogin, TypeInv
  <1>5. CASE DeliverToAcs
    <2>1. site' = site /\ now' = now /\ pending' \in {pending, Absent}
      BY <1>5 DEF DeliverToAcs
    <2>2. \E d : deliveries' = Append(deliveries, d)
      BY <1>5 DEF DeliverToAcs
    <2>3. QED
      BY <1>2, <2>1, <2>2 DEF TypeInv
  <1>6. CASE Validate
    <2>1. site' = site /\ now' = now /\ pending' = pending
      BY <1>6 DEF Validate
    <2>2. \E d : deliveries' = Append(deliveries, d)
      BY <1>6 DEF Validate
    <2>3. QED
      BY <1>2, <2>1, <2>2 DEF TypeInv
  <1>7. CASE /\ ReadRequest \/ Respond \/ RespondEncrypted \/ RespondUnsolicited \/ Deny
                \/ RespondOtherwise \/ Damage \/ UNCHANGED vars
    <2>1. UNCHANGED <<site, now, pending, deliveries>>
      BY <1>7 DEF ReadRequest, Respond, RespondEncrypted, RespondUnsolicited, Deny,
         RespondOtherwise, Damage, Answer, vars
    <2>2. QED
      BY <2>1 DEF TypeInv
  <1>8. QED
    BY <1>3, <1>4, <1>5, <1>6, <1>7 DEF Next

RegisteredInv ==
  /\ Known => /\ request # Absent
              /\ \E i \in DOMAIN site.acs :
                   /\ site.acs[i].url = processed.acsUrl /\ site.acs[i].binding = "post"
                   /\ Serves(request, site.acs[i])
  /\ \A m \in wire : m.origin = "own" /\ m.response.irt # Absent =>
       Known /\ m.response.destination = processed.acsUrl

LEMMA AnsweringAddressed ==
  ASSUME RegisteredInv, NEW r, Answering(r) PROVE RegisteredInv'
  <1>1. PICK x, y : wire' = wire \union {Message("own", SignResponse(r, x, y))}
    BY DEF Answering
  <1> DEFINE s == SignResponse(r, x, y)
  <1>2. SignedInto(s, r)
    BY SignResponseMakes DEF Answering
  <1>3. s.irt = r.irt /\ s.destination = r.destination
    BY <1>2 DEF SignedInto, SameBut
  <1>4. UNCHANGED <<site, request, processed>> /\ Known' = Known
    BY DEF Answering, Known
  <1> HIDE DEF s
  <1>5. ASSUME NEW m \in wire', m.origin = "own", m.response.irt # Absent
        PROVE  Known /\ m.response.destination = processed.acsUrl
    <2>1. CASE m \in wire
      BY <1>5, <2>1 DEF RegisteredInv
    <2>2. CASE m = Message("own", s)
      <3>1. m.response = s
        BY <2>2 DEF Message
      <3>2. QED
        BY <1>3, <1>5, <3>1 DEF Answering
    <2>3. QED
      BY <1>1, <2>1, <2>2 DEF s
  <1>6. QED
    BY <1>4, <1>5 DEF RegisteredInv

LEMMA RegisteredStep == TypeInv /\ RegisteredInv /\ [Next]_vars => RegisteredInv'
  <1> SUFFICES ASSUME TypeInv, RegisteredInv, [Next]_vars PROVE RegisteredInv'
    OBVIOUS
  <1>1. CASE SpLogin
    <2>1. ~Known
      BY <1>1 DEF SpLogin, RegisteredInv
    <2>2. ~Known' /\ wire' = wire /\ site' = site
      BY <1>1, <2>1 DEF SpLogin, Known
    <2>3. QED
      BY <2>1, <2>2 DEF RegisteredInv
  <1>2. CASE ReadRequest
    <2>1. ~Known /\ UNCHANGED <<site, request, wire>>
      BY <1>2 DEF ReadRequest, Known
    <2>2. ASSUME Known'
          PROVE  /\ request' # Absent
                 /\ \E i \in DOMAIN site'.acs :
                      /\ site'.acs[i].url = processed'.acsUrl /\ site'.acs[i].binding = "post"
                      /\ Serves(request', site'.acs[i])
      <3>1. /\ Admitted(request) /\ request # Absent
            /\ processed' = [id |-> request.id, acsUrl |-> ResolveAcs(request, site.acs).url]
        BY <1>2, <2>2 DEF ReadRequest, Known
      <3>2. ResolveAcs(request, site.acs) # Absent /\ ResolveAcs(request, site.acs).binding = "post"
        BY <3>1 DEF Admitted, Processable
      <3>3. Endpoints(site.acs)
        BY WebSsoAssumption DEF TypeInv, Endpoints
      <3>4. PICK i \in DOMAIN site.acs :
              ResolveAcs(request, site.acs) = site.acs[i] /\ Serves(request, site.acs[i])
        BY <3>2, <3>3, ResolvedIsRegistered
      <3>5. site.acs[i].url = processed'.acsUrl
        BY <3>1, <3>4
      <3>6. QED
        BY <2>1, <3>1, <3>2, <3>4, <3>5
    <2>3. QED
      BY <2>1, <2>2 DEF RegisteredInv
  <1>3. CASE Respond \/ RespondEncrypted \/ RespondUnsolicited \/ Deny
    BY <1>3, OwnAnswers, AnsweringAddressed
  <1>4. CASE RespondOtherwise
    <2>1. PICK v : Answer("peer", v)
      BY <1>4 DEF RespondOtherwise
    <2>2. PICK m : m.origin = "peer" /\ wire' = wire \union {m}
      BY <2>1 DEF Answer, Send, Message
    <2>3. Known' = Known /\ UNCHANGED <<site, request, processed>>
      BY <2>1 DEF Answer, Known
    <2>4. QED
      BY <2>2, <2>3 DEF RegisteredInv
  <1>5. CASE Damage
    <2>1. PICK m : m.origin = "damaged" /\ wire' = {m}
      BY <1>5 DEF Damage, Message
    <2>2. Known' = Known /\ UNCHANGED <<site, request, processed>>
      BY <1>5 DEF Damage, Known
    <2>3. QED
      BY <2>1, <2>2 DEF RegisteredInv
  <1>6. CASE DeliverToAcs \/ Validate \/ Tick \/ UNCHANGED vars
    <2>1. Known' = Known /\ UNCHANGED <<site, request, processed, wire>>
      BY <1>6 DEF DeliverToAcs, Validate, Tick, vars, Known
    <2>2. QED
      BY <2>1 DEF RegisteredInv
  <1>7. QED
    BY <1>1, <1>2, <1>3, <1>4, <1>5, <1>6 DEF Next

LEMMA TypeInit == Init => TypeInv
  <1> SUFFICES ASSUME Init PROVE TypeInv
    OBVIOUS
  <1>1. deliveries \in Seq({})
    BY DEF Init
  <1>2. QED
    BY <1>1 DEF Init, TypeInv

\* Every answer the library's IdP gives goes to an endpoint in the SP's metadata
\* that the request allows, whatever URL, index and binding the request names and
\* however many endpoints share or repeat them.
THEOREM AnswersStayRegistered == Spec => []AnswersGoWhereRegistered
  <1>1. Init => RegisteredInv
    BY DEF Init, RegisteredInv, Known
  <1>2. RegisteredInv => AnswersGoWhereRegistered
    BY DEF RegisteredInv, AnswersGoWhereRegistered, Serves
  <1>3. QED
    BY <1>1, <1>2, TypeInit, TypeStep, RegisteredStep, PTL DEF Spec

-----------------------------------------------------------------------------
(* What other implementations, and damage under way, make of a response.    *)

Varies(v, r) ==
  /\ IsResponse(v) /\ v.sig = r.sig /\ v.id = r.id
  /\ v.assertions = << >> \/ 1 \in DOMAIN v.assertions
  /\ \A i \in DOMAIN v.assertions :
       \E a : /\ r.assertions = <<a>> /\ Timed(v.assertions[i])
              /\ v.assertions[i].sig \in {Absent, a.sig}
              /\ v.assertions[i].id \in {a.id, a.id + site.responses}
  /\ \A i, j \in DOMAIN v.assertions :
       /\ v.assertions[i].issued = v.assertions[j].issued
       /\ v.assertions[i].conditions = v.assertions[j].conditions

\* A response with other assertions: none, another, or another besides.
LEMMA WithAssertions ==
  ASSUME NEW r, IsResponse(r), NEW list, NEW v, v = [r EXCEPT !.assertions = list]
  PROVE  IsResponse(v) /\ v.sig = r.sig /\ v.id = r.id /\ v.assertions = list
  BY DEF IsResponse

LEMMA OtherConditionsTimed ==
  ASSUME NEW k, IsConditions(k), NEW c \in OtherConditions(k)
  PROVE  c = Absent \/ IsConditions(c)
  <1>1. ASSUME NEW x, c = [k EXCEPT !.audiences = x] PROVE IsConditions(c)
    BY <1>1 DEF IsConditions
  <1>2. ASSUME NEW x, c = [k EXCEPT !.notBefore = x] PROVE IsConditions(c)
    BY <1>2 DEF IsConditions
  <1>3. ASSUME NEW x \in Int \union {Absent}, c = [k EXCEPT !.until = x] PROVE IsConditions(c)
    BY <1>3 DEF IsConditions
  <1>4. ASSUME NEW x, c = [k EXCEPT !.proxies = x] PROVE IsConditions(c)
    BY <1>4 DEF IsConditions
  <1>5. \/ c = Absent
        \/ \E x : c = [k EXCEPT !.audiences = x]
        \/ \E x : c = [k EXCEPT !.notBefore = x]
        \/ \E x \in Int \union {Absent} : c = [k EXCEPT !.until = x]
        \/ \E x : c = [k EXCEPT !.proxies = x]
    <2> DEFINE t == k.until
    <2>1. \/ c = Absent
          \/ \E x \in {{}, {{Stranger}}, {{Sp, Stranger}}, {{Sp}, {Stranger}}} :
               c = [k EXCEPT !.audiences = x]
          \/ c = [k EXCEPT !.notBefore = t] \/ c = [k EXCEPT !.notBefore = Absent]
          \/ c = [k EXCEPT !.until = Absent] \/ c = [k EXCEPT !.until = 0]
          \/ c = [k EXCEPT !.proxies = 0]
      BY DEF OtherConditions
    <2>2. 0 \in Int \union {Absent} /\ Absent \in Int \union {Absent}
      OBVIOUS
    <2> HIDE DEF t
    <2>3. QED
      BY <2>1, <2>2, Zenon
  <1>6. QED
    BY <1>1, <1>2, <1>3, <1>4, <1>5

LEMMA OtherAssertionsTimed ==
  ASSUME NEW a, Whole(a), NEW b \in OtherAssertions(a)
  PROVE  Timed(b) /\ b.sig = a.sig /\ b.id = a.id
  <1>1. ASSUME NEW x, b = [a EXCEPT !.subject = x] PROVE Timed(b) /\ b.sig = a.sig /\ b.id = a.id
    BY <1>1 DEF Timed, Whole, IsAssertion
  <1>2. ASSUME NEW x \in OtherConditions(a.conditions), b = [a EXCEPT !.conditions = x]
        PROVE  Timed(b) /\ b.sig = a.sig /\ b.id = a.id
    <2>1. x = Absent \/ IsConditions(x)
      BY <1>2, OtherConditionsTimed DEF Whole
    <2>2. QED
      BY <1>2, <2>1 DEF Timed, Whole, IsAssertion
  <1>3. ASSUME NEW x, b = [a EXCEPT !.sessions = x] PROVE Timed(b) /\ b.sig = a.sig /\ b.id = a.id
    BY <1>3 DEF Timed, Whole, IsAssertion
  <1>4. ASSUME NEW x, b = [a EXCEPT !.issuer = x] PROVE Timed(b) /\ b.sig = a.sig /\ b.id = a.id
    BY <1>4 DEF Timed, Whole, IsAssertion
  <1>5. ASSUME NEW x \in Int, b = [a EXCEPT !.issued = x]
        PROVE  Timed(b) /\ b.sig = a.sig /\ b.id = a.id
    BY <1>5 DEF Timed, Whole, IsAssertion
  <1>6. ASSUME NEW x, b = [a EXCEPT !.attributes = x]
        PROVE  Timed(b) /\ b.sig = a.sig /\ b.id = a.id
    BY <1>6 DEF Timed, Whole, IsAssertion
  <1>7. \/ \E x : b = [a EXCEPT !.subject = x]
        \/ \E x \in OtherConditions(a.conditions) : b = [a EXCEPT !.conditions = x]
        \/ \E x : b = [a EXCEPT !.sessions = x]
        \/ \E x : b = [a EXCEPT !.issuer = x]
        \/ \E x \in Int : b = [a EXCEPT !.issued = x]
        \/ \E x : b = [a EXCEPT !.attributes = x]
    <2> DEFINE late == a.issued + 2
               early == a.issued - 3
    <2>1. \/ \E x \in OtherSubjects(a.subject) : b = [a EXCEPT !.subject = x]
          \/ \E x \in OtherConditions(a.conditions) : b = [a EXCEPT !.conditions = x]
          \/ \E x \in {<< >>, <<Absent>>, <<0>>} : b = [a EXCEPT !.sessions = x]
          \/ b = [a EXCEPT !.issuer = Stranger]
          \/ b = [a EXCEPT !.issued = late] \/ b = [a EXCEPT !.issued = early]
          \/ b = [a EXCEPT !.attributes = {Stranger}]
      BY DEF OtherAssertions
    <2>2. late \in Int /\ early \in Int
      BY DEF Whole
    <2> HIDE DEF late, early
    <2>3. QED
      BY <2>1, <2>2, Zenon
  <1>8. QED
    BY <1>1, <1>2, <1>3, <1>4, <1>5, <1>6, <1>7

LEMMA AnotherAssertion ==
  ASSUME NEW a, IsAssertion(a), NEW i, NEW s
  PROVE  LET b == Another(a, i, s) IN
         /\ IsAssertion(b) /\ b.id = i /\ b.sig = Absent /\ b.issued = a.issued
         /\ b.conditions = a.conditions
  <1> DEFINE x == {Stranger}
             b == Another(a, i, s)
  <1>1. b = [a EXCEPT !.id = i, !.sig = Absent, !.sessions = s, !.attributes = x]
    BY DEF Another
  <1> HIDE DEF b, x
  <1>2. /\ IsAssertion(b) /\ b.id = i /\ b.sig = Absent /\ b.issued = a.issued
        /\ b.conditions = a.conditions
    BY <1>1 DEF IsAssertion
  <1>3. QED
    BY <1>2 DEF b

LEMMA SecondAssertionsTimed ==
  ASSUME NEW a, Whole(a), NEW pair \in SecondAssertions(a)
  PROVE  \E b : /\ pair = <<a, b>> /\ Timed(a) /\ Timed(b)
                /\ b.sig = Absent /\ b.id \in {a.id, a.id + site.responses}
                /\ b.issued = a.issued /\ b.conditions = a.conditions
  <1>1. PICK i \in {a.id, a.id + site.responses}, s \in {a.sessions, << >>} :
          pair = <<a, Another(a, i, s)>>
    <2> DEFINE ids == {a.id, a.id + site.responses}
               lists == {a.sessions, << >>}
    <2>1. pair \in {<<a, Another(a, i, s)>> : i \in ids, s \in lists}
      BY DEF SecondAssertions
    <2> HIDE DEF ids, lists
    <2>2. \E i \in ids, s \in lists : pair = <<a, Another(a, i, s)>>
      BY <2>1, SMT
    <2>3. QED
      BY <2>2 DEF ids, lists
  <1> DEFINE b == Another(a, i, s)
  <1>2. IsAssertion(a)
    BY DEF Whole
  <1>3. /\ IsAssertion(b) /\ b.id = i /\ b.sig = Absent /\ b.issued = a.issued
        /\ b.conditions = a.conditions
    BY <1>2, AnotherAssertion
  <1> HIDE DEF b
  <1>4. Timed(a) /\ Timed(b)
    BY <1>3 DEF Whole, Timed
  <1>5. QED
    BY <1>1, <1>3, <1>4 DEF b

LEMMA VariationsVary ==
  ASSUME NEW r, IsResponse(r), NEW v \in Variations(r),
         r.assertions = << >> \/ \E a : r.assertions = <<a>> /\ Whole(a)
  PROVE  Varies(v, r)
  <1>1. ASSUME IsResponse(v), v.sig = r.sig, v.id = r.id, v.assertions = r.assertions
        PROVE  Varies(v, r)
    <2>1. CASE r.assertions = << >>
      BY <1>1, <2>1 DEF Varies
    <2>2. ASSUME NEW a, r.assertions = <<a>>, Whole(a) PROVE Varies(v, r)
      <3>1. Timed(a)
        BY <2>2 DEF Whole, Timed
      <3>2. DOMAIN v.assertions = {1} /\ v.assertions[1] = a
        BY <1>1, <2>2
      <3>3. QED
        BY <1>1, <2>2, <3>1, <3>2 DEF Varies
    <2>3. QED
      BY <2>1, <2>2
  <1>2. CASE v \in OtherFields(r)
    <2> DEFINE dest == [r.destination EXCEPT !.slash = TRUE]
    <2>1. \/ \E x : v = [r EXCEPT !.destination = x]
          \/ \E x : v = [r EXCEPT !.issuerFormat = x]
          \/ \E x : v = [r EXCEPT !.irt = x]
          \/ \E x : v = [r EXCEPT !.success = x]
          \/ v = [r EXCEPT !.assertions = << >>]
      <3>1. \/ \E x \in {Absent, Url("elsewhere"), dest} : v = [r EXCEPT !.destination = x]
            \/ \E x \in {Absent, "email"} : v = [r EXCEPT !.issuerFormat = x]
            \/ \E x \in {Absent, Stranger} : v = [r EXCEPT !.irt = x]
            \/ v = [r EXCEPT !.success = FALSE]
            \/ v = [r EXCEPT !.assertions = << >>]
        BY <1>2 DEF OtherFields
      <3> HIDE DEF dest
      <3>2. QED
        BY <3>1, Zenon
    <2>2. ASSUME NEW x, v = [r EXCEPT !.destination = x] PROVE Varies(v, r)
      BY <1>1, <2>2 DEF IsResponse
    <2>3. ASSUME NEW x, v = [r EXCEPT !.issuerFormat = x] PROVE Varies(v, r)
      BY <1>1, <2>3 DEF IsResponse
    <2>4. ASSUME NEW x, v = [r EXCEPT !.irt = x] PROVE Varies(v, r)
      BY <1>1, <2>4 DEF IsResponse
    <2>5. ASSUME NEW x, v = [r EXCEPT !.success = x] PROVE Varies(v, r)
      BY <1>1, <2>5 DEF IsResponse
    <2>6. CASE v = [r EXCEPT !.assertions = << >>]
      <3>1. IsResponse(v) /\ v.sig = r.sig /\ v.id = r.id /\ v.assertions = << >>
        BY <2>6 DEF IsResponse
      <3>2. QED
        BY <3>1 DEF Varies
    <2>7. QED
      BY <2>1, <2>2, <2>3, <2>4, <2>5, <2>6
  <1>3. CASE v \notin OtherFields(r)
    <2>1. PICK a : r.assertions = <<a>> /\ Whole(a)
      BY <1>3 DEF Variations
    <2>2. r.assertions[1] = a /\ r.assertions # << >>
      BY <2>1
    <2>3. \/ \E b \in OtherAssertions(a) : v = [r EXCEPT !.assertions = <<b>>]
          \/ \E pair \in SecondAssertions(a) : v = [r EXCEPT !.assertions = pair]
      BY <1>3, <2>2 DEF Variations
    <2>4. ASSUME NEW b \in OtherAssertions(a), v = [r EXCEPT !.assertions = <<b>>]
          PROVE  Varies(v, r)
      <3> DEFINE list == <<b>>
      <3>1. Timed(b) /\ b.sig = a.sig /\ b.id = a.id
        BY <2>1, OtherAssertionsTimed
      <3>2. DOMAIN list = {1} /\ list[1] = b
        OBVIOUS
      <3> HIDE DEF list
      <3>3. v = [r EXCEPT !.assertions = list]
        BY <2>4 DEF list
      <3>4. IsResponse(v) /\ v.sig = r.sig /\ v.id = r.id /\ v.assertions = list
        BY <3>3, WithAssertions
      <3>5. QED
        BY <2>1, <3>1, <3>2, <3>4 DEF Varies
    <2>5. ASSUME NEW pair, v = [r EXCEPT !.assertions = pair], pair \in SecondAssertions(a)
          PROVE  Varies(v, r)
      <3>1. PICK b : /\ pair = <<a, b>> /\ Timed(a) /\ Timed(b)
                     /\ b.sig = Absent /\ b.id \in {a.id, a.id + site.responses}
                     /\ b.issued = a.issued /\ b.conditions = a.conditions
        BY <2>1, <2>5, SecondAssertionsTimed
      <3> DEFINE list == <<a, b>>
      <3>2. DOMAIN list = {1, 2} /\ list[1] = a /\ list[2] = b
        OBVIOUS
      <3> HIDE DEF list
      <3>3. v = [r EXCEPT !.assertions = list]
        BY <2>5, <3>1 DEF list
      <3>4. IsResponse(v) /\ v.sig = r.sig /\ v.id = r.id /\ v.assertions = list
        BY <3>3, WithAssertions
      <3>5. QED
        BY <2>1, <3>1, <3>2, <3>4 DEF Varies
    <2>6. QED
      BY <2>3, <2>4, <2>5
  <1>4. QED
    BY <1>2, <1>3

-----------------------------------------------------------------------------
(* What circulates was made by the IdP, or is what became of it.            *)

\* r is what the library or another implementation signs and sends.
Sending(origin, r) ==
  /\ IsResponse(r) /\ r.sig = Absent /\ r.id = NextAssertion
  /\ Room \/ wire = {}
  /\ r.assertions = << >> \/ 1 \in DOMAIN r.assertions
  /\ \A i \in DOMAIN r.assertions :
       /\ Timed(r.assertions[i]) /\ r.assertions[i].sig = Absent
       /\ \/ Room /\ r.assertions[i].id = NextAssertion
          \/ wire = {} /\ r.assertions[i].id \in {1, 1 + site.responses}
  /\ \A i, j \in DOMAIN r.assertions :
       /\ r.assertions[i].issued = r.assertions[j].issued
       /\ r.assertions[i].conditions = r.assertions[j].conditions
  /\ origin = "own" => r.assertions = << >> \/ \E a : r.assertions = <<a>> /\ Whole(a)
  /\ origin # "damaged"
  /\ \E x, y : wire' = wire \union {Message(origin, SignResponse(r, x, y))}
  /\ issued' = issued \union {r.assertions[i] : i \in DOMAIN r.assertions}
  /\ UNCHANGED <<site, now, request, pending, processed, seen, owner, deliveries>>

\* Every message is as its origin says; a signature covers what the IdP made.
Circulating(m, made, ids) ==
  LET r == m.response
  IN /\ IsResponse(r) /\ r.id \in ids
     /\ r.assertions = << >> \/ 1 \in DOMAIN r.assertions
     /\ \A i \in DOMAIN r.assertions :
          /\ Timed(r.assertions[i])
          /\ r.assertions[i].sig # Absent => r.assertions[i].sig.over \in made
     /\ r.sig # Absent /\ r.sig.over = Unsigned(r) =>
          /\ m.origin # "damaged"
          /\ \A i \in DOMAIN r.assertions : Unsigned(r.assertions[i]) \in made
     /\ m.origin = "own" =>
          /\ r.sig # Absent => r.sig.over = Unsigned(r)
          /\ r.assertions = << >> \/ \E a : r.assertions = <<a>> /\ Whole(a)

WireInv ==
  /\ IsFiniteSet(wire)
  /\ \A m \in wire : Circulating(m, issued, 1..Cardinality(wire))

\* An assertion's ID says when it was made and until when it holds.
IssuedInv ==
  /\ wire = {} => issued = {}
  /\ \A b \in issued :
       /\ Timed(b) /\ b.sig = Absent
       /\ b.id \in 1..Cardinality(wire) \/ b.id = 1 + site.responses
  /\ \A a, b \in issued : a.id = b.id => a.issued = b.issued /\ a.conditions = b.conditions

LEMMA OwnIsSent ==
  ASSUME TypeInv, NEW r, Answering(r) PROVE Sending("own", r)
  <1>1. CASE r.assertions = << >>
    BY <1>1 DEF Answering, Sending
  <1>2. ASSUME NEW a, r.assertions = <<a>>, Whole(a), a.sig = Absent, a.id = NextAssertion
        PROVE  Sending("own", r)
    <2>1. DOMAIN r.assertions = {1} /\ r.assertions[1] = a /\ Timed(a)
      BY <1>2 DEF Whole, Timed
    <2>2. QED
      BY <1>2, <2>1 DEF Answering, Sending
  <1>3. QED
    BY <1>1, <1>2 DEF Answering

LEMMA OtherwiseIsSent ==
  ASSUME TypeInv, RespondOtherwise PROVE \E r : Sending("peer", r)
  <1>0. PICK u \in Users : \E v \in Variations(About(u, processed.id, processed.acsUrl)) :
          Answer("peer", v)
    BY DEF RespondOtherwise
  <1>1. PICK v \in Variations(About(u, processed.id, processed.acsUrl)) : Answer("peer", v)
    BY <1>0
  <1> DEFINE r == About(u, processed.id, processed.acsUrl)
  <1>2. /\ IsResponse(r) /\ r.sig = Absent /\ r.id = NextAssertion
        /\ \E a : r.assertions = <<a>> /\ Whole(a) /\ a.sig = Absent /\ a.id = NextAssertion
    BY AboutIsWhole
  <1>3. v \in Variations(r)
    BY <1>1
  <1>4. wire = {} /\ NextAssertion = 1
    BY FS_EmptySet DEF RespondOtherwise, NextAssertion
  <1> HIDE DEF r
  <1>5. Varies(v, r)
    BY <1>2, <1>3, VariationsVary
  <1>6. PICK a : r.assertions = <<a>> /\ a.sig = Absent /\ a.id = 1
    BY <1>2, <1>4
  <1>7. \A i \in DOMAIN v.assertions :
          /\ Timed(v.assertions[i]) /\ v.assertions[i].sig = Absent
          /\ v.assertions[i].id \in {1, 1 + site.responses}
    <2> SUFFICES ASSUME NEW i \in DOMAIN v.assertions
                 PROVE  /\ Timed(v.assertions[i]) /\ v.assertions[i].sig = Absent
                        /\ v.assertions[i].id \in {1, 1 + site.responses}
      OBVIOUS
    <2>1. PICK b : /\ r.assertions = <<b>> /\ Timed(v.assertions[i])
                   /\ v.assertions[i].sig \in {Absent, b.sig}
                   /\ v.assertions[i].id \in {b.id, b.id + site.responses}
      BY <1>5 DEF Varies
    <2>2. a = b
      BY <1>6, <2>1
    <2>3. QED
      BY <1>6, <2>1, <2>2
  <1>8. /\ IsResponse(v) /\ v.sig = Absent /\ v.id = NextAssertion
        /\ v.assertions = << >> \/ 1 \in DOMAIN v.assertions
        /\ \A i, j \in DOMAIN v.assertions :
             /\ v.assertions[i].issued = v.assertions[j].issued
             /\ v.assertions[i].conditions = v.assertions[j].conditions
    BY <1>2, <1>5 DEF Varies
  <1>9. /\ \E x, y : wire' = wire \union {Message("peer", SignResponse(v, x, y))}
        /\ issued' = issued \union {v.assertions[i] : i \in DOMAIN v.assertions}
        /\ UNCHANGED <<site, now, request, pending, processed, seen, owner, deliveries>>
    BY <1>1 DEF Answer, Send
  <1>10. Sending("peer", v)
    BY <1>4, <1>7, <1>8, <1>9 DEF Sending
  <1>11. QED
    BY <1>10

\* Signing gives a message that circulates, and covers what is on record as made.
LEMMA SignedCirculates ==
  ASSUME TypeInv, NEW origin, NEW r, Sending(origin, r), NEW x, NEW y
  PROVE  Circulating(Message(origin, SignResponse(r, x, y)), issued', {NextAssertion})
  <1> DEFINE s == SignResponse(r, x, y)
  <1>1. SignedInto(s, r)
    BY SignResponseMakes DEF Sending
  <1> HIDE DEF s
  <1>2. IsResponse(s) /\ s.id = NextAssertion /\ DOMAIN s.assertions = DOMAIN r.assertions
    BY <1>1 DEF SignedInto, SameBut, Sending
  <1>3. s.assertions = << >> \/ 1 \in DOMAIN s.assertions
    BY <1>1, <1>2 DEF SignedInto, Sending
  <1>4. ASSUME NEW i \in DOMAIN s.assertions
        PROVE  /\ Timed(s.assertions[i]) /\ Unsigned(s.assertions[i]) \in issued'
               /\ s.assertions[i].sig # Absent => s.assertions[i].sig.over \in issued'
    <2> DEFINE a == r.assertions[i]
    <2>1. Timed(a) /\ a.sig = Absent /\ a \in issued' /\ s.assertions[i] \in {a, Signed(a)}
      BY <1>1, <1>2, <1>4 DEF Sending, SignedInto
    <2> HIDE DEF a
    <2>2. IsAssertion(a)
      BY <2>1 DEF Timed
    <2>3. Unsigned(a) = a
      BY <2>1, <2>2, UnsignedAssertion
    <2>4. /\ IsAssertion(Signed(a)) /\ Signed(a).issued = a.issued
          /\ Signed(a).conditions = a.conditions /\ Unsigned(Signed(a)) = a
          /\ Signed(a).sig = [key |-> site.idpKey, over |-> a]
      BY <2>2, <2>3, SignedAssertion
    <2>5. Timed(Signed(a)) /\ Signed(a).sig.over = a
      BY <2>1, <2>4 DEF Timed
    <2>6. QED
      BY <2>1, <2>3, <2>4, <2>5
  <1>5. s.sig # Absent => s.sig.over = Unsigned(s)
    BY <1>1 DEF SignedInto
  <1>6. origin = "own" => s.assertions = << >> \/ \E a : s.assertions = <<a>> /\ Whole(a)
    <2> SUFFICES ASSUME NEW a, r.assertions = <<a>>, Whole(a)
                 PROVE  \E b : s.assertions = <<b>> /\ Whole(b)
      BY <1>1 DEF Sending, SignedInto
    <2>1. s.assertions \in {<<a>>, <<Signed(a)>>}
      BY <1>1 DEF SignedInto
    <2>2. IsAssertion(a)
      BY DEF Whole
    <2>3. /\ IsAssertion(Signed(a)) /\ Signed(a).issued = a.issued
          /\ Signed(a).conditions = a.conditions
      BY <2>2, SignedAssertion
    <2>4. Whole(Signed(a))
      BY <2>3 DEF Whole
    <2>5. QED
      BY <2>1, <2>4
  <1>7. origin # "damaged"
    BY DEF Sending
  <1> DEFINE m == Message(origin, s)
  <1>8. m.response = s /\ m.origin = origin
    BY DEF Message
  <1> HIDE DEF m
  <1>9. Circulating(m, issued', {NextAssertion})
    BY <1>2, <1>3, <1>4, <1>5, <1>6, <1>7, <1>8 DEF Circulating
  <1>10. QED
    BY <1>9 DEF m, s

LEMMA StillCirculating ==
  ASSUME NEW m, NEW made, NEW ids, Circulating(m, made, ids),
         NEW made2, made \subseteq made2, NEW ids2, ids \subseteq ids2
  PROVE  Circulating(m, made2, ids2)
  BY DEF Circulating

\* A new message has an ID of its own.
LEMMA SendingAdds ==
  ASSUME TypeInv, WireInv, NEW origin, NEW r, Sending(origin, r)
  PROVE  /\ Cardinality(wire) \in Nat /\ Cardinality(wire') = Cardinality(wire) + 1
         /\ WireInv'
  <1>1. PICK x, y : wire' = wire \union {Message(origin, SignResponse(r, x, y))}
    BY DEF Sending
  <1> DEFINE m == Message(origin, SignResponse(r, x, y))
             n == Cardinality(wire)
  <1>2. Circulating(m, issued', {NextAssertion})
    BY SignedCirculates
  <1>3. wire' = wire \union {m} /\ NextAssertion = n + 1
    BY <1>1 DEF NextAssertion
  <1>4. issued \subseteq issued'
    BY DEF Sending
  <1> HIDE DEF m
  <1>5. IsFiniteSet(wire) /\ n \in Nat
    BY FS_CardinalityType DEF WireInv
  <1>6. m.response.id = n + 1
    BY <1>2, <1>3 DEF Circulating
  <1>7. m \notin wire
    <2> SUFFICES ASSUME m \in wire PROVE FALSE
      OBVIOUS
    <2>1. m.response.id \in 1..n
      BY DEF WireInv, Circulating
    <2>2. QED
      BY <1>5, <1>6, <2>1
  <1>8. IsFiniteSet(wire') /\ Cardinality(wire') = n + 1
    BY <1>3, <1>5, <1>7, FS_AddElement
  <1> HIDE DEF n
  <1>9. 1..n \subseteq 1..(n + 1) /\ {NextAssertion} \subseteq 1..(n + 1)
    BY <1>3, <1>5
  <1>10. ASSUME NEW k \in wire' PROVE Circulating(k, issued', 1..(n + 1))
    <2>1. CASE k \in wire
      <3>1. Circulating(k, issued, 1..n)
        BY <2>1 DEF WireInv, n
      <3>2. QED
        BY <1>4, <1>9, <3>1, StillCirculating
    <2>2. CASE k = m
      <3>1. issued' \subseteq issued'
        OBVIOUS
      <3>2. QED
        BY <1>2, <1>9, <2>2, <3>1, StillCirculating
    <2>3. QED
      BY <1>3, <2>1, <2>2
  <1>11. WireInv'
    BY <1>8, <1>10 DEF WireInv
  <1>12. QED
    BY <1>5, <1>8, <1>11 DEF n

\* Damage leaves the signatures, which then cover something else.
LEMMA DamageCirculates ==
  ASSUME TypeInv, WireInv, Damage PROVE WireInv'
  <1>1. PICK m \in wire : /\ m.origin = "own"
                          /\ \E v \in Variations(m.response) \ {m.response} :
                               wire' = {Message("damaged", v)}
    BY DEF Damage
  <1>2. PICK v \in Variations(m.response) : v # m.response /\ wire' = {Message("damaged", v)}
    BY <1>1
  <1> DEFINE r == m.response
             k == Message("damaged", v)
  <1>3. issued' = issued /\ Cardinality(wire) = 1
    BY DEF Damage
  <1>4. Circulating(m, issued, 1..1)
    BY <1>3 DEF WireInv
  <1>5. /\ IsResponse(r) /\ r.id \in 1..1
        /\ r.sig # Absent => r.sig.over = Unsigned(r)
        /\ r.assertions = << >> \/ \E a : r.assertions = <<a>> /\ Whole(a)
    BY <1>1, <1>4 DEF Circulating
  <1>6. \A i \in DOMAIN r.assertions :
          r.assertions[i].sig # Absent => r.assertions[i].sig.over \in issued
    BY <1>4 DEF Circulating
  <1>7. v \in Variations(r) /\ v # r
    BY <1>2
  <1>8. k.response = v /\ k.origin = "damaged" /\ wire' = {k}
    BY <1>2 DEF Message
  <1> HIDE DEF r, k
  <1>9. Varies(v, r)
    BY <1>5, <1>7, VariationsVary
  <1>10. ASSUME v.sig # Absent PROVE v.sig.over # Unsigned(v)
    <2>1. IsResponse(v) /\ v.sig = r.sig
      BY <1>9 DEF Varies
    <2>2. Unsigned(v) # Unsigned(r)
      <3> SUFFICES ASSUME Unsigned(v) = Unsigned(r) PROVE FALSE
        OBVIOUS
      <3> DEFINE uv == Unsigned(v)
                 ur == Unsigned(r)
      <3>1. SameBut(uv, v) /\ uv.assertions = v.assertions
        BY <2>1, UnsignedResponse
      <3>2. SameBut(ur, r) /\ ur.assertions = r.assertions
        BY <1>5, UnsignedResponse
      <3> HIDE DEF uv, ur
      <3>3. uv = ur
        BY DEF uv, ur
      <3>4. SameBut(v, r) /\ v.assertions = r.assertions
        BY <3>1, <3>2, <3>3 DEF SameBut
      <3>5. v = r
        BY <1>5, <2>1, <3>4 DEF IsResponse, SameBut
      <3>6. QED
        BY <1>7, <3>5
    <2>3. QED
      BY <1>5, <1>10, <2>1, <2>2
  <1>11. ASSUME NEW i \in DOMAIN v.assertions
         PROVE  /\ Timed(v.assertions[i])
                /\ v.assertions[i].sig # Absent => v.assertions[i].sig.over \in issued
    <2>1. PICK a : /\ r.assertions = <<a>> /\ Timed(v.assertions[i])
                   /\ v.assertions[i].sig \in {Absent, a.sig}
      BY <1>9 DEF Varies
    <2>2. 1 \in DOMAIN r.assertions /\ r.assertions[1] = a
      BY <2>1
    <2>3. a.sig # Absent => a.sig.over \in issued
      BY <1>6, <2>2
    <2>4. QED
      BY <2>1, <2>3
  <1>12. IsResponse(v) /\ v.id = r.id /\ (v.assertions = << >> \/ 1 \in DOMAIN v.assertions)
    BY <1>9 DEF Varies
  <1>13. Circulating(k, issued, 1..1)
    BY <1>5, <1>8, <1>10, <1>11, <1>12 DEF Circulating
  <1>14. IsFiniteSet(wire') /\ Cardinality(wire') = 1
    BY <1>8, FS_Singleton
  <1>15. QED
    BY <1>3, <1>8, <1>13, <1>14 DEF WireInv

LEMMA SendingIsRecorded ==
  ASSUME TypeInv, WireInv, IssuedInv, NEW origin, NEW r, Sending(origin, r)
  PROVE  IssuedInv'
  <1> DEFINE n == Cardinality(wire)
             new == {r.assertions[i] : i \in DOMAIN r.assertions}
  <1>1. /\ n \in Nat /\ Cardinality(wire') = n + 1
    BY SendingAdds
  <1>2. wire' # {} /\ issued' = issued \union new /\ site' = site
    BY DEF Sending
  <1>3. /\ Room => n < site.responses
        /\ NextAssertion = n + 1 /\ (wire = {} => n = 0)
    BY FS_EmptySet DEF Room, NextAssertion
  <1>4. site.responses \in Nat
    BY WebSsoAssumption DEF TypeInv
  <1>5. \A b \in new : /\ Timed(b) /\ b.sig = Absent
                       /\ \/ Room /\ b.id = n + 1
                          \/ wire = {} /\ b.id \in {1, 1 + site.responses}
    BY <1>3 DEF Sending
  <1>6. \A a, b \in new : a.issued = b.issued /\ a.conditions = b.conditions
    BY DEF Sending
  <1> HIDE DEF n, new
  <1>7. \A b \in issued : /\ Timed(b) /\ b.sig = Absent
                          /\ b.id \in 1..n \/ b.id = 1 + site.responses
    BY DEF IssuedInv, n
  <1>8. ASSUME NEW b \in issued'
        PROVE  /\ Timed(b) /\ b.sig = Absent
               /\ b.id \in 1..(n + 1) \/ b.id = 1 + site.responses
    <2>1. CASE b \in issued
      BY <1>1, <1>7, <2>1
    <2>2. CASE b \in new
      BY <1>1, <1>3, <1>5, <2>2
    <2>3. QED
      BY <1>2, <2>1, <2>2
  <1>9. ASSUME NEW a \in issued, NEW b \in new PROVE a.id # b.id
    <2>1. wire # {} /\ Room /\ b.id = n + 1
      BY <1>5, <1>9 DEF IssuedInv
    <2>2. n < site.responses
      BY <1>3, <2>1
    <2>3. a.id \in 1..n \/ a.id = 1 + site.responses
      BY <1>7
    <2>4. QED
      BY <1>1, <1>4, <2>1, <2>2, <2>3
  <1>10. ASSUME NEW a \in issued', NEW b \in issued', a.id = b.id
         PROVE  a.issued = b.issued /\ a.conditions = b.conditions
    <2>1. CASE a \in issued /\ b \in issued
      BY <1>10, <2>1 DEF IssuedInv
    <2>2. CASE a \in new /\ b \in new
      BY <1>6, <2>2
    <2>3. QED
      BY <1>2, <1>9, <1>10, <2>1, <2>2
  <1>11. QED
    BY <1>1, <1>2, <1>8, <1>10 DEF IssuedInv

LEMMA WireStep ==
  TypeInv /\ WireInv /\ IssuedInv /\ [Next]_vars => WireInv' /\ IssuedInv'
  <1> SUFFICES ASSUME TypeInv, WireInv, IssuedInv, [Next]_vars PROVE WireInv' /\ IssuedInv'
    OBVIOUS
  <1>1. CASE Respond \/ RespondEncrypted \/ RespondUnsolicited \/ Deny
    BY <1>1, OwnAnswers, OwnIsSent, SendingAdds, SendingIsRecorded
  <1>2. CASE RespondOtherwise
    BY <1>2, OtherwiseIsSent, SendingAdds, SendingIsRecorded
  <1>3. CASE Damage
    <2>1. WireInv'
      BY <1>3, DamageCirculates
    <2>2. issued' = issued /\ site' = site /\ Cardinality(wire) = 1 /\ wire' # {}
      BY <1>3 DEF Damage
    <2>3. Cardinality(wire') = 1
      BY <1>3, FS_Singleton DEF Damage
    <2>4. QED
      BY <2>1, <2>2, <2>3 DEF IssuedInv
  <1>4. CASE SpLogin \/ ReadRequest \/ DeliverToAcs \/ Validate \/ Tick \/ UNCHANGED vars
    <2>1. UNCHANGED <<site, wire, issued>>
      BY <1>4 DEF SpLogin, ReadRequest, DeliverToAcs, Validate, Tick, vars
    <2>2. QED
      BY <2>1 DEF WireInv, IssuedInv
  <1>5. QED
    BY <1>1, <1>2, <1>3, <1>4 DEF Next

-----------------------------------------------------------------------------
(* What a response that nothing fails has.                                  *)

Passes(a, i, r, p, c, s, o) ==
  /\ a.issuer = p.idp /\ SignatureOk(a, p, c) /\ AgeOk(a, p, c)
  /\ p.cache /\ ~Replayed(r, i, p, c, s) /\ PersistentIdOk(a, p, c, o)
  /\ FailedConditions(a.conditions, p, c) = {}

LEMMA NothingFails ==
  ASSUME NEW r, NEW p, NEW c, NEW s, NEW o, Failures(r, p, c, s, o) = {}
  PROVE  /\ InResponseToOk(r.irt, p, c) /\ ResponseSignatureOk(r, p, c)
         /\ r.assertions # << >>
         /\ \A i \in DOMAIN r.assertions : Passes(r.assertions[i], i, r, p, c, s, o)
  <1>1. /\ FailedOfResponse(r, p, c) = {}
        /\ \A i \in DOMAIN r.assertions : FailedOfAssertion(r, i, p, c, s, o) = {}
    BY DEF Failures
  <1>2. /\ 3 \notin FailedOfResponse(r, p, c) /\ 4 \notin FailedOfResponse(r, p, c)
        /\ 34 \notin FailedOfResponse(r, p, c)
    BY <1>1
  <1>3. InResponseToOk(r.irt, p, c) /\ ResponseSignatureOk(r, p, c) /\ r.assertions # << >>
    BY <1>2 DEF FailedOfResponse
  <1>4. ASSUME NEW i \in DOMAIN r.assertions
        PROVE  Passes(r.assertions[i], i, r, p, c, s, o)
    <2> DEFINE a == r.assertions[i]
               own == {n \in {5, 6, 20, 26, 35} :
                         \/ n = 5 /\ a.issuer # p.idp
                         \/ n = 6 /\ ~SignatureOk(a, p, c)
                         \/ n = 20 /\ (~p.cache \/ Replayed(r, i, p, c, s))
                         \/ n = 26 /\ ~PersistentIdOk(a, p, c, o)
                         \/ n = 35 /\ ~AgeOk(a, p, c)}
    <2>1. own = {} /\ FailedConditions(a.conditions, p, c) = {}
      BY <1>1 DEF FailedOfAssertion
    <2>2. 5 \notin own /\ 6 \notin own /\ 20 \notin own /\ 26 \notin own /\ 35 \notin own
      BY <2>1
    <2>3. QED
      BY <2>1, <2>2 DEF Passes
  <1>5. QED
    BY <1>3, <1>4

LEMMA ConditionsHold ==
  ASSUME NEW k, NEW p, NEW c, FailedConditions(k, p, c) = {}
  PROVE  /\ k # Absent /\ k.audiences # {} /\ AudiencesAllow(k.audiences, p.sp)
         /\ k.until # Absent => NotOnOrAfterValid(p.now, k.until, c)
  <1>1. k # Absent
    BY DEF FailedConditions
  <1>2. 10 \notin FailedConditions(k, p, c) /\ 11 \notin FailedConditions(k, p, c)
    OBVIOUS
  <1>3. QED
    BY <1>1, <1>2 DEF FailedConditions

-----------------------------------------------------------------------------
(* The two ways in which a response is taken: by the ready handler, and by an *)
(* application that calls the validator itself.                             *)

Taking(d, p) ==
  LET m == d.message
      r == m.response
      c == site.security
  IN /\ m \in wire /\ d.at = now
     /\ deliveries' = Append(deliveries, d)
     /\ UNCHANGED <<site, now, request, processed, wire, issued>>
     /\ p.now = now /\ p.idp = Idp /\ p.sp = Sp /\ p.request = d.expected
     /\ d.expected \in {pending, Absent}
     /\ p.verified = VerifiedAssertions(r) /\ p.responseVerified = ResponseVerified(r)
     /\ seen' \in {seen, SeenAfter(r, p, c, seen)}
     /\ owner' \in {owner, OwnerAfter(r, p, c, owner)}
     /\ d.verdict \in {"accepted", "valid"} =>
          /\ SignaturesPass(r, c) /\ Failures(r, p, c, seen, owner) = {}
          /\ seen' = SeenAfter(r, p, c, seen)
     /\ d.verdict = "valid" => p.principal = d.principal /\ owner' = OwnerAfter(r, p, c, owner)

LEMMA DeliverTakes ==
  ASSUME DeliverToAcs PROVE \E d, p : Taking(d, p)
  <1>1. PICK m \in wire :
          LET r == m.response
              expected == Expected(r)
              verdict == Verdict(r, expected, site.security)
              validated == verdict \in {"invalid", "accepted", "nameless"}
          IN /\ deliveries' = Append(deliveries, Delivery(m, verdict, expected, Absent))
             /\ seen' = IF validated THEN SeenAfter(r, Params(r, expected), site.security, seen) ELSE seen
    BY DEF DeliverToAcs
  <1> DEFINE r == m.response
             expected == Expected(r)
             c == site.security
             verdict == Verdict(r, expected, c)
             p == Params(r, expected)
             d == Delivery(m, verdict, expected, Absent)
  <1>2. UNCHANGED <<site, now, request, processed, wire, issued, owner>>
    BY DEF DeliverToAcs
  <1>3. /\ p.now = now /\ p.idp = Idp /\ p.sp = Sp /\ p.request = expected
        /\ p.verified = VerifiedAssertions(r) /\ p.responseVerified = ResponseVerified(r)
    BY DEF Params
  <1>4. expected \in {pending, Absent}
    BY DEF Expected
  <1>5. /\ verdict # "valid"
        /\ verdict = "accepted" => SignaturesPass(r, c) /\ Failures(r, p, c, seen, owner) = {}
    BY DEF Verdict
  <1>6. /\ d.message = m /\ d.at = now /\ d.verdict = verdict /\ d.expected = expected
    BY DEF Delivery
  <1>7. /\ deliveries' = Append(deliveries, d)
        /\ seen' \in {seen, SeenAfter(r, p, c, seen)}
        /\ verdict = "accepted" => seen' = SeenAfter(r, p, c, seen)
    BY <1>1
  <1> HIDE DEF p, d, verdict, expected
  <1>8. Taking(d, p)
    BY <1>2, <1>3, <1>4, <1>5, <1>6, <1>7 DEF Taking
  <1>9. QED
    BY <1>8

LEMMA ValidateTakes ==
  ASSUME WireInv, Validate PROVE \E d, p : Taking(d, p)
  <1>1. PICK m \in wire, principal \in Users \union {Absent} :
          LET r == m.response
              p == [Params(r, pending) EXCEPT
                      !.client = site.call.client, !.relay = site.call.relay,
                      !.depth = site.call.depth, !.sigXml = site.call.sigXml,
                      !.cache = site.call.cache, !.principal = principal]
              failed == Failures(r, p, site.security, seen, owner)
          IN /\ SignaturesPass(r, site.security)
             /\ deliveries' = Append(deliveries, Delivery(m,
                  IF failed = {} THEN "valid" ELSE "invalid", pending, principal))
             /\ seen' = IF p.cache THEN SeenAfter(r, p, site.security, seen) ELSE seen
             /\ owner' = OwnerAfter(r, p, site.security, owner)
    BY DEF Validate
  <1> DEFINE r == m.response
             c == site.security
             b == Params(r, pending)
             p == [b EXCEPT !.client = site.call.client, !.relay = site.call.relay,
                            !.depth = site.call.depth, !.sigXml = site.call.sigXml,
                            !.cache = site.call.cache, !.principal = principal]
             verdict == IF Failures(r, p, c, seen, owner) = {} THEN "valid" ELSE "invalid"
             d == Delivery(m, verdict, pending, principal)
  <1>2. UNCHANGED <<site, now, request, processed, wire, issued>>
    BY DEF Validate
  <1>3. /\ p.now = now /\ p.idp = Idp /\ p.sp = Sp /\ p.request = pending
        /\ p.verified = VerifiedAssertions(r) /\ p.responseVerified = ResponseVerified(r)
        /\ p.principal = principal
    BY DEF Params
  <1>4. /\ d.message = m /\ d.at = now /\ d.verdict = verdict /\ d.expected = pending
        /\ d.principal = principal
    BY DEF Delivery
  <1>5. /\ SignaturesPass(r, c) /\ deliveries' = Append(deliveries, d)
        /\ seen' = IF p.cache THEN SeenAfter(r, p, c, seen) ELSE seen
        /\ owner' = OwnerAfter(r, p, c, owner)
    BY <1>1
  <1> HIDE DEF p, d
  <1>6. ASSUME verdict \in {"accepted", "valid"}
        PROVE  Failures(r, p, c, seen, owner) = {} /\ p.cache
    <2>1. Failures(r, p, c, seen, owner) = {}
      BY <1>6
    <2>2. /\ r.assertions # << >>
          /\ \A i \in DOMAIN r.assertions : Passes(r.assertions[i], i, r, p, c, seen, owner)
      BY <2>1, NothingFails
    <2>3. 1 \in DOMAIN r.assertions
      BY <2>2 DEF WireInv, Circulating
    <2>4. QED
      BY <2>1, <2>2, <2>3 DEF Passes
  <1> HIDE DEF verdict
  <1>7. Taking(d, p)
    BY <1>2, <1>3, <1>4, <1>5, <1>6 DEF Taking
  <1>8. QED
    BY <1>7

\* The deliveries afterwards are those before and one more.
LEMMA OneMore ==
  ASSUME NEW S, NEW q \in Seq(S), NEW e, NEW i \in DOMAIN Append(q, e)
  PROVE  \/ i = Len(q) + 1 /\ Append(q, e)[i] = e
         \/ i \in DOMAIN q /\ Append(q, e)[i] = q[i]
  OBVIOUS

LEMMA TakingAdds ==
  ASSUME TypeInv, NEW d, NEW p, Taking(d, p), NEW i \in DOMAIN deliveries'
  PROVE  \/ i \notin DOMAIN deliveries /\ deliveries'[i] = d
         \/ i \in DOMAIN deliveries /\ deliveries'[i] = deliveries[i]
  <1>1. PICK S : deliveries \in Seq(S)
    BY DEF TypeInv
  <1>2. deliveries' = Append(deliveries, d)
    BY DEF Taking
  <1>3. QED
    BY <1>1, <1>2, OneMore

-----------------------------------------------------------------------------
(* Persistent NameIDs.                                                      *)

\* The store knows whom each persistent NameID was taken over for.
NameInv ==
  \A i \in DOMAIN deliveries :
    LET d == deliveries[i]
        name == PersistentName(d.message.response.assertions[1])
    IN site.security.uniquePersistent /\ d.verdict = "valid" /\ name # Absent =>
         <<name, Sp>> \in DOMAIN owner /\ owner[<<name, Sp>>] = d.principal

\* What is recorded stays; a name that is asked about is recorded, for nobody else.
LEMMA OwnersStay ==
  ASSUME NEW r, NEW p, NEW c, NEW o, NEW k \in DOMAIN o
  PROVE  k \in DOMAIN OwnerAfter(r, p, c, o) /\ OwnerAfter(r, p, c, o)[k] = o[k]
  BY DEF OwnerAfter

LEMMA OwnerRecorded ==
  ASSUME NEW r, NEW p, NEW c, NEW o, 1 \in DOMAIN r.assertions,
         NEW name, name = PersistentName(r.assertions[1]), name # Absent,
         c.uniquePersistent, PersistentIdOk(r.assertions[1], p, c, o)
  PROVE  /\ <<name, p.sp>> \in DOMAIN OwnerAfter(r, p, c, o)
         /\ OwnerAfter(r, p, c, o)[<<name, p.sp>>] = p.principal
  <1> DEFINE k == <<name, p.sp>>
             wanted == {PersistentName(r.assertions[i]) : i \in DOMAIN r.assertions} \ {Absent}
             new == {<<n, p.sp>> : n \in wanted} \ DOMAIN o
  <1>1. p.principal # Absent /\ (k \in DOMAIN o => o[k] = p.principal)
    BY DEF PersistentIdOk
  <1>2. name \in wanted
    OBVIOUS
  <1>3. k \notin DOMAIN o => k \in new
    BY <1>2
  <1>4. OwnerAfter(r, p, c, o)
          = [j \in DOMAIN o \union new |-> IF j \in new THEN p.principal ELSE o[j]]
    BY <1>1 DEF OwnerAfter
  <1> HIDE DEF k, wanted
  <1>5. QED
    BY <1>1, <1>3, <1>4 DEF k

LEMMA NameStep ==
  ASSUME TypeInv, WireInv, NameInv, NEW d, NEW p, Taking(d, p) PROVE NameInv'
  <1> SUFFICES ASSUME NEW i \in DOMAIN deliveries', NEW name,
                      name = PersistentName(deliveries'[i].message.response.assertions[1]),
                      site'.security.uniquePersistent, deliveries'[i].verdict = "valid",
                      name # Absent
               PROVE  /\ <<name, Sp>> \in DOMAIN owner'
                      /\ owner'[<<name, Sp>>] = deliveries'[i].principal
    BY DEF NameInv
  <1>1. site' = site
    BY DEF Taking
  <1>2. CASE i \in DOMAIN deliveries /\ deliveries'[i] = deliveries[i]
    <2> DEFINE k == <<name, Sp>>
    <2>1. k \in DOMAIN owner /\ owner[k] = deliveries'[i].principal
      BY <1>1, <1>2 DEF NameInv
    <2>2. \E r, c : owner' \in {owner, OwnerAfter(r, p, c, owner)}
      BY DEF Taking
    <2> HIDE DEF k
    <2>3. k \in DOMAIN owner' /\ owner'[k] = owner[k]
      BY <2>1, <2>2, OwnersStay
    <2>4. QED
      BY <2>1, <2>3 DEF k
  <1>3. CASE deliveries'[i] = d
    <2> DEFINE r == d.message.response
               c == site.security
    <2>1. /\ Failures(r, p, c, seen, owner) = {} /\ p.sp = Sp /\ p.principal = d.principal
          /\ owner' = OwnerAfter(r, p, c, owner) /\ d.message \in wire
      BY <1>3 DEF Taking
    <2>2. /\ r.assertions # << >>
          /\ \A j \in DOMAIN r.assertions : Passes(r.assertions[j], j, r, p, c, seen, owner)
      BY <2>1, NothingFails
    <2>3. 1 \in DOMAIN r.assertions
      BY <2>1, <2>2 DEF WireInv, Circulating
    <2>4. PersistentIdOk(r.assertions[1], p, c, owner) /\ c.uniquePersistent
      BY <1>1, <2>2, <2>3 DEF Passes
    <2>5. name = PersistentName(r.assertions[1])
      BY <1>3
    <2> HIDE DEF r, c
    <2>6. /\ <<name, p.sp>> \in DOMAIN OwnerAfter(r, p, c, owner)
          /\ OwnerAfter(r, p, c, owner)[<<name, p.sp>>] = p.principal
      BY <2>3, <2>4, <2>5, OwnerRecorded
    <2>7. QED
      BY <1>3, <2>1, <2>6
  <1>4. QED
    BY <1>2, <1>3, TakingAdds

\* The steps that take nothing leave the deliveries and both stores.
LEMMA OthersTakeNothing ==
  ASSUME WireInv, [Next]_vars
  PROVE  \/ \E d, p : Taking(d, p)
         \/ /\ UNCHANGED <<site, seen, owner, deliveries>> /\ issued \subseteq issued'
            /\ now' = now \/ now' = now + 1
  <1>1. CASE DeliverToAcs
    BY <1>1, DeliverTakes
  <1>2. CASE Validate
    BY <1>2, ValidateTakes
  <1>3. CASE ~DeliverToAcs /\ ~Validate
    BY <1>3 DEF Next, vars, SpLogin, ReadRequest, Respond, RespondEncrypted,
       RespondUnsolicited, Deny, RespondOtherwise, Answer, Damage, Tick
  <1>4. QED
    BY <1>1, <1>2, <1>3

-----------------------------------------------------------------------------
(* What is taken over is genuine.                                           *)

LEMMA TakenIsGenuine ==
  ASSUME TypeInv, WireInv, NEW d, NEW p, Taking(d, p), d.verdict \in {"accepted", "valid"}
  PROVE  Genuine(d)
  <1> DEFINE m == d.message
             r == m.response
             c == site.security
  <1>1. /\ p.now = now /\ p.idp = Idp /\ p.sp = Sp /\ p.request = d.expected
        /\ p.verified = VerifiedAssertions(r) /\ p.responseVerified = ResponseVerified(r)
        /\ SignaturesPass(r, c) /\ Failures(r, p, c, seen, owner) = {}
        /\ m \in wire /\ d.at = now /\ d.expected \in {pending, Absent}
    BY DEF Taking
  <1>2. /\ InResponseToOk(r.irt, p, c) /\ ResponseSignatureOk(r, p, c)
        /\ r.assertions # << >>
        /\ \A i \in DOMAIN r.assertions : Passes(r.assertions[i], i, r, p, c, seen, owner)
    BY <1>1, NothingFails
  <1>3. Circulating(m, issued, 1..Cardinality(wire))
    BY <1>1 DEF WireInv
  <1>4. c.skew \in Nat /\ c.maxAge \in Nat /\ now \in Nat /\ Absent \notin Int
    BY WebSsoAssumption DEF TypeInv
  <1>5. \A x : x \in SignedParts(r) => Verifies(x)
    BY <1>1 DEF SignaturesPass
  <1>6. c.signedResponses =>
          /\ m.origin # "damaged"
          /\ \A i \in DOMAIN r.assertions : Unsigned(r.assertions[i]) \in issued
    <2> SUFFICES ASSUME c.signedResponses
                 PROVE  /\ m.origin # "damaged"
                        /\ \A i \in DOMAIN r.assertions : Unsigned(r.assertions[i]) \in issued
      OBVIOUS
    <2>1. r.sig # Absent
      BY <1>2 DEF ResponseSignatureOk
    <2>2. r \in SignedParts(r)
      BY <2>1 DEF SignedParts
    <2>3. r.sig.over = Unsigned(r)
      BY <1>5, <2>2 DEF Verifies
    <2>4. QED
      BY <1>3, <2>1, <2>3 DEF Circulating
  <1>7. ASSUME NEW i \in DOMAIN r.assertions PROVE Meant(r.assertions[i], d)
    <2> DEFINE a == r.assertions[i]
    <2>1. Passes(a, i, r, p, c, seen, owner) /\ Timed(a)
      BY <1>2, <1>3 DEF Circulating
    <2>2. c.signedAssertions => Unsigned(a) \in issued
      <3> SUFFICES ASSUME c.signedAssertions PROVE Unsigned(a) \in issued
        OBVIOUS
      <3>1. a.sig # Absent
        BY <2>1 DEF Passes, SignatureOk
      <3>2. a \in SignedParts(r)
        BY <3>1 DEF SignedParts
      <3>3. a.sig.over = Unsigned(a)
        BY <1>5, <3>2 DEF Verifies
      <3>4. a.sig.over \in issued
        BY <1>3, <3>1 DEF Circulating
      <3>5. QED
        BY <3>3, <3>4
    <2>3. c.signedResponses => Unsigned(a) \in issued
      BY <1>6
    <2> HIDE DEF a
    <2>4. /\ a.issuer = Idp /\ AgeOk(a, p, c) /\ FailedConditions(a.conditions, p, c) = {}
      BY <1>1, <2>1 DEF Passes
    <2> DEFINE k == a.conditions
    <2>5. /\ k # Absent /\ k.audiences # {} /\ AudiencesAllow(k.audiences, p.sp)
          /\ k.until # Absent => NotOnOrAfterValid(p.now, k.until, c)
      BY <2>4, ConditionsHold
    <2>6. a.issued \in Int /\ IsConditions(k)
      BY <2>1, <2>5 DEF Timed
    <2> HIDE DEF k
    <2>7. {Sp} \intersect UNION k.audiences # {}
      BY <1>1, <2>5 DEF AudiencesAllow
    <2>8. k.until # Absent => now < k.until + c.skew
      <3> SUFFICES ASSUME k.until # Absent PROVE now < k.until + c.skew
        OBVIOUS
      <3>1. k.until \in Int
        BY <2>6 DEF IsConditions
      <3>2. now - c.skew < k.until
        BY <1>1, <2>5 DEF NotOnOrAfterValid
      <3> HIDE DEF c
      <3>3. QED
        BY <1>4, <3>1, <3>2 DEF c
    <2>9. now <= a.issued + c.maxAge
      <3>1. now - a.issued <= c.maxAge
        BY <1>1, <2>4 DEF AgeOk, WithinAgeLimit
      <3>2. QED
        BY <1>4, <2>6, <3>1
    <2>10. Meant(a, d)
      BY <1>1, <2>2, <2>3, <2>4, <2>7, <2>8, <2>9 DEF Meant, AsksForSignatures, k
    <2>11. QED
      BY <2>10 DEF a
  <1>8. r.irt = d.expected /\ (c.unsolicited \/ r.irt = RequestId)
    BY <1>1, <1>2 DEF InResponseToOk, TypeInv
  <1>9. QED
    BY <1>6, <1>7, <1>8 DEF Genuine

\* The IdP forgets nothing it made.
LEMMA StaysGenuine ==
  ASSUME NEW d, Genuine(d), site' = site, issued \subseteq issued' PROVE Genuine(d)'
  BY DEF Genuine, Meant, Unsigned, AsksForSignatures

LEMMA GenuineStep ==
  TypeInv /\ WireInv /\ AcceptedIsGenuine /\ [Next]_vars => AcceptedIsGenuine'
  <1> SUFFICES ASSUME TypeInv, WireInv, AcceptedIsGenuine, [Next]_vars
               PROVE  AcceptedIsGenuine'
    OBVIOUS
  <1>1. ASSUME NEW i \in DOMAIN deliveries', NEW e, e = deliveries'[i],
               e.verdict \in {"accepted", "valid"}
        PROVE  Genuine(e)'
    <2>1. CASE \E d, p : Taking(d, p)
      <3>1. PICK d, p : Taking(d, p)
        BY <2>1
      <3>2. site' = site /\ issued' = issued
        BY <3>1 DEF Taking
      <3>3. CASE e = d
        <4>1. Genuine(e)
          BY <1>1, <3>1, <3>3, TakenIsGenuine
        <4>2. QED
          BY <3>2, <4>1, StaysGenuine
      <3>4. CASE i \in DOMAIN deliveries /\ e = deliveries[i]
        <4>1. Genuine(e)
          BY <1>1, <3>4 DEF AcceptedIsGenuine, Accepted
        <4>2. QED
          BY <3>2, <4>1, StaysGenuine
      <3>5. QED
        BY <1>1, <3>1, <3>3, <3>4, TakingAdds
    <2>2. CASE UNCHANGED <<site, deliveries>> /\ issued \subseteq issued'
      <3>1. Genuine(e)
        BY <1>1, <2>2 DEF AcceptedIsGenuine, Accepted
      <3>2. QED
        BY <2>2, <3>1, StaysGenuine
    <2>3. QED
      BY <2>1, <2>2, OthersTakeNothing
  <1>2. QED
    BY <1>1 DEF AcceptedIsGenuine, Accepted, Genuine, Meant, Unsigned, AsksForSignatures

-----------------------------------------------------------------------------
(* The replay cache remembers an assertion for as long as it would be taken. *)

\* When, under c, the assertion a is no longer taken over and may be forgotten.
ExpiryUnder(a, c) ==
  LET age == a.issued + c.maxAge + 1
  IN IF a.conditions = Absent \/ a.conditions.until = Absent THEN age
     ELSE Lesser(a.conditions.until + c.skew, age)

Expiry(a) == ExpiryUnder(a, site.security)

\* The times of an assertion are times.
Dated(a) ==
  a.issued \in Int /\ (a.conditions = Absent \/ a.conditions.until \in Int \union {Absent})

LEMMA TimedIsDated == \A a : Timed(a) => Dated(a)
  BY DEF Timed, Dated, IsConditions

SeenTyped(s) == \A id \in DOMAIN s : s[id] \in Int

Remembered(d) ==
  LET r == d.message.response
  IN /\ d.verdict \in {"accepted", "valid"}
     => \A k \in DOMAIN r.assertions :
          LET a == r.assertions[k]
          IN /\ Timed(a)
             /\ now < Expiry(a) => a.id \in DOMAIN seen /\ seen[a.id] >= Expiry(a)

SeenInv ==
  /\ SeenTyped(seen)
  /\ AsksForSignatures => \A i \in DOMAIN deliveries : Remembered(deliveries[i])

LEMMA ReplayExpiryIsWhole ==
  ASSUME NEW a, Dated(a), NEW p, p.now \in Int, NEW c, c.skew \in Int, c.maxAge \in Int
  PROVE  ReplayExpiry(a, p, c) \in Int
  <1>1. Lesser(a.issued, p.now + c.skew) \in Int
    BY DEF Lesser, Dated
  <1>2. CASE a.conditions = Absent
    BY <1>1, <1>2 DEF ReplayExpiry
  <1>3. CASE a.conditions # Absent
    <2>1. a.conditions.until \in Int \union {Absent}
      BY <1>3 DEF Dated
    <2>2. QED
      BY <1>1, <2>1 DEF ReplayExpiry, Lesser
  <1>4. QED
    BY <1>2, <1>3

LEMMA SeenStays ==
  ASSUME NEW r, \A i \in DOMAIN r.assertions : Dated(r.assertions[i]),
         NEW p, p.now \in Int, NEW c, c.skew \in Int, c.maxAge \in Int,
         NEW s, SeenTyped(s)
  PROVE  /\ SeenTyped(SeenAfter(r, p, c, s))
         /\ \A id \in DOMAIN s : s[id] > p.now =>
              id \in DOMAIN SeenAfter(r, p, c, s) /\ SeenAfter(r, p, c, s)[id] = s[id]
  <1> DEFINE live == Live(s, p.now)
             new == {i \in DOMAIN r.assertions : ~Replayed(r, i, p, c, s)}
             kept == {i \in new : ReplayExpiry(r.assertions[i], p, c) > p.now}
             At(id) == ReplayExpiry(r.assertions[CHOOSE i \in kept : r.assertions[i].id = id], p, c)
             t == SeenAfter(r, p, c, s)
  <1>1. t = [id \in DOMAIN live \union {r.assertions[i].id : i \in kept} |->
               IF id \in DOMAIN live THEN live[id] ELSE At(id)]
    BY DEF SeenAfter
  <1>2. /\ DOMAIN live = {i \in DOMAIN s : s[i] > p.now}
        /\ \A id \in DOMAIN live : live[id] = s[id]
    BY DEF Live
  <1>3. ASSUME NEW id \in {r.assertions[i].id : i \in kept} PROVE At(id) \in Int
    <2> DEFINE j == CHOOSE i \in kept : r.assertions[i].id = id
    <2>1. j \in kept
      BY <1>3
    <2> HIDE DEF j
    <2>2. Dated(r.assertions[j])
      BY <2>1
    <2>3. ReplayExpiry(r.assertions[j], p, c) \in Int
      BY <2>2, ReplayExpiryIsWhole
    <2>4. QED
      BY <2>3 DEF j
  <1> HIDE DEF live, kept, At, t
  <1>4. SeenTyped(t)
    BY <1>1, <1>2, <1>3 DEF SeenTyped
  <1>5. \A id \in DOMAIN s : s[id] > p.now => id \in DOMAIN t /\ t[id] = s[id]
    BY <1>1, <1>2
  <1>6. QED
    BY <1>4, <1>5 DEF t

LEMMA SeenRecorded ==
  ASSUME NEW r, NEW p, NEW c, NEW s, NEW k \in DOMAIN r.assertions,
         ~Replayed(r, k, p, c, s), ReplayExpiry(r.assertions[k], p, c) > p.now
  PROVE  /\ r.assertions[k].id \in DOMAIN SeenAfter(r, p, c, s)
         /\ \E j \in DOMAIN r.assertions :
              /\ r.assertions[j].id = r.assertions[k].id
              /\ SeenAfter(r, p, c, s)[r.assertions[k].id] = ReplayExpiry(r.assertions[j], p, c)
  <1> DEFINE live == Live(s, p.now)
             new == {i \in DOMAIN r.assertions : ~Replayed(r, i, p, c, s)}
             kept == {i \in new : ReplayExpiry(r.assertions[i], p, c) > p.now}
             At(id) == ReplayExpiry(r.assertions[CHOOSE i \in kept : r.assertions[i].id = id], p, c)
             t == SeenAfter(r, p, c, s)
             name == r.assertions[k].id
             j == CHOOSE i \in kept : r.assertions[i].id = name
  <1>1. t = [id \in DOMAIN live \union {r.assertions[i].id : i \in kept} |->
               IF id \in DOMAIN live THEN live[id] ELSE At(id)]
    BY DEF SeenAfter
  <1>2. k \in kept /\ name \notin DOMAIN live
    BY DEF Replayed
  <1>3. j \in kept /\ r.assertions[j].id = name /\ j \in DOMAIN r.assertions
    BY <1>2
  <1>4. At(name) = ReplayExpiry(r.assertions[j], p, c)
    OBVIOUS
  <1> HIDE DEF live, kept, At, t, j
  <1>5. name \in DOMAIN t /\ t[name] = At(name)
    BY <1>1, <1>2
  <1>6. QED
    BY <1>3, <1>4, <1>5 DEF t

LEMMA ExpiryIsWhole ==
  ASSUME NEW a, Dated(a), NEW c, c.skew \in Nat, c.maxAge \in Nat
  PROVE  ExpiryUnder(a, c) \in Int
  <1> DEFINE age == a.issued + c.maxAge + 1
  <1>1. age \in Int
    BY DEF Dated
  <1>2. CASE a.conditions = Absent \/ a.conditions.until = Absent
    BY <1>1, <1>2 DEF ExpiryUnder
  <1>3. CASE a.conditions # Absent /\ a.conditions.until # Absent
    <2>1. a.conditions.until \in Int
      BY <1>3 DEF Dated
    <2>2. ExpiryUnder(a, c) = Lesser(a.conditions.until + c.skew, age)
      BY <1>3 DEF ExpiryUnder
    <2> HIDE DEF age
    <2>3. QED
      BY <1>1, <2>1, <2>2 DEF Lesser
  <1>4. QED
    BY <1>2, <1>3

\* What passes has not expired, and the cache keeps it for as long.
LEMMA PassesUntilExpiry ==
  ASSUME NEW a, Dated(a), NEW i, NEW r, NEW p, NEW c, NEW s, NEW o, p.now \in Nat,
         c.skew \in Nat, c.maxAge \in Nat, Passes(a, i, r, p, c, s, o)
  PROVE  /\ ReplayExpiry(a, p, c) = ExpiryUnder(a, c)
         /\ p.now < ExpiryUnder(a, c) /\ ExpiryUnder(a, c) \in Int
  <1> DEFINE k == a.conditions
             skew == c.skew
             maxAge == c.maxAge
             until == k.until
             at == a.issued
             time == p.now
  <1>1. skew \in Nat /\ maxAge \in Nat /\ time \in Nat /\ Absent \notin Int
    BY WebSsoAssumption
  <1>2. AgeOk(a, p, c) /\ FailedConditions(k, p, c) = {}
    BY DEF Passes
  <1>3. k # Absent /\ (k.until # Absent => NotOnOrAfterValid(p.now, k.until, c))
    BY <1>2, ConditionsHold
  <1>4. at \in Int /\ until \in Int \union {Absent}
    BY <1>3 DEF Dated
  <1>5. at <= time + skew /\ time - at <= maxAge /\ (until # Absent => time - skew < until)
    BY <1>2, <1>3 DEF AgeOk, WithinAgeLimit, NotOnOrAfterValid
  <1>6. /\ ReplayExpiry(a, p, c) = LET age == Lesser(at, time + skew) + maxAge + 1
                                   IN IF until = Absent THEN age ELSE Lesser(until + skew, age)
        /\ ExpiryUnder(a, c) = LET age == at + maxAge + 1
                               IN IF until = Absent THEN age ELSE Lesser(until + skew, age)
    BY <1>3 DEF ReplayExpiry, ExpiryUnder
  <1> HIDE DEF skew, maxAge, until, at, time
  <1>7. Lesser(at, time + skew) = at
    <2>1. at < time + skew \/ at = time + skew
      BY <1>1, <1>4, <1>5
    <2>2. QED
      BY <2>1 DEF Lesser
  <1>8. time < at + maxAge + 1
    BY <1>1, <1>4, <1>5
  <1>9. until # Absent => time < until + skew
    BY <1>1, <1>4, <1>5
  <1>10. ReplayExpiry(a, p, c) = ExpiryUnder(a, c)
    BY <1>6, <1>7
  <1>11. time < ExpiryUnder(a, c) /\ ExpiryUnder(a, c) \in Int
    BY <1>1, <1>4, <1>6, <1>8, <1>9 DEF Lesser
  <1>12. QED
    BY <1>10, <1>11 DEF time

\* The ID of an assertion that the IdP made tells its expiry.
LEMMA SameExpiry ==
  ASSUME IssuedInv, NEW a, NEW b, Timed(a), Timed(b), a.id = b.id,
         Unsigned(a) \in issued, Unsigned(b) \in issued
  PROVE  Expiry(a) = Expiry(b)
  <1>1. /\ Unsigned(a).id = a.id /\ Unsigned(a).issued = a.issued
        /\ Unsigned(a).conditions = a.conditions
        /\ Unsigned(b).id = b.id /\ Unsigned(b).issued = b.issued
        /\ Unsigned(b).conditions = b.conditions
    BY UnsignedAssertion DEF Timed
  <1>2. Unsigned(a).issued = Unsigned(b).issued /\ Unsigned(a).conditions = Unsigned(b).conditions
    BY <1>1 DEF IssuedInv
  <1>3. a.issued = b.issued /\ a.conditions = b.conditions
    BY <1>1, <1>2
  <1>4. QED
    BY <1>3 DEF Expiry, ExpiryUnder

LEMMA TakenIsMade ==
  ASSUME TypeInv, WireInv, AsksForSignatures, NEW d, Genuine(d),
         NEW k \in DOMAIN d.message.response.assertions
  PROVE  Unsigned(d.message.response.assertions[k]) \in issued
  BY DEF Genuine, Meant, AsksForSignatures

LEMMA SeenTaking ==
  ASSUME TypeInv, WireInv, IssuedInv, SeenInv, NEW d, NEW p, Taking(d, p),
         NEW e, NEW i \in DOMAIN deliveries', e = deliveries'[i], AsksForSignatures
  PROVE  Remembered(e)'
  <1> DEFINE r == d.message.response
             c == site.security
  <1>1. /\ p.now = now /\ now' = now /\ site' = site /\ seen' \in {seen, SeenAfter(r, p, c, seen)}
        /\ d.message \in wire
    BY DEF Taking
  <1>2. c.skew \in Nat /\ c.maxAge \in Nat /\ now \in Nat
    BY WebSsoAssumption DEF TypeInv
  <1>3. \A k \in DOMAIN r.assertions : Timed(r.assertions[k])
    BY <1>1 DEF WireInv, Circulating
  <1>4. \A id \in DOMAIN seen : seen[id] > now => id \in DOMAIN seen' /\ seen'[id] = seen[id]
    <2>1. SeenTyped(seen) /\ p.now \in Int /\ c.skew \in Int /\ c.maxAge \in Int
      BY <1>1, <1>2 DEF SeenInv
    <2>2. \A id \in DOMAIN seen : seen[id] > p.now =>
            id \in DOMAIN SeenAfter(r, p, c, seen) /\ SeenAfter(r, p, c, seen)[id] = seen[id]
      BY <1>3, <2>1, TimedIsDated, SeenStays
    <2>3. QED
      BY <1>1, <2>2
  <1>5. CASE i \in DOMAIN deliveries /\ e = deliveries[i]
    <2> DEFINE q == e.message.response
    <2>1. Remembered(e)
      BY <1>5 DEF SeenInv
    <2> SUFFICES ASSUME e.verdict \in {"accepted", "valid"}, NEW k \in DOMAIN q.assertions,
                        NEW a, a = q.assertions[k]
                 PROVE  /\ Timed(a)
                        /\ now < Expiry(a) => a.id \in DOMAIN seen' /\ seen'[a.id] >= Expiry(a)
      BY <1>1 DEF Remembered, Expiry
    <2>2. /\ Timed(a)
          /\ now < Expiry(a) => a.id \in DOMAIN seen /\ seen[a.id] >= Expiry(a)
      BY <2>1 DEF Remembered
    <2>3. Expiry(a) \in Int
      BY <1>2, <2>2, TimedIsDated, ExpiryIsWhole DEF Expiry
    <2>4. now < Expiry(a) => a.id \in DOMAIN seen /\ seen[a.id] > now /\ seen[a.id] >= Expiry(a)
      BY <1>2, <2>2, <2>3 DEF SeenInv, SeenTyped
    <2>5. QED
      BY <1>4, <2>2, <2>4
  <1>6. CASE e = d
    <2> SUFFICES ASSUME d.verdict \in {"accepted", "valid"}, NEW k \in DOMAIN r.assertions,
                        NEW a, a = r.assertions[k]
                 PROVE  Timed(a) /\ a.id \in DOMAIN seen' /\ seen'[a.id] >= Expiry(a)
      BY <1>1, <1>6 DEF Remembered, Expiry
    <2>1. Failures(r, p, c, seen, owner) = {} /\ seen' = SeenAfter(r, p, c, seen)
      BY DEF Taking
    <2>2. Genuine(d)
      BY TakenIsGenuine
    <2>3. \A j \in DOMAIN r.assertions : Passes(r.assertions[j], j, r, p, c, seen, owner)
      BY <2>1, NothingFails
    <2>4. ASSUME NEW j \in DOMAIN r.assertions
          PROVE  /\ ReplayExpiry(r.assertions[j], p, c) = Expiry(r.assertions[j])
                 /\ now < Expiry(r.assertions[j]) /\ Expiry(r.assertions[j]) \in Int
                 /\ Unsigned(r.assertions[j]) \in issued
      <3>1. Unsigned(r.assertions[j]) \in issued
        BY <2>2, TakenIsMade
      <3>2. QED
        BY <1>1, <1>2, <1>3, <2>3, <3>1, TimedIsDated, PassesUntilExpiry DEF Expiry
    <2>5. ~Replayed(r, k, p, c, seen)
      BY <2>3 DEF Passes
    <2>6. ReplayExpiry(r.assertions[k], p, c) > p.now
      BY <1>1, <1>2, <2>4
    <2>7. /\ a.id \in DOMAIN SeenAfter(r, p, c, seen)
          /\ \E j \in DOMAIN r.assertions :
               /\ r.assertions[j].id = a.id
               /\ SeenAfter(r, p, c, seen)[a.id] = ReplayExpiry(r.assertions[j], p, c)
      BY <2>5, <2>6, SeenRecorded
    <2>8. PICK j \in DOMAIN r.assertions :
               /\ r.assertions[j].id = a.id
               /\ SeenAfter(r, p, c, seen)[a.id] = ReplayExpiry(r.assertions[j], p, c)
      BY <2>7
    <2>9. Expiry(r.assertions[j]) = Expiry(a)
      BY <1>3, <2>4, <2>8, SameExpiry
    <2>10. Timed(a) /\ a.id \in DOMAIN seen' /\ seen'[a.id] = Expiry(a) /\ Expiry(a) \in Int
      BY <1>3, <2>1, <2>4, <2>7, <2>8, <2>9
    <2>11. QED
      BY <2>10
  <1>7. QED
    BY <1>5, <1>6, TakingAdds

LEMMA SeenStep ==
  TypeInv /\ WireInv /\ IssuedInv /\ SeenInv /\ [Next]_vars => SeenInv'
  <1> SUFFICES ASSUME TypeInv, WireInv, IssuedInv, SeenInv, [Next]_vars PROVE SeenInv'
    OBVIOUS
  <1>1. CASE \E d, p : Taking(d, p)
    <2>1. PICK d, p : Taking(d, p)
      BY <1>1
    <2> DEFINE r == d.message.response
               c == site.security
    <2>2. /\ p.now = now /\ site' = site /\ seen' \in {seen, SeenAfter(r, p, c, seen)}
          /\ d.message \in wire
      BY <2>1 DEF Taking
    <2>3. /\ p.now \in Int /\ c.skew \in Int /\ c.maxAge \in Int /\ SeenTyped(seen)
          /\ \A k \in DOMAIN r.assertions : Timed(r.assertions[k])
      BY <2>2, WebSsoAssumption DEF TypeInv, SeenInv, WireInv, Circulating
    <2>4. SeenTyped(SeenAfter(r, p, c, seen))
      BY <2>3, TimedIsDated, SeenStays
    <2>5. SeenTyped(seen')
      BY <2>2, <2>3, <2>4
    <2>6. AsksForSignatures' = AsksForSignatures
      BY <2>2 DEF AsksForSignatures
    <2>7. ASSUME AsksForSignatures, NEW i \in DOMAIN deliveries', NEW e, e = deliveries'[i]
          PROVE  Remembered(e)'
      BY <2>1, <2>7, SeenTaking
    <2>8. QED
      BY <2>5, <2>6, <2>7 DEF SeenInv, SeenTyped, Remembered, Expiry
  <1>2. CASE UNCHANGED <<site, seen, deliveries>> /\ (now' = now \/ now' = now + 1)
    <2>1. now \in Nat /\ site.security.skew \in Nat /\ site.security.maxAge \in Nat
      BY WebSsoAssumption DEF TypeInv
    <2>2. AsksForSignatures' = AsksForSignatures /\ SeenTyped(seen)
      BY <1>2 DEF AsksForSignatures, SeenInv
    <2>3. ASSUME AsksForSignatures, NEW i \in DOMAIN deliveries, NEW e, e = deliveries[i]
          PROVE  Remembered(e)'
      <3>1. Remembered(e)
        BY <2>3 DEF SeenInv
      <3> DEFINE q == e.message.response
      <3> SUFFICES ASSUME e.verdict \in {"accepted", "valid"}, NEW k \in DOMAIN q.assertions,
                          NEW a, a = q.assertions[k]
                   PROVE  /\ Timed(a)
                          /\ now' < Expiry(a) => a.id \in DOMAIN seen /\ seen[a.id] >= Expiry(a)
        BY <1>2 DEF Remembered, Expiry
      <3>2. /\ Timed(a)
            /\ now < Expiry(a) => a.id \in DOMAIN seen /\ seen[a.id] >= Expiry(a)
        BY <3>1 DEF Remembered
      <3>3. Expiry(a) \in Int
        BY <2>1, <3>2, TimedIsDated, ExpiryIsWhole DEF Expiry
      <3>4. QED
        BY <1>2, <2>1, <3>2, <3>3
    <2>4. QED
      BY <1>2, <2>2, <2>3 DEF SeenInv, Remembered, Expiry, SeenTyped
  <1>3. QED
    BY <1>1, <1>2, OthersTakeNothing

-----------------------------------------------------------------------------
(* Each assertion is taken over once.                                       *)

LEMMA OnceStep ==
  ASSUME TypeInv, WireInv, IssuedInv, SeenInv, AcceptedIsGenuine, AcceptedOnce, [Next]_vars
  PROVE  AcceptedOnce'
  <1>1. CASE UNCHANGED <<site, deliveries>>
    BY <1>1 DEF AcceptedOnce, AsksForSignatures, Accepted
  <1>2. ASSUME NEW d, NEW p, Taking(d, p), AsksForSignatures,
               NEW j \in Accepted, NEW k \in DOMAIN d.message.response.assertions,
               NEW l \in DOMAIN deliveries[j].message.response.assertions,
               d.verdict \in {"accepted", "valid"},
               d.message.response.assertions[k].id
                 = deliveries[j].message.response.assertions[l].id
        PROVE  FALSE
    <2> DEFINE r == d.message.response
               c == site.security
               e == deliveries[j]
               a == r.assertions[k]
               b == e.message.response.assertions[l]
    <2>1. /\ Failures(r, p, c, seen, owner) = {} /\ d.message \in wire /\ p.now = now
      BY <1>2 DEF Taking
    <2>2. Genuine(d) /\ Genuine(e)
      BY <1>2, TakenIsGenuine DEF AcceptedIsGenuine
    <2>3. Timed(a) /\ Unsigned(a) \in issued
      BY <1>2, <2>1, <2>2, TakenIsMade DEF WireInv, Circulating
    <2>4. Passes(a, k, r, p, c, seen, owner)
      BY <2>1, NothingFails
    <2>5. Remembered(e) /\ e.verdict \in {"accepted", "valid"}
      BY <1>2 DEF SeenInv, Accepted
    <2>6. Timed(b) /\ Unsigned(b) \in issued
      <3>1. Unsigned(b) \in issued
        BY <1>2, <2>2, TakenIsMade
      <3>2. QED
        BY <2>5, <3>1 DEF Remembered
    <2>7. now < Expiry(b) => b.id \in DOMAIN seen /\ seen[b.id] >= Expiry(b)
      BY <2>5 DEF Remembered
    <2> HIDE DEF a, b, e
    <2>8. a.id = b.id
      BY <1>2 DEF a, b, e
    <2>9. Expiry(a) = Expiry(b)
      BY <2>3, <2>6, <2>8, SameExpiry
    <2>10. now < Expiry(a) /\ Expiry(a) \in Int
      <3>1. c.skew \in Nat /\ c.maxAge \in Nat /\ now \in Nat
        BY WebSsoAssumption DEF TypeInv
      <3>2. Dated(a)
        BY <2>3, TimedIsDated
      <3>3. QED
        BY <2>1, <2>4, <3>1, <3>2, PassesUntilExpiry DEF Expiry
    <2>11. a.id \in DOMAIN seen /\ seen[a.id] > p.now
      <3>1. a.id \in DOMAIN seen /\ seen[a.id] >= Expiry(a)
        BY <2>7, <2>8, <2>9, <2>10
      <3>2. seen[a.id] \in Int /\ now \in Int
        BY <3>1 DEF SeenInv, SeenTyped, TypeInv
      <3>3. QED
        BY <2>1, <2>10, <3>1, <3>2
    <2>12. Replayed(r, k, p, c, seen)
      BY <2>11 DEF Replayed, Live, a
    <2>13. QED
      BY <2>4, <2>12 DEF Passes
  <1>3. CASE \E d, p : Taking(d, p)
    <2>1. PICK d, p : Taking(d, p)
      BY <1>3
    <2>2. AsksForSignatures' = AsksForSignatures
      BY <2>1 DEF AsksForSignatures, Taking
    <2> SUFFICES ASSUME AsksForSignatures,
                        NEW i \in Accepted', NEW j \in Accepted',
                        NEW k \in DOMAIN deliveries'[i].message.response.assertions,
                        NEW l \in DOMAIN deliveries'[j].message.response.assertions,
                        deliveries'[i].message.response.assertions[k].id
                          = deliveries'[j].message.response.assertions[l].id
                 PROVE  i = j
      BY <2>2 DEF AcceptedOnce
    <2>3. ASSUME NEW n \in Accepted'
          PROVE  \/ /\ n \notin DOMAIN deliveries /\ n \notin Accepted /\ deliveries'[n] = d
                    /\ n \in DOMAIN deliveries' /\ d.verdict \in {"accepted", "valid"}
                 \/ n \in Accepted /\ deliveries'[n] = deliveries[n]
      BY <2>1, TakingAdds DEF Accepted
    <2>4. CASE i \in Accepted /\ j \in Accepted
      BY <2>3, <2>4 DEF AcceptedOnce, Accepted
    <2>5. CASE i \notin Accepted /\ j \notin Accepted
      <3>1. PICK S : deliveries \in Seq(S)
        BY DEF TypeInv
      <3>2. DOMAIN deliveries = 1..Len(deliveries) /\ Len(deliveries) \in Nat
        BY <3>1
      <3>3. DOMAIN deliveries' = 1..(Len(deliveries) + 1)
        BY <2>1, <3>1 DEF Taking
      <3>4. i \in 1..(Len(deliveries) + 1) /\ i \notin 1..Len(deliveries)
        BY <2>3, <2>5, <3>2, <3>3
      <3>5. j \in 1..(Len(deliveries) + 1) /\ j \notin 1..Len(deliveries)
        BY <2>3, <2>5, <3>2, <3>3
      <3>6. QED
        BY <3>2, <3>4, <3>5
    <2>6. CASE i \notin Accepted /\ j \in Accepted
      <3>1. deliveries'[i] = d /\ deliveries'[j] = deliveries[j] /\ j \in Accepted
        BY <2>3, <2>6
      <3>2. d.verdict \in {"accepted", "valid"}
        BY <2>3, <2>6
      <3>3. k \in DOMAIN d.message.response.assertions
        BY <3>1
      <3>4. l \in DOMAIN deliveries[j].message.response.assertions
        BY <3>1
      <3>5. d.message.response.assertions[k].id = deliveries[j].message.response.assertions[l].id
        BY <3>1
      <3>6. QED
        BY <1>2, <2>1, <3>1, <3>2, <3>3, <3>4, <3>5
    <2>7. CASE i \in Accepted /\ j \notin Accepted
      <3>1. deliveries'[j] = d /\ deliveries'[i] = deliveries[i] /\ i \in Accepted
        BY <2>3, <2>7
      <3>2. d.verdict \in {"accepted", "valid"}
        BY <2>3, <2>7
      <3>3. l \in DOMAIN d.message.response.assertions
        BY <3>1
      <3>4. k \in DOMAIN deliveries[i].message.response.assertions
        BY <3>1
      <3>5. d.message.response.assertions[l].id = deliveries[i].message.response.assertions[k].id
        BY <3>1
      <3>6. QED
        BY <1>2, <2>1, <3>1, <3>2, <3>3, <3>4, <3>5
    <2>8. QED
      BY <2>4, <2>5, <2>6, <2>7
  <1>4. QED
    BY <1>1, <1>3, OthersTakeNothing
\* Whatever responses, from whatever implementation and however changed, arrive
\* in whatever order, number and time: what the SP takes over the IdP made for
\* this SP and this browser's request, and it has not expired.  And it takes over
\* no assertion twice, if it asks for signatures: its replay cache holds an ID for
\* as long as anything that carries it would pass.
THEOREM TakenOverIsMeantOnce == Spec => []AcceptedIsMeant
  <1>1. Init => /\ WireInv /\ IssuedInv /\ AcceptedIsGenuine /\ SeenInv /\ AcceptedOnce
    BY FS_EmptySet DEF Init, WireInv, IssuedInv, AcceptedIsGenuine, Accepted, SeenInv,
       SeenTyped, AcceptedOnce
  <1>2. TypeInv /\ WireInv /\ IssuedInv /\ SeenInv /\ AcceptedIsGenuine /\ AcceptedOnce
          /\ [Next]_vars => AcceptedOnce'
    BY OnceStep
  <1>3. AcceptedIsGenuine /\ AcceptedOnce => AcceptedIsMeant
    BY DEF AcceptedIsMeant
  <1>4. QED
    BY <1>1, <1>2, <1>3, TypeInit, TypeStep, WireStep, GenuineStep, SeenStep, PTL DEF Spec

\* A persistent NameID that was taken over for one account is never accepted for
\* another, for any users and names, in any order of deliveries.
THEOREM NamesStayWithAccounts == Spec => []NamesKeepTheirAccount
  <1>1. Init => WireInv /\ IssuedInv /\ NameInv
    BY FS_EmptySet DEF Init, WireInv, IssuedInv, NameInv
  <1>2. TypeInv /\ WireInv /\ NameInv /\ [Next]_vars => NameInv'
    <2> SUFFICES ASSUME TypeInv, WireInv, NameInv, [Next]_vars PROVE NameInv'
      OBVIOUS
    <2>1. CASE UNCHANGED <<site, owner, deliveries>>
      BY <2>1 DEF NameInv
    <2>2. QED
      BY <2>1, NameStep, OthersTakeNothing
  <1>3. NameInv => NamesKeepTheirAccount
    BY DEF NameInv, NamesKeepTheirAccount
  <1>4. QED
    BY <1>1, <1>2, <1>3, TypeInit, TypeStep, WireStep, PTL DEF Spec

-----------------------------------------------------------------------------
(* ECP, for any conversations.                                              *)

\* What the IdP was asked is a conversation's AuthnRequest, and what the client
\* posts is a fault, or an answer to some conversation's request in the name of
\* some conversation.
Answerable(q) == \E c \in Conversations : q = [id |-> c.id, acsUrl |-> c.acsUrl]
Relayed(p) ==
  /\ p.body # Client!FaultAnswer => \E q : Answerable(q) /\ p.body = Client!Body(q)
  /\ \A c \in Conversations :
       p.body # Client!FaultAnswer /\ c.messageId # Absent /\ p.refTo = c.messageId =>
         p.relayState = c.relayState

EcpInv ==
  /\ opened \subseteq Conversations /\ held \subseteq Conversations
  /\ \A q \in atIdp : Answerable(q)
  /\ \A a \in answers : a # Client!FaultAnswer => \E q : Answerable(q) /\ a.body = Client!Body(q)
  /\ \A p \in relays : Relayed(p)
  /\ \E S : outcomes \in Seq(S)
  /\ Client!ConversationsStayApart

LEMMA EcpInit == Client!EcpInit => EcpInv
  BY DEF Client!EcpInit, EcpInv, Client!ConversationsStayApart

LEMMA EcpAnswered ==
  ASSUME EcpInv, NEW q \in atIdp, Client!Answer(q)
  PROVE  EcpInv'
  <1>1. PICK a \in {[acsUrl |-> u, body |-> Client!Body(q)] : u \in {q.acsUrl, Absent}}
                     \union {Client!FaultAnswer} : answers' = answers \union {a}
    BY DEF Client!Answer
  <1>2. a # Client!FaultAnswer => a.body = Client!Body(q)
    BY <1>1
  <1>3. \A b \in answers' : b # Client!FaultAnswer => \E x : Answerable(x) /\ b.body = Client!Body(x)
    BY <1>1, <1>2 DEF EcpInv
  <1>4. QED
    BY <1>3 DEF EcpInv, Client!Answer, Client!ConversationsStayApart

LEMMA EcpRelayed ==
  ASSUME EcpInv, NEW c \in Conversations, NEW a \in answers, Client!Relay(c, a)
  PROVE  EcpInv'
  <1> DEFINE p0 == IF Client!Usable(c, a)
                   THEN [to |-> a.acsUrl, refTo |-> c.messageId, relayState |-> c.relayState,
                         body |-> a.body]
                   ELSE [to |-> c.consumerUrl, refTo |-> Absent, relayState |-> Absent,
                         body |-> Client!FaultAnswer]
  <1>1. relays' = relays \union {p0} /\ UNCHANGED <<opened, held, atIdp, answers, outcomes>>
    BY DEF Client!Relay
  <1>2. CASE Client!Usable(c, a)
    <2>1. p0.body = a.body /\ p0.refTo = c.messageId /\ p0.relayState = c.relayState
      BY <1>2
    <2> HIDE DEF p0
    <2>2. \E q : Answerable(q) /\ a.body = Client!Body(q)
      BY <1>2 DEF Client!Usable, EcpInv
    <2>3. \A d \in Conversations : d.messageId # Absent /\ d.messageId = c.messageId => d = c
      BY ConversationsAssumption
    <2>4. Relayed(p0)
      BY <2>1, <2>2, <2>3 DEF Relayed
    <2>5. QED
      BY <1>1, <2>4 DEF EcpInv, Client!ConversationsStayApart
  <1>3. CASE ~Client!Usable(c, a)
    <2>1. p0.body = Client!FaultAnswer
      BY <1>3
    <2> HIDE DEF p0
    <2>2. Relayed(p0)
      BY <2>1 DEF Relayed
    <2>3. QED
      BY <1>1, <2>2 DEF EcpInv, Client!ConversationsStayApart
  <1>4. QED
    BY <1>2, <1>3

\* What a service provider takes for the answer of a conversation is the answer
\* to its request, since nobody else's has its ID.
LEMMA InIsOwn ==
  ASSUME NEW c \in Conversations, NEW p, Relayed(p), p.to = c.consumerUrl,
         p.body # Client!FaultAnswer, Client!RefersTo(c, p),
         p.body.irt = c.id, p.body.destination = p.to
  PROVE  c.acsUrl = c.consumerUrl /\ (c.messageId # Absent => p.relayState = c.relayState)
  <1>1. PICK d \in Conversations : p.body = [irt |-> d.id, destination |-> d.acsUrl]
    BY DEF Relayed, Answerable, Client!Body
  <1>2. d = c
    BY <1>1, ConversationsAssumption
  <1>3. QED
    BY <1>1, <1>2 DEF Relayed, Client!RefersTo

LEMMA EcpReceived ==
  ASSUME EcpInv, NEW c \in Conversations, NEW p \in relays, Client!Receive(c, p)
  PROVE  EcpInv'
  <1> DEFINE verdict == IF p.body = Client!FaultAnswer THEN "fault"
                        ELSE IF ~Client!RefersTo(c, p) THEN "other conversation"
                        ELSE IF p.body.irt = c.id /\ p.body.destination = p.to THEN "in"
                        ELSE "invalid"
             o == [conversation |-> c, verdict |-> verdict, relay |-> p]
  <1>1. /\ outcomes' = Append(outcomes, o) /\ p.to = c.consumerUrl
        /\ UNCHANGED <<opened, held, atIdp, answers, relays>>
    BY DEF Client!Receive
  <1>2. verdict = "in" => /\ p.body.irt = c.id /\ c.acsUrl = c.consumerUrl
                          /\ c.messageId # Absent => p.relayState = c.relayState
    BY <1>1, InIsOwn DEF EcpInv
  <1>3. o.conversation = c /\ o.verdict = verdict /\ o.relay = p
    OBVIOUS
  <1> HIDE DEF o, verdict
  <1>4. PICK S : outcomes \in Seq(S)
    BY DEF EcpInv
  <1>5. /\ outcomes' \in Seq(S \union {o})
        /\ \A i \in DOMAIN outcomes' : \/ i \in DOMAIN outcomes /\ outcomes'[i] = outcomes[i]
                                       \/ outcomes'[i] = o
    BY <1>1, <1>4, OneMore
  <1>6. Client!ConversationsStayApart'
    BY <1>2, <1>3, <1>5 DEF EcpInv, Client!ConversationsStayApart
  <1>7. QED
    BY <1>1, <1>5, <1>6 DEF EcpInv

LEMMA EcpStep == EcpInv /\ [Client!EcpNext]_clientVars => EcpInv'
  <1> SUFFICES ASSUME EcpInv, [Client!EcpNext]_clientVars PROVE EcpInv'
    OBVIOUS
  <1>1. ASSUME NEW c \in Conversations, Client!Open(c) \/ Client!Hold(c) \/ Client!Forward(c)
        PROVE  EcpInv'
    <2>1. Answerable([id |-> c.id, acsUrl |-> c.acsUrl])
      BY DEF Answerable
    <2>2. /\ UNCHANGED <<answers, relays, outcomes>>
          /\ opened' \subseteq opened \union {c} /\ held' \subseteq held \union {c}
          /\ atIdp' \subseteq atIdp \union {[id |-> c.id, acsUrl |-> c.acsUrl]}
      BY <1>1 DEF Client!Open, Client!Hold, Client!Forward
    <2>3. QED
      BY <2>1, <2>2 DEF EcpInv, Client!ConversationsStayApart
  <1>2. CASE UNCHANGED clientVars
    BY <1>2 DEF clientVars, EcpInv, Client!ConversationsStayApart
  <1>3. QED
    BY <1>1, <1>2, EcpAnswered, EcpRelayed, EcpReceived DEF Client!EcpNext

\* However the answers of several conversations cross, each logs in by its own
\* request's answer and goes on from its own RelayState.
THEOREM ConversationsNeverCross == SignInSpec => []Client!ConversationsStayApart
  <1>1. SignInInit => EcpInv
    BY EcpInit DEF SignInInit
  <1>2. EcpInv /\ [SignInNext]_signInVars => EcpInv'
    BY EcpStep DEF SignInNext, WebStep, EidStep, ClientStep, FinderStep, signInVars, clientVars
  <1>3. EcpInv => Client!ConversationsStayApart
    BY DEF EcpInv
  <1>4. QED
    BY <1>1, <1>2, <1>3, PTL DEF SignInSpec

-----------------------------------------------------------------------------
(* Discovery, for any identity providers, service providers and endpoints.  *)

\* A cookie is Absent or a sequence of identity providers.
IsCookie(value) == value = Absent \/ value \in Seq(Idps)

\* Counting the elements of a finite set of numbers from below, every count is
\* reached at an element.
LEMMA CountsAreReached ==
  ASSUME NEW n \in Nat, NEW kept, \A j \in kept : j \in 1..n, NEW k \in 1..Cardinality(kept)
  PROVE  \E i \in kept : Cardinality({j \in kept : j <= i}) = k
  <1> DEFINE Below == [m \in Nat |-> {j \in kept : j <= m}]
             reached == {m \in Nat : Cardinality(Below[m]) >= k}
  <1>1. /\ IsFiniteSet(kept) /\ Cardinality(kept) \in Nat /\ k \in Nat /\ k >= 1
        /\ \A m \in Nat : IsFiniteSet(Below[m]) /\ Cardinality(Below[m]) \in Nat
    <2>1. IsFiniteSet(1..n)
      BY FS_Interval
    <2>2. IsFiniteSet(kept)
      <3>1. kept \in SUBSET (1..n)
        OBVIOUS
      <3>2. QED
        BY <2>1, <3>1, FS_Subset
    <2>3. \A m \in Nat : IsFiniteSet(Below[m])
      BY <2>2, FS_Subset
    <2>4. QED
      BY <2>2, <2>3, FS_CardinalityType
  <1>2. n \in reached
    <2>1. Below[n] = kept
      OBVIOUS
    <2>2. QED
      BY <1>1, <2>1
  <1>3. PICK m \in reached : \A y \in reached : m <= y
    BY <1>2, LeastOf
  <1>4. m # 0
    <2>1. Below[0] = {}
      OBVIOUS
    <2>2. QED
      BY <1>1, <1>3, <2>1, FS_EmptySet
  <1>5. m - 1 \in Nat /\ m - 1 \notin reached /\ m \in Nat
    BY <1>3, <1>4
  <1>6. /\ Below[m] = {j \in kept : j <= m} /\ Below[m - 1] = {j \in kept : j <= m - 1}
        /\ \A j \in kept : j <= m <=> j <= m - 1 \/ j = m
    BY <1>5
  <1>7. m \in reached
    BY <1>3
  <1> HIDE DEF Below
  <1>8. ~(Cardinality(Below[m - 1]) >= k) /\ Cardinality(Below[m]) >= k
    BY <1>5, <1>7
  <1> HIDE DEF reached
  <1>9. m \in kept
    <2> SUFFICES ASSUME m \notin kept PROVE FALSE
      OBVIOUS
    <2>1. Below[m] = Below[m - 1]
      BY <1>6
    <2>2. QED
      BY <1>8, <2>1
  <1>10. Below[m] = Below[m - 1] \union {m} /\ m \notin Below[m - 1]
    <2>1. \A j : j \in Below[m] <=> j \in Below[m - 1] \/ j = m
      BY <1>6, <1>9
    <2>2. ~(m <= m - 1)
      BY <1>5
    <2>3. m \notin Below[m - 1]
      BY <1>6, <2>2
    <2>4. Below[m] = Below[m - 1] \union {m}
      BY <2>1, Zenon
    <2>5. QED
      BY <2>3, <2>4
  <1>11. Cardinality(Below[m]) = Cardinality(Below[m - 1]) + 1
    BY <1>1, <1>5, <1>10, FS_AddElement
  <1>12. Cardinality(Below[m]) = k
    BY <1>1, <1>5, <1>8, <1>11
  <1>13. QED
    BY <1>6, <1>9, <1>12

\* What is left of a sequence without an element is a sequence.
LEMMA WithoutIsSequence ==
  ASSUME NEW S, NEW s \in Seq(S), NEW e
  PROVE  Finder!Without(s, e) \in Seq(S)
  <1> DEFINE kept == {i \in DOMAIN s : s[i] # e}
             n == Cardinality(kept)
             g == [k \in 1..n |-> s[CHOOSE i \in kept : Cardinality({j \in kept : j <= i}) = k]]
  <1>1. Len(s) \in Nat /\ DOMAIN s = 1..Len(s) /\ kept \in SUBSET (1..Len(s))
    OBVIOUS
  <1>2. n \in Nat
    <2>1. IsFiniteSet(1..Len(s))
      BY <1>1, FS_Interval
    <2>2. IsFiniteSet(kept)
      BY <1>1, <2>1, FS_Subset
    <2>3. QED
      BY <2>2, FS_CardinalityType
  <1>3. Finder!Without(s, e) = g
    BY DEF Finder!Without, Finder!Cardinality, Cardinality
  <1>4. ASSUME NEW k \in 1..n PROVE g[k] \in S
    <2>1. \E i \in kept : Cardinality({j \in kept : j <= i}) = k
      BY <1>1, CountsAreReached
    <2> DEFINE i == CHOOSE i \in kept : Cardinality({j \in kept : j <= i}) = k
    <2>2. i \in kept
      BY <2>1
    <2>3. s[i] \in S
      BY <2>2
    <2>4. QED
      BY <2>3
  <1>5. g = [k \in 1..n |-> g[k]]
    OBVIOUS
  <1> HIDE DEF g, n
  <1>6. g \in [1..n -> S]
    BY <1>4, <1>5
  <1>7. QED
    BY <1>2, <1>3, <1>6

\* The identity provider that was added is the one used last, for whoever reads
\* the cookie.
LEMMA AddedIsLast ==
  ASSUME NEW value, IsCookie(value), NEW idp \in Idps
  PROVE  LET added == Finder!AddIdp(value, idp)
         IN IsCookie(added) /\ Finder!MostRecent(added) = idp
  <1> DEFINE added == Finder!AddIdp(value, idp)
             others == Finder!Without(Finder!Listed(value), idp)
  <1>1. Finder!Listed(value) \in Seq(Idps)
    BY DEF IsCookie, Finder!Listed
  <1>2. others \in Seq(Idps)
    BY <1>1, WithoutIsSequence
  <1>3. added = Append(others, idp)
    BY DEF Finder!AddIdp
  <1> HIDE DEF added, others
  <1>4. added \in Seq(Idps) /\ added # << >> /\ added[Len(added)] = idp
    BY <1>2, <1>3
  <1>5. added # Absent
    BY <1>4, DiscoveryAssumption
  <1>6. Finder!MostRecent(added) = idp
    BY <1>4, <1>5 DEF Finder!MostRecent, Finder!Listed, Finder!Last
  <1>7. QED
    BY <1>4, <1>6 DEF added, IsCookie

LEMMA DefaultEndpointIsRegistered ==
  ASSUME Registered # << >>
  PROVE  \E k \in DOMAIN Registered : Finder!DefaultEndpoint = Registered[k]
  <1> DEFINE candidates == {i \in DOMAIN Registered : Registered[i].isDefault}
             lowest == {i \in DOMAIN Registered :
                          \A j \in DOMAIN Registered : Registered[i].index <= Registered[j].index}
  <1>1. DOMAIN Registered \subseteq Nat /\ DOMAIN Registered # {}
    BY DiscoveryAssumption DEF IsSequence
  <1>2. lowest # {}
    <2> DEFINE T == {Registered[i].index : i \in DOMAIN Registered}
    <2>1. T \in SUBSET Nat /\ T # {}
      BY <1>1, DiscoveryAssumption
    <2>2. PICK x \in T : \A y \in T : x <= y
      BY <2>1, LeastOf
    <2>3. PICK i \in DOMAIN Registered : x = Registered[i].index
      OBVIOUS
    <2>4. i \in lowest
      BY <2>2, <2>3
    <2>5. QED
      BY <2>4
  <1>3. ASSUME NEW is \in SUBSET DOMAIN Registered, is # {}
        PROVE  (CHOOSE i \in is : \A j \in is : i <= j) \in DOMAIN Registered
    <2>1. \E i \in is : \A j \in is : i <= j
      BY <1>1, <1>3, LeastOf
    <2>2. QED
      BY <2>1
  <1>4. CASE candidates # {}
    <2>1. Finder!DefaultEndpoint = Registered[CHOOSE i \in candidates : \A j \in candidates : i <= j]
      BY <1>4 DEF Finder!DefaultEndpoint
    <2>2. QED
      BY <1>3, <1>4, <2>1
  <1>5. CASE candidates = {}
    <2>1. Finder!DefaultEndpoint = Registered[CHOOSE i \in lowest : \A j \in lowest : i <= j]
      BY <1>5 DEF Finder!DefaultEndpoint
    <2>2. QED
      BY <1>2, <1>3, <2>1
  <1>6. QED
    BY <1>4, <1>5

\* A registered query is still a prefix when a parameter is added.
LEMMA PrefixStays ==
  ASSUME NEW S, NEW T, NEW s \in Seq(S), NEW t \in Seq(T), NEW e, Finder!IsPrefix(s, t)
  PROVE  Finder!IsPrefix(s, Append(t, e))
  <1>1. Len(s) <= Len(t) /\ SubSeq(s, 1, Len(s)) = SubSeq(t, 1, Len(s))
    BY DEF Finder!IsPrefix
  <1>2. Append(t, e) \in Seq(T \union {e}) /\ t \in Seq(T \union {e}) /\ Len(Append(t, e)) = Len(t) + 1
    OBVIOUS
  <1>3. SubSeq(Append(t, e), 1, Len(s)) = SubSeq(t, 1, Len(s))
    <2> DEFINE u == SubSeq(Append(t, e), 1, Len(s))
               v == SubSeq(t, 1, Len(s))
    <2>1. /\ u \in Seq(T \union {e}) /\ v \in Seq(T \union {e}) /\ Len(u) = Len(s) /\ Len(v) = Len(s)
          /\ \A i \in 1..Len(s) : u[i] = Append(t, e)[i] /\ v[i] = t[i]
      BY <1>1, <1>2
    <2>2. \A i \in 1..Len(s) : Append(t, e)[i] = t[i]
      BY <1>1
    <2> HIDE DEF u, v
    <2>3. \A i \in 1..Len(s) : u[i] = v[i]
      BY <2>1, <2>2
    <2>4. u = v
      BY <2>1, <2>3, SeqEqual
    <2>5. QED
      BY <2>4 DEF u, v
  <1>4. QED
    BY <1>1, <1>2, <1>3 DEF Finder!IsPrefix

\* Where a request asks the answer to go, or the default.
OwnPlace(q) == IF q.returnUrl = Absent THEN Finder!DefaultEndpoint.location ELSE q.returnUrl

LEMMA OwnPlaceIsRegistered ==
  ASSUME NEW q \in DiscoveryRequests, NEW chosen, Finder!AnswerUrl(q, chosen) # Absent
  PROVE  /\ IsPlace(OwnPlace(q))
         /\ \E k \in DOMAIN Registered :
              /\ Registered[k].location.base = OwnPlace(q).base
              /\ Finder!IsPrefix(Registered[k].location.query, OwnPlace(q).query)
         /\ Finder!AnswerUrl(q, chosen) =
              IF chosen = Absent THEN OwnPlace(q)
              ELSE [OwnPlace(q) EXCEPT !.query =
                      Append(@, [name |-> Finder!ReturnIdParam(q), value |-> chosen])]
  <1>1. CASE q.returnUrl # Absent
    <2>1. Finder!ReturnUrlOk(q.returnUrl)
      BY <1>1 DEF Finder!AnswerUrl
    <2>2. IsPlace(q.returnUrl) /\ OwnPlace(q) = q.returnUrl
      BY <1>1, DiscoveryAssumption DEF OwnPlace
    <2>3. Finder!AnswerUrl(q, chosen) =
            IF chosen = Absent THEN q.returnUrl
            ELSE [q.returnUrl EXCEPT !.query =
                    Append(@, [name |-> Finder!ReturnIdParam(q), value |-> chosen])]
      BY <1>1 DEF Finder!AnswerUrl
    <2>4. QED
      BY <2>1, <2>2, <2>3 DEF Finder!ReturnUrlOk
  <1>2. CASE q.returnUrl = Absent
    <2>1. Registered # << >>
      BY <1>2 DEF Finder!AnswerUrl
    <2>2. PICK k \in DOMAIN Registered : Finder!DefaultEndpoint = Registered[k]
      BY <2>1, DefaultEndpointIsRegistered
    <2>3. OwnPlace(q) = Registered[k].location /\ IsPlace(OwnPlace(q))
      BY <1>2, <2>2, DiscoveryAssumption DEF OwnPlace
    <2>4. Finder!IsPrefix(Registered[k].location.query, OwnPlace(q).query)
      <3>1. OwnPlace(q).query \in Seq({OwnPlace(q).query[i] : i \in DOMAIN OwnPlace(q).query})
        BY <2>3 DEF IsPlace, IsSequence
      <3>2. Len(OwnPlace(q).query) <= Len(OwnPlace(q).query)
        BY <3>1
      <3>3. QED
        BY <2>3, <3>2 DEF Finder!IsPrefix
    <2>5. Finder!AnswerUrl(q, chosen) =
            IF chosen = Absent THEN OwnPlace(q)
            ELSE [OwnPlace(q) EXCEPT !.query =
                    Append(@, [name |-> Finder!ReturnIdParam(q), value |-> chosen])]
      BY <1>2 DEF Finder!AnswerUrl, OwnPlace
    <2>6. QED
      BY <2>2, <2>3, <2>4, <2>5
  <1>3. QED
    BY <1>1, <1>2

\* What is heard at an answer's URL is what the discovery service chose.
LEMMA ChosenIsHeard ==
  ASSUME NEW q \in DiscoveryRequests, NEW chosen, NEW r, r.request = q,
         r.url = Finder!AnswerUrl(q, chosen), r.url # Absent
  PROVE  /\ \E k \in DOMAIN Registered :
              /\ Registered[k].location.base = r.url.base
              /\ Finder!IsPrefix(Registered[k].location.query, r.url.query)
         /\ (\A j \in DOMAIN OwnPlace(q).query :
               OwnPlace(q).query[j].name # Finder!ReturnIdParam(q)) => Finder!Heard(r) = chosen
  <1> DEFINE own == OwnPlace(q)
             e == [name |-> Finder!ReturnIdParam(q), value |-> chosen]
             T == {own.query[i] : i \in DOMAIN own.query}
  <1>1. PICK k \in DOMAIN Registered : /\ Registered[k].location.base = own.base
                                       /\ Finder!IsPrefix(Registered[k].location.query, own.query)
    BY OwnPlaceIsRegistered
  <1>2. own = [base |-> own.base, query |-> own.query] /\ own.query \in Seq(T)
    BY OwnPlaceIsRegistered DEF IsPlace, IsSequence
  <1>3. r.url = IF chosen = Absent THEN own ELSE [own EXCEPT !.query = Append(@, e)]
    BY OwnPlaceIsRegistered
  <1>4. e.name = Finder!ReturnIdParam(q) /\ e.value = chosen
    OBVIOUS
  <1> HIDE DEF own, e, T
  <1>5. CASE chosen = Absent
    <2>1. r.url = own
      BY <1>3, <1>5
    <2>2. (\A j \in DOMAIN own.query : own.query[j].name # Finder!ReturnIdParam(q)) =>
            Finder!Heard(r) = Absent
      BY <2>1 DEF Finder!Heard
    <2>3. QED
      BY <1>1, <1>5, <2>1, <2>2 DEF own
  <1>6. CASE chosen # Absent
    <2>1. r.url.base = own.base /\ r.url.query = Append(own.query, e)
      BY <1>2, <1>3, <1>6
    <2>2. Registered[k].location.query \in
            Seq({Registered[k].location.query[i] : i \in DOMAIN Registered[k].location.query})
      BY DiscoveryAssumption DEF IsPlace, IsSequence
    <2>3. Finder!IsPrefix(Registered[k].location.query, r.url.query)
      BY <1>1, <1>2, <2>1, <2>2, PrefixStays
    <2>4. ASSUME \A j \in DOMAIN own.query : own.query[j].name # Finder!ReturnIdParam(q)
          PROVE  Finder!Heard(r) = chosen
      <3> DEFINE named == {i \in DOMAIN r.url.query : r.url.query[i].name = Finder!ReturnIdParam(q)}
                 n == Len(own.query) + 1
      <3>1. /\ n \in Nat /\ n \in DOMAIN r.url.query /\ r.url.query[n] = e
            /\ \A i \in DOMAIN r.url.query : i = n \/ i \in DOMAIN own.query
            /\ \A i \in DOMAIN own.query : r.url.query[i] = own.query[i]
        BY <1>2, <2>1
      <3> HIDE DEF n
      <3>2. named = {n}
        BY <1>4, <2>4, <3>1
      <3>3. (CHOOSE i \in named : \A j \in named : i <= j) = n
        BY <3>1, <3>2
      <3>4. Finder!Heard(r) = r.url.query[n].value
        BY <3>2, <3>3 DEF Finder!Heard
      <3>5. QED
        BY <1>4, <3>1, <3>4
    <2>5. QED
      BY <1>1, <2>1, <2>3, <2>4 DEF own
  <1>7. QED
    BY <1>5, <1>6

DiscoveryInv ==
  /\ IsCookie(cookie) /\ Finder!MostRecent(cookie) = lastSet
  /\ \A v \in visits : IsCookie(v.sent) /\ v.idp \in Idps
  /\ \E S : redirects \in Seq(S)
  /\ Finder!HeardIsLastUsed

LEMMA RedirectKeeps ==
  ASSUME DiscoveryInv, NEW q \in DiscoveryRequests, Finder!Redirect(q)
  PROVE  DiscoveryInv'
  <1>1. PICK chosen \in IF q.passive THEN {Finder!MostRecent(cookie)} ELSE Idps :
          redirects' = Append(redirects,
            [request |-> q, url |-> Finder!AnswerUrl(q, chosen), chosen |-> chosen, last |-> lastSet])
    BY DEF Finder!Redirect
  <1>2. UNCHANGED <<cookie, visits, logins, lastSet>>
    BY DEF Finder!Redirect
  <1> DEFINE r == [request |-> q, url |-> Finder!AnswerUrl(q, chosen), chosen |-> chosen,
                   last |-> lastSet]
  <1>3. /\ redirects' = Append(redirects, r) /\ r.request = q /\ r.chosen = chosen
        /\ r.url = Finder!AnswerUrl(q, chosen) /\ r.last = lastSet
    BY <1>1
  <1> HIDE DEF r
  <1>4. chosen = (IF q.passive THEN r.last ELSE r.chosen)
    BY <1>3 DEF DiscoveryInv
  <1>5. r.url # Absent =>
          /\ \E k \in DOMAIN Registered :
               /\ Registered[k].location.base = r.url.base
               /\ Finder!IsPrefix(Registered[k].location.query, r.url.query)
          /\ (\A j \in DOMAIN OwnPlace(q).query :
                OwnPlace(q).query[j].name # Finder!ReturnIdParam(q)) =>
               Finder!Heard(r) = (IF q.passive THEN r.last ELSE r.chosen)
    BY <1>3, <1>4, ChosenIsHeard
  <1>6. PICK S : redirects \in Seq(S)
    BY DEF DiscoveryInv
  <1>7. /\ redirects' \in Seq(S \union {r})
        /\ \A i \in DOMAIN redirects' : \/ i \in DOMAIN redirects /\ redirects'[i] = redirects[i]
                                        \/ redirects'[i] = r
    BY <1>3, <1>6, OneMore
  <1>8. Finder!HeardIsLastUsed'
    BY <1>3, <1>5, <1>7 DEF DiscoveryInv, Finder!HeardIsLastUsed, OwnPlace
  <1>9. QED
    BY <1>2, <1>7, <1>8 DEF DiscoveryInv

LEMMA DiscoveryStep == DiscoveryInv /\ [Finder!DiscoveryNext]_finderVars => DiscoveryInv'
  <1> SUFFICES ASSUME DiscoveryInv, [Finder!DiscoveryNext]_finderVars PROVE DiscoveryInv'
    OBVIOUS
  <1>1. ASSUME NEW idp \in Idps, Finder!Visit(idp) PROVE DiscoveryInv'
    BY <1>1 DEF Finder!Visit, DiscoveryInv, Finder!HeardIsLastUsed
  <1>2. ASSUME NEW v \in visits, Finder!LoggedIn(v) PROVE DiscoveryInv'
    BY <1>2, AddedIsLast DEF Finder!LoggedIn, DiscoveryInv, Finder!HeardIsLastUsed
  <1>3. CASE UNCHANGED finderVars
    BY <1>3 DEF finderVars, DiscoveryInv, Finder!HeardIsLastUsed
  <1>4. QED
    BY <1>1, <1>2, <1>3, RedirectKeeps DEF Finder!DiscoveryNext

\* However logins interleave, an SP hears of the identity provider used last.
THEOREM LastUsedIsHeard == SignInSpec => []HeardIsLastUsed
  <1>1. SignInInit => DiscoveryInv
    <2>1. << >> \in Seq({})
      OBVIOUS
    <2>2. QED
      BY <2>1 DEF SignInInit, Finder!DiscoveryInit, DiscoveryInv, IsCookie, Finder!MostRecent,
         Finder!Listed, Finder!HeardIsLastUsed
  <1>2. DiscoveryInv /\ [SignInNext]_signInVars => DiscoveryInv'
    BY DiscoveryStep DEF SignInNext, WebStep, EidStep, ClientStep, FinderStep, signInVars, finderVars
  <1>3. DiscoveryInv => HeardIsLastUsed
    BY DEF DiscoveryInv, HeardIsLastUsed
  <1>4. QED
    BY <1>1, <1>2, <1>3, PTL DEF SignInSpec

-----------------------------------------------------------------------------
(* The Swedish profile: what a response under it is made of.                *)

LEMMA SameCardinality == \A S : Eid!Cardinality(S) = Cardinality(S)
  BY DEF Eid!Cardinality, Cardinality

IsEnvelope(r) ==
  r = [id |-> r.id, issuer |-> r.issuer, issuerFormat |-> r.issuerFormat,
       destination |-> r.destination, irt |-> r.irt, success |-> r.success, sig |-> r.sig,
       algorithmsAllowed |-> r.algorithmsAllowed, assertions |-> r.assertions,
       boxes |-> r.boxes]

IsStatement(a) ==
  a = [id |-> a.id, issued |-> a.issued, issuer |-> a.issuer, sig |-> a.sig,
       subject |-> a.subject, conditions |-> a.conditions, sessions |-> a.sessions,
       loas |-> a.loas, attributeStatements |-> a.attributeStatements]

\* An assertion, as it may come to be and as the library makes it.
Stated(a) == IsStatement(a) /\ Dated(a) /\ a.conditions.until \in Int /\ IsSequence(a.loas)
Plain(a) == Stated(a) /\ \E loa : a.loas = <<loa>>

LEMMA SequencesAre ==
  ASSUME NEW S, NEW s \in Seq(S) PROVE IsSequence(s)
  <1> DEFINE n == Len(s)
             T == {s[i] : i \in 1..n}
  <1>1. n \in Nat /\ DOMAIN s = 1..n /\ s = [i \in 1..n |-> s[i]]
    OBVIOUS
  <1> HIDE DEF n
  <1>2. s \in [1..n -> T]
    BY <1>1
  <1>3. n \in Nat
    BY <1>1
  <1>4. {s[i] : i \in DOMAIN s} = T
    BY <1>1
  <1> HIDE DEF T
  <1>5. s \in Seq(T)
    BY <1>2, <1>3, SeqDef
  <1>6. QED
    BY <1>4, <1>5 DEF IsSequence

\* What a change of one field leaves.
LEMMA StatementButOne ==
  ASSUME NEW a, Stated(a), NEW b, NEW x,
         \/ b = [a EXCEPT !.subject = x] \/ b = [a EXCEPT !.issuer = x]
         \/ b = [a EXCEPT !.sig = x] \/ b = [a EXCEPT !.attributeStatements = x]
         \/ b = [a EXCEPT !.issued = x] /\ x \in Int
  PROVE  Stated(b) /\ b.id = a.id
  <1>1. CASE b = [a EXCEPT !.subject = x]
    BY <1>1 DEF Stated, IsStatement, Dated
  <1>2. CASE b = [a EXCEPT !.issuer = x]
    BY <1>2 DEF Stated, IsStatement, Dated
  <1>3. CASE b = [a EXCEPT !.sig = x]
    BY <1>3 DEF Stated, IsStatement, Dated
  <1>4. CASE b = [a EXCEPT !.attributeStatements = x]
    BY <1>4 DEF Stated, IsStatement, Dated
  <1>5. CASE b = [a EXCEPT !.issued = x] /\ x \in Int
    BY <1>5 DEF Stated, IsStatement, Dated
  <1>6. QED
    BY <1>1, <1>2, <1>3, <1>4, <1>5

LEMMA StatementWithLoas ==
  ASSUME NEW a, Stated(a), NEW b, NEW x, NEW y, IsSequence(x),
         b = [a EXCEPT !.loas = x, !.sessions = y]
  PROVE  Stated(b) /\ b.id = a.id
  BY DEF Stated, IsStatement, Dated

LEMMA OtherStatements ==
  ASSUME NEW a, Plain(a), NEW b \in Eid!OtherAssertions(a)
  PROVE  Stated(b) /\ b.id = a.id
  <1> DEFINE bearer == a.subject.confirmations[1]
             holder == [bearer EXCEPT !.method = "holder-of-key"]
             Sessions(l) == [i \in DOMAIN l |-> a.sessions[1]]
             twice == a.loas \o a.loas
             ByIdp == [key |-> "idp", over |-> Eid!Unsigned(a), covers |-> "assertion"]
             ByOther == [key |-> "stranger", over |-> Eid!Unsigned(a), covers |-> "assertion"]
             Named2 == [a.subject.nameId EXCEPT !.encrypted = TRUE]
  <1>1. IsSequence(<< >>) /\ IsSequence(<<Absent>>) /\ IsSequence(<<"unknown">>) /\ IsSequence(twice)
    <2>1. PICK loa : a.loas = <<loa>>
      BY DEF Plain
    <2>2. << >> \in Seq({}) /\ <<Absent>> \in Seq({Absent}) /\ <<"unknown">> \in Seq({"unknown"})
          /\ a.loas \in Seq({loa})
      BY <2>1
    <2>3. twice \in Seq({loa})
      BY <2>2
    <2>4. QED
      BY <2>2, <2>3, SequencesAre
  <1>2. Stated(a) /\ a.issued \in Int
    BY DEF Plain, Stated, Dated
  <1>3. \/ \E cs \in {<< >>, <<holder>>, <<holder, bearer>>} : b = [a EXCEPT !.subject.confirmations = cs]
        \/ \E n \in {Absent, Named2} : b = [a EXCEPT !.subject.nameId = n]
        \/ \E i \in {Absent, Stranger} : b = [a EXCEPT !.subject.confirmations[1].data.irt = i]
        \/ \E l \in {<< >>, <<Absent>>, <<"unknown">>, twice} :
             b = [a EXCEPT !.loas = l, !.sessions = Sessions(l)]
        \/ \E n \in {0, 2} : b = [a EXCEPT !.attributeStatements = n]
        \/ b = [a EXCEPT !.subject = Absent] \/ b = [a EXCEPT !.issuer = Stranger]
        \/ b = [a EXCEPT !.issued = @ - 3]
        \/ b = [a EXCEPT !.sig = ByIdp] \/ b = [a EXCEPT !.sig = ByOther]
    BY DEF Eid!OtherAssertions, Eid!SignedBy
  <1> HIDE DEF bearer, holder, Sessions, twice, ByIdp, ByOther, Named2
  <1>4. ASSUME NEW cs, b = [a EXCEPT !.subject.confirmations = cs] PROVE Stated(b) /\ b.id = a.id
    <2> DEFINE x == [a.subject EXCEPT !.confirmations = cs]
    <2>1. b = [a EXCEPT !.subject = x]
      BY <1>2, <1>4 DEF Stated, IsStatement
    <2> HIDE DEF x
    <2>2. QED
      BY <1>2, <2>1, StatementButOne
  <1>5. ASSUME NEW n, b = [a EXCEPT !.subject.nameId = n] PROVE Stated(b) /\ b.id = a.id
    <2> DEFINE x == [a.subject EXCEPT !.nameId = n]
    <2>1. b = [a EXCEPT !.subject = x]
      BY <1>2, <1>5 DEF Stated, IsStatement
    <2> HIDE DEF x
    <2>2. QED
      BY <1>2, <2>1, StatementButOne
  <1>6. ASSUME NEW i, b = [a EXCEPT !.subject.confirmations[1].data.irt = i]
        PROVE  Stated(b) /\ b.id = a.id
    <2> DEFINE x == [a.subject EXCEPT !.confirmations[1].data.irt = i]
    <2>1. b = [a EXCEPT !.subject = x]
      BY <1>2, <1>6 DEF Stated, IsStatement
    <2> HIDE DEF x
    <2>2. QED
      BY <1>2, <2>1, StatementButOne
  <1>7. ASSUME NEW l \in {<< >>, <<Absent>>, <<"unknown">>, twice},
               b = [a EXCEPT !.loas = l, !.sessions = Sessions(l)]
        PROVE  Stated(b) /\ b.id = a.id
    <2> DEFINE y == Sessions(l)
    <2>1. IsSequence(l)
      BY <1>1
    <2>2. b = [a EXCEPT !.loas = l, !.sessions = y]
      BY <1>7
    <2> HIDE DEF y
    <2>3. QED
      BY <1>2, <2>1, <2>2, StatementWithLoas
  <1>8. ASSUME b = [a EXCEPT !.issued = @ - 3] PROVE Stated(b) /\ b.id = a.id
    <2> DEFINE x == a.issued - 3
    <2>1. b = [a EXCEPT !.issued = x] /\ x \in Int
      BY <1>2, <1>8
    <2> HIDE DEF x
    <2>2. QED
      BY <1>2, <2>1, StatementButOne
  <1>9. QED
    BY <1>2, <1>3, <1>4, <1>5, <1>6, <1>7, <1>8, StatementButOne

\* What the boxes of an envelope with the ID id hold.
Boxed(boxes, id) ==
  /\ IsSequence(boxes)
  /\ \A i \in DOMAIN boxes : Stated(boxes[i].assertion)
  /\ 1 \in DOMAIN boxes => boxes[1].assertion.id = id

LEMMA FewBoxes ==
  ASSUME NEW id, NEW b, NEW c, Stated(b.assertion), Stated(c.assertion), b.assertion.id = id
  PROVE  Boxed(<< >>, id) /\ Boxed(<<b>>, id) /\ Boxed(<<b, c>>, id)
  <1>1. Boxed(<< >>, id)
    <2>1. << >> \in Seq({})
      OBVIOUS
    <2>2. IsSequence(<< >>)
      BY <2>1, SequencesAre
    <2>3. QED
      BY <2>2 DEF Boxed
  <1>2. Boxed(<<b>>, id)
    <2> DEFINE s == <<b>>
    <2>1. DOMAIN s = {1} /\ s[1] = b /\ s \in Seq({b})
      OBVIOUS
    <2> HIDE DEF s
    <2>2. IsSequence(s)
      BY <2>1, SequencesAre
    <2>3. Boxed(s, id)
      BY <2>1, <2>2 DEF Boxed
    <2>4. QED
      BY <2>3 DEF s
  <1>3. Boxed(<<b, c>>, id)
    <2> DEFINE s == <<b, c>>
    <2>1. DOMAIN s = {1, 2} /\ s[1] = b /\ s[2] = c /\ s \in Seq({b, c})
      OBVIOUS
    <2> HIDE DEF s
    <2>2. IsSequence(s)
      BY <2>1, SequencesAre
    <2>3. Boxed(s, id)
      BY <2>1, <2>2 DEF Boxed
    <2>4. QED
      BY <2>3 DEF s
  <1>4. QED
    BY <1>1, <1>2, <1>3

\* A variation keeps the ID, the signature and the ID of the first assertion.
LEMMA EidVariations ==
  ASSUME NEW r, IsEnvelope(r), NEW a, r.boxes = <<Eid!Box(a)>>, Plain(a), a.id = r.id,
         NEW v \in Eid!Variations(r)
  PROVE  IsEnvelope(v) /\ v.id = r.id /\ v.sig = r.sig /\ Boxed(v.boxes, r.id)
  <1> DEFINE b == Eid!Box(a)
             far == [a EXCEPT !.id = @ + 10]
             other == Eid!Box(far)
             barred == [b EXCEPT !.algorithmsAllowed = FALSE]
             OtherBox(x) == Eid!Box(x)
  <1>1. Stated(a) /\ b.assertion = a /\ other.assertion = far /\ barred.assertion = a
    BY DEF Plain, Eid!Box
  <1>2. Stated(far)
    BY <1>1 DEF Stated, IsStatement, Dated
  <1>3. r.boxes = <<b>> /\ r.boxes[1] = b /\ r.boxes[1].assertion = a
    BY <1>1
  <1>4. [r.boxes EXCEPT ![1].algorithmsAllowed = FALSE] = <<barred>>
    <2>1. r.boxes = [i \in {1} |-> b]
      BY <1>3
    <2> HIDE DEF b
    <2>2. [r.boxes EXCEPT ![1].algorithmsAllowed = FALSE] = [i \in {1} |-> barred]
      BY <2>1
    <2> HIDE DEF barred
    <2>3. QED
      BY <2>2
  <1>5. \/ \E i \in {Absent, Stranger} : v = [r EXCEPT !.issuer = i]
        \/ \E i \in {Absent, Stranger} : v = [r EXCEPT !.irt = i]
        \/ \E x \in {<< >>, r.boxes} : v = [r EXCEPT !.assertions = <<a>>, !.boxes = x]
        \/ v = [r EXCEPT !.boxes = <<b, other>>] \/ v = [r EXCEPT !.boxes = << >>]
        \/ v = [r EXCEPT !.algorithmsAllowed = FALSE]
        \/ v = [r EXCEPT !.boxes[1].algorithmsAllowed = FALSE]
        \/ v = [r EXCEPT !.destination = Absent]
        \/ \E x \in Eid!OtherAssertions(a) : v = [r EXCEPT !.boxes = <<OtherBox(x)>>]
    BY <1>3 DEF Eid!Variations, Eid!OtherEnvelopes
  <1>6. v = [r EXCEPT !.boxes[1].algorithmsAllowed = FALSE] => v = [r EXCEPT !.boxes = <<barred>>]
    <2> DEFINE bs == [r.boxes EXCEPT ![1].algorithmsAllowed = FALSE]
    <2>1. v = [r EXCEPT !.boxes[1].algorithmsAllowed = FALSE] => v = [r EXCEPT !.boxes = bs]
      BY DEF IsEnvelope
    <2> HIDE DEF bs, b, barred
    <2>2. QED
      BY <1>4, <2>1 DEF bs
  <1> HIDE DEF b, other, barred, far
  <1>7. /\ Boxed(<< >>, r.id) /\ Boxed(<<b>>, r.id) /\ Boxed(<<b, other>>, r.id)
        /\ Boxed(<<barred>>, r.id)
    BY <1>1, <1>2, FewBoxes
  <1>8. ASSUME NEW x, NEW y, Boxed(x, r.id),
               v = [r EXCEPT !.boxes = x] \/ v = [r EXCEPT !.assertions = y, !.boxes = x]
        PROVE  IsEnvelope(v) /\ v.id = r.id /\ v.sig = r.sig /\ Boxed(v.boxes, r.id)
    <2>1. IsEnvelope(v) /\ v.id = r.id /\ v.boxes = x /\ v.sig = r.sig
      BY <1>8 DEF IsEnvelope
    <2>2. QED
      BY <1>8, <2>1
  <1>9. ASSUME NEW x \in Eid!OtherAssertions(a), v = [r EXCEPT !.boxes = <<OtherBox(x)>>]
        PROVE  IsEnvelope(v) /\ v.id = r.id /\ v.sig = r.sig /\ Boxed(v.boxes, r.id)
    <2> DEFINE o == OtherBox(x)
    <2>1. o.assertion = x
      BY DEF Eid!Box
    <2>2. v = [r EXCEPT !.boxes = <<o>>]
      BY <1>9
    <2> HIDE DEF o
    <2>3. Stated(x) /\ x.id = a.id
      BY OtherStatements
    <2>4. Boxed(<<o>>, r.id)
      BY <2>1, <2>3, FewBoxes
    <2>5. QED
      BY <1>8, <2>2, <2>4
  <1>10. ASSUME NEW x,
                \/ v = [r EXCEPT !.issuer = x] \/ v = [r EXCEPT !.irt = x]
                \/ v = [r EXCEPT !.algorithmsAllowed = x] \/ v = [r EXCEPT !.destination = x]
         PROVE  IsEnvelope(v) /\ v.id = r.id /\ v.sig = r.sig /\ Boxed(v.boxes, r.id)
    <2>1. IsEnvelope(v) /\ v.id = r.id /\ v.sig = r.sig /\ v.boxes = r.boxes
      BY <1>10 DEF IsEnvelope
    <2>2. QED
      BY <1>3, <1>7, <2>1
  <1>11. ASSUME NEW x \in {<< >>, r.boxes}, v = [r EXCEPT !.assertions = <<a>>, !.boxes = x]
         PROVE  IsEnvelope(v) /\ v.id = r.id /\ v.sig = r.sig /\ Boxed(v.boxes, r.id)
    BY <1>3, <1>7, <1>8, <1>11
  <1> HIDE DEF OtherBox
  <1>12. QED
    BY <1>5, <1>6, <1>7, <1>8, <1>9, <1>10, <1>11

-----------------------------------------------------------------------------
(* What the IdP makes, and what circulates.                                 *)

\* An assertion made at the time at.
MadeAt(at, id, irt, user, loa) ==
  [id |-> id, issued |-> at, issuer |-> Idp, sig |-> Absent,
   subject |->
     [nameId |-> [value |-> user, format |-> "persistent", encrypted |-> FALSE],
      confirmations |->
        <<[method |-> "bearer",
           data |-> [recipient |-> Eid!Acs, until |-> at + Eid!AnswerLifetime, irt |-> irt,
                     notBefore |-> Absent, address |-> Absent]]>>],
   conditions |-> [notBefore |-> at, until |-> at + Eid!AnswerLifetime, audiences |-> {{Sp}},
                   proxies |-> Absent],
   sessions |-> <<at + Eid!AnswerLifetime>>, loas |-> <<loa>>, attributeStatements |-> 1]

LEMMA MadeIsPlain ==
  ASSUME NEW at \in Nat, NEW id, NEW irt, NEW user, NEW loa
  PROVE  Plain(MadeAt(at, id, irt, user, loa)) /\ MadeAt(at, id, irt, user, loa).id = id
  <1> DEFINE a == MadeAt(at, id, irt, user, loa)
             l == <<loa>>
  <1>1. IsStatement(a) /\ a.loas = l /\ a.id = id
    BY DEF MadeAt, IsStatement
  <1>2. Dated(a) /\ a.conditions.until \in Int
    BY DEF MadeAt, Dated, Eid!AnswerLifetime
  <1>3. IsSequence(l)
    <2>1. l \in Seq({loa})
      OBVIOUS
    <2> HIDE DEF l
    <2>2. QED
      BY <2>1, SequencesAre
  <1> HIDE DEF a
  <1>4. Plain(a)
    BY <1>1, <1>2, <1>3 DEF Plain, Stated
  <1>5. QED
    BY <1>1, <1>4 DEF a

\* An envelope of the library's own IdP.
Owned(r, until) ==
  /\ IsEnvelope(r) /\ r.issuer = Idp /\ r.issuerFormat = "entity" /\ r.destination = Eid!Acs
  /\ r.irt \in {Absent, Eid!RequestId} /\ r.algorithmsAllowed /\ r.assertions = << >>
  /\ r.sig = [key |-> "idp", over |-> Eid!Unsigned(r), covers |-> "response"]
  /\ \/ /\ r.success
        /\ \E at \in 0..until : \E user, loa : r.boxes = <<Eid!Box(MadeAt(at, r.id, r.irt, user, loa))>>
     \/ ~r.success /\ r.boxes = << >>

\* The request asks for what the deployment asks for.
Posted(m, made, ids, until) ==
  LET r == m.response
  IN /\ IsEnvelope(r) /\ r.id \in ids /\ Boxed(r.boxes, r.id)
     /\ r.sig # Absent /\ r.sig.key = "idp" => r.sig.over \in made
     /\ m.origin = "own" => Owned(r, until)

EidTyped ==
  /\ deployment \in Deployments /\ clock \in Nat
  /\ Eid!Asked => asked.context = deployment.requested
  /\ \E S : received \in Seq(S)

PostedInv ==
  /\ IsFiniteSet(posted)
  /\ \A m \in posted : Posted(m, signed, 1..Cardinality(posted), clock)

\* An ID tells what was signed.
SignedInv ==
  /\ \A x \in signed : x.id \in 1..Cardinality(posted)
  /\ \A x, y \in signed : x.id = y.id => x = y

\* Signing changes nothing but the signature, which covers the rest.
SignedAs(s, r, key, covers) ==
  /\ IsEnvelope(s) /\ s.id = r.id /\ s.boxes = r.boxes /\ s.issuer = r.issuer
  /\ s.issuerFormat = r.issuerFormat /\ s.destination = r.destination /\ s.irt = r.irt
  /\ s.algorithmsAllowed = r.algorithmsAllowed /\ s.assertions = r.assertions
  /\ s.success = r.success
  /\ s.sig = [key |-> key, over |-> Eid!Unsigned(s), covers |-> covers]

LEMMA SignedEnvelope ==
  ASSUME NEW r, IsEnvelope(r), NEW key, NEW covers, NEW s, s = Eid!SignedBy(r, key, covers)
  PROVE  SignedAs(s, r, key, covers)
  <1> DEFINE g == [key |-> key, over |-> Eid!Unsigned(r), covers |-> covers]
  <1>1. s = [r EXCEPT !.sig = g]
    BY DEF Eid!SignedBy
  <1>2. g = [key |-> key, over |-> Eid!Unsigned(r), covers |-> covers]
    OBVIOUS
  <1> HIDE DEF g
  <1>3. /\ IsEnvelope(s) /\ s.id = r.id /\ s.boxes = r.boxes /\ s.issuer = r.issuer
        /\ s.issuerFormat = r.issuerFormat /\ s.destination = r.destination /\ s.irt = r.irt
        /\ s.algorithmsAllowed = r.algorithmsAllowed /\ s.assertions = r.assertions
        /\ s.success = r.success /\ s.sig = g
    BY <1>1 DEF IsEnvelope
  <1>4. Eid!Unsigned(s) = Eid!Unsigned(r)
    BY <1>1 DEF Eid!Unsigned, IsEnvelope
  <1>5. QED
    BY <1>2, <1>3, <1>4 DEF SignedAs

\* What Respond, Decline and RespondOtherwise make before it is signed.
Unsent(r, irt, ok, boxes) ==
  /\ IsEnvelope(r) /\ r.id = Eid!NextId /\ r.issuer = Idp /\ r.issuerFormat = "entity"
  /\ r.destination = Eid!Acs /\ r.irt = irt /\ r.success = ok /\ r.sig = Absent
  /\ r.algorithmsAllowed /\ r.assertions = << >> /\ r.boxes = boxes

LEMMA DeclinedAnswer ==
  ASSUME NEW r, r = Eid!Response(Eid!NextId, Eid!RequestId, FALSE, << >>)
  PROVE  Unsent(r, Eid!RequestId, FALSE, << >>)
  BY DEF Eid!Response, IsEnvelope, Unsent

LEMMA EncryptedAnswer ==
  ASSUME EidTyped, NEW irt, NEW user, NEW loa, NEW r,
         r = Eid!EncryptAssertions(Eid!Response(Eid!NextId, irt, TRUE,
               <<Eid!Assertion(Eid!NextId, irt, user, loa)>>))
  PROVE  Unsent(r, irt, TRUE, <<Eid!Box(MadeAt(clock, Eid!NextId, irt, user, loa))>>)
  <1> DEFINE id == Eid!NextId
             a == MadeAt(clock, id, irt, user, loa)
             list == <<a>>
             q == Eid!Response(id, irt, TRUE, list)
             b == Eid!Box(a)
             boxes == [i \in DOMAIN q.assertions |-> Eid!Box(q.assertions[i])]
  <1>1. a = Eid!Assertion(id, irt, user, loa)
    BY DEF MadeAt, Eid!Assertion
  <1>2. list = <<a>>
    OBVIOUS
  <1> HIDE DEF a, id, list
  <1>3. /\ IsEnvelope(q) /\ q.id = id /\ q.issuer = Idp /\ q.issuerFormat = "entity"
        /\ q.destination = Eid!Acs /\ q.irt = irt /\ q.success = TRUE /\ q.sig = Absent
        /\ q.algorithmsAllowed /\ q.assertions = list
    BY DEF Eid!Response, IsEnvelope
  <1>4. r = [q EXCEPT !.assertions = << >>, !.boxes = boxes]
    BY <1>1, <1>2 DEF Eid!EncryptAssertions, id
  <1>5. boxes = <<b>>
    <2>1. DOMAIN list = {1} /\ list[1] = a
      BY <1>2
    <2>2. boxes = [i \in {1} |-> b]
      BY <1>3, <2>1
    <2> HIDE DEF b, boxes
    <2>3. QED
      BY <2>2
  <1> HIDE DEF q, b, boxes
  <1>6. /\ IsEnvelope(r) /\ r.id = id /\ r.issuer = Idp /\ r.issuerFormat = "entity"
        /\ r.destination = Eid!Acs /\ r.irt = irt /\ r.success = TRUE /\ r.sig = Absent
        /\ r.algorithmsAllowed /\ r.assertions = << >> /\ r.boxes = boxes
    BY <1>3, <1>4 DEF IsEnvelope
  <1>7. QED
    BY <1>5, <1>6 DEF id, a, b, Unsent

\* What is posted has an ID of its own.
Posting(m) ==
  /\ posted' = posted \union {m}
  /\ LET r == m.response
     IN signed' = IF r.sig # Absent /\ r.sig.key = "idp" THEN signed \union {Eid!Unsigned(r)}
                  ELSE signed
  /\ UNCHANGED <<deployment, clock, asked, used, received>>
  /\ Posted(m, signed', {Eid!NextId}, clock)

LEMMA PostingAdds ==
  ASSUME EidTyped, PostedInv, SignedInv, NEW m, Posting(m)
  PROVE  PostedInv' /\ SignedInv'
  <1> DEFINE n == Cardinality(posted)
             r == m.response
             x == Eid!Unsigned(r)
  <1>1. IsFiniteSet(posted) /\ n \in Nat /\ Eid!NextId = n + 1
    BY FS_CardinalityType, SameCardinality DEF PostedInv, Eid!NextId
  <1>2. Posted(m, signed', {n + 1}, clock) /\ posted' = posted \union {m} /\ clock' = clock
    BY <1>1 DEF Posting
  <1>3. IsEnvelope(r) /\ r.id = n + 1
    BY <1>2 DEF Posted
  <1>4. x.id = n + 1
    BY <1>3 DEF Eid!Unsigned, IsEnvelope
  <1>5. m \notin posted
    <2> SUFFICES ASSUME m \in posted PROVE FALSE
      OBVIOUS
    <2>1. r.id \in 1..n
      BY DEF PostedInv, Posted
    <2>2. QED
      BY <1>1, <1>3, <2>1
  <1>6. IsFiniteSet(posted') /\ Cardinality(posted') = n + 1
    BY <1>1, <1>2, <1>5, FS_AddElement
  <1>7. signed \subseteq signed' /\ signed' \subseteq signed \union {x}
    BY DEF Posting
  <1> HIDE DEF x, r
  <1>8. ASSUME NEW k \in posted' PROVE Posted(k, signed', 1..(n + 1), clock)
    <2>1. CASE k = m
      BY <1>1, <1>2, <2>1 DEF Posted
    <2>2. CASE k \in posted
      <3>1. Posted(k, signed, 1..n, clock)
        BY <2>2 DEF PostedInv
      <3>2. 1..n \subseteq 1..(n + 1)
        BY <1>1
      <3>3. QED
        BY <1>7, <3>1, <3>2 DEF Posted
    <2>3. QED
      BY <1>2, <2>1, <2>2
  <1>9. PostedInv'
    BY <1>2, <1>6, <1>8 DEF PostedInv
  <1>10. ASSUME NEW y \in signed' PROVE y.id \in 1..(n + 1) /\ (y = x \/ (y \in signed /\ y.id # n + 1))
    <2>1. CASE y = x
      BY <1>1, <1>4, <2>1
    <2>2. CASE y \in signed
      <3>1. y.id \in 1..n
        BY <2>2 DEF SignedInv
      <3>2. QED
        BY <1>1, <2>2, <3>1
    <2>3. QED
      BY <1>7, <2>1, <2>2
  <1> HIDE DEF n
  <1>11. ASSUME NEW y \in signed', NEW z \in signed', y.id = z.id PROVE y = z
    <2>1. CASE y \in signed /\ z \in signed
      BY <1>11, <2>1 DEF SignedInv
    <2>2. QED
      BY <1>4, <1>10, <1>11, <2>1
  <1>12. QED
    BY <1>6, <1>9, <1>10, <1>11 DEF SignedInv

LEMMA OwnIsPosted ==
  ASSUME EidTyped, Eid!Respond \/ Eid!Decline PROVE \E m : Posting(m)
  <1> DEFINE id == Eid!NextId
  <1>1. clock \in Nat /\ clock \in 0..clock
    BY DEF EidTyped
  <1>2. ASSUME NEW q, NEW irt \in {Absent, Eid!RequestId}, NEW ok, NEW boxes, Unsent(q, irt, ok, boxes),
               NEW s, s = Eid!SignedBy(q, "idp", "response"), Eid!Post("own", s),
               \/ /\ ok = TRUE
                  /\ \E user, loa : boxes = <<Eid!Box(MadeAt(clock, id, irt, user, loa))>>
               \/ ok = FALSE /\ boxes = << >>
        PROVE  \E m : Posting(m)
    <2> DEFINE m == [origin |-> "own", response |-> s]
    <2>1. SignedAs(s, q, "idp", "response")
      BY <1>2, SignedEnvelope DEF Unsent
    <2>2. /\ IsEnvelope(s) /\ s.id = id /\ s.issuer = Idp /\ s.issuerFormat = "entity"
          /\ s.destination = Eid!Acs /\ s.irt = irt /\ s.success = ok /\ s.algorithmsAllowed
          /\ s.assertions = << >> /\ s.boxes = boxes
          /\ s.sig = [key |-> "idp", over |-> Eid!Unsigned(s), covers |-> "response"]
      BY <1>2, <2>1 DEF SignedAs, Unsent
    <2>3. Owned(s, clock)
      BY <1>1, <1>2, <2>2 DEF Owned
    <2>4. Boxed(s.boxes, id)
      <3>1. CASE boxes = << >>
        <4>1. << >> \in Seq({})
          OBVIOUS
        <4>2. IsSequence(<< >>)
          BY <4>1, SequencesAre
        <4>3. QED
          BY <2>2, <3>1, <4>2 DEF Boxed
      <3>2. ASSUME NEW user, NEW loa, boxes = <<Eid!Box(MadeAt(clock, id, irt, user, loa))>>
            PROVE  Boxed(s.boxes, id)
        <4> DEFINE a == MadeAt(clock, id, irt, user, loa)
                   b == Eid!Box(a)
        <4>1. Plain(a) /\ a.id = id /\ b.assertion = a
          BY <1>1, MadeIsPlain DEF Eid!Box
        <4>2. boxes = <<b>>
          BY <3>2
        <4> HIDE DEF a, b
        <4>3. Stated(b.assertion) /\ b.assertion.id = id
          BY <4>1 DEF Plain
        <4>4. Boxed(<<b>>, id)
          BY <4>3, FewBoxes
        <4>5. QED
          BY <2>2, <4>2, <4>4
      <3>3. QED
        BY <1>2, <3>1, <3>2
    <2>5. m.origin = "own" /\ m.response = s
      OBVIOUS
    <2>6. /\ posted' = posted \union {m}
          /\ signed' = IF s.sig # Absent /\ s.sig.key = "idp" THEN signed \union {Eid!Unsigned(s)} ELSE signed
          /\ UNCHANGED <<deployment, clock, asked, used, received>>
      BY <1>2 DEF Eid!Post
    <2>7. s.sig # Absent /\ s.sig.key = "idp" => s.sig.over \in signed'
      BY <2>2, <2>6
    <2> HIDE DEF m, id
    <2>8. Posted(m, signed', {id}, clock)
      BY <2>2, <2>3, <2>4, <2>5, <2>7 DEF Posted
    <2>9. Posting(m)
      BY <2>5, <2>6, <2>8 DEF Posting, id
    <2>10. QED
      BY <2>9
  <1>3. CASE Eid!Respond
    <2>1. PICK irt \in Eid!Answered, user \in Users,
               chosen \in {Absent} \union {deployment.issuable[i] : i \in DOMAIN deployment.issuable} :
            Eid!Post("own", Eid!SignedBy(Eid!EncryptAssertions(
              Eid!Response(Eid!NextId, irt, TRUE,
                <<Eid!Assertion(Eid!NextId, irt, user, Eid!DeliveredLoa(chosen))>>)),
              "idp", "response"))
      BY <1>3 DEF Eid!Respond
    <2> DEFINE loa == Eid!DeliveredLoa(chosen)
               q == Eid!EncryptAssertions(Eid!Response(Eid!NextId, irt, TRUE,
                      <<Eid!Assertion(Eid!NextId, irt, user, loa)>>))
               s == Eid!SignedBy(q, "idp", "response")
               boxes == <<Eid!Box(MadeAt(clock, id, irt, user, loa))>>
    <2>2. irt \in {Absent, Eid!RequestId}
      BY <2>1 DEF Eid!Answered
    <2>3. Eid!Post("own", s)
      BY <2>1
    <2>4. \E u, l : boxes = <<Eid!Box(MadeAt(clock, id, irt, u, l))>>
      OBVIOUS
    <2>5. q = Eid!EncryptAssertions(Eid!Response(Eid!NextId, irt, TRUE,
                <<Eid!Assertion(Eid!NextId, irt, user, loa)>>))
      OBVIOUS
    <2> HIDE DEF q, loa
    <2>6. Unsent(q, irt, TRUE, boxes)
      BY <2>5, EncryptedAnswer
    <2>7. s = Eid!SignedBy(q, "idp", "response")
      OBVIOUS
    <2> HIDE DEF s, boxes, id
    <2>8. QED
      BY <1>2, <2>2, <2>3, <2>4, <2>6, <2>7
  <1>4. CASE Eid!Decline
    <2> DEFINE q == Eid!Response(Eid!NextId, Eid!RequestId, FALSE, << >>)
               s == Eid!SignedBy(q, "idp", "response")
    <2>1. Eid!Post("own", s)
      BY <1>4 DEF Eid!Decline
    <2>2. q = Eid!Response(Eid!NextId, Eid!RequestId, FALSE, << >>)
      OBVIOUS
    <2> HIDE DEF q
    <2>3. Unsent(q, Eid!RequestId, FALSE, << >>)
      BY <2>2, DeclinedAnswer
    <2>4. s = Eid!SignedBy(q, "idp", "response")
      OBVIOUS
    <2> HIDE DEF s, id
    <2>5. QED
      BY <1>2, <2>1, <2>3, <2>4
  <1>5. QED
    BY <1>3, <1>4

\* Another implementation: a variation or the usual answer, signed or not.
LEMMA OthersPost ==
  ASSUME EidTyped, Eid!RespondOtherwise PROVE \E m : Posting(m)
  <1> DEFINE id == Eid!NextId
             Over(s) == [key |-> "idp", over |-> Eid!Unsigned(s), covers |-> "response"]
  <1>1. clock \in Nat
    BY DEF EidTyped
  <1>2. ASSUME NEW s, IsEnvelope(s), s.id = id, Boxed(s.boxes, id), Eid!Post("peer", s),
               s.sig # Absent /\ s.sig.key = "idp" => s.sig.over = Eid!Unsigned(s)
        PROVE  \E m : Posting(m)
    <2> DEFINE m == [origin |-> "peer", response |-> s]
    <2>1. m.origin = "peer" /\ m.response = s
      OBVIOUS
    <2>2. /\ posted' = posted \union {m}
          /\ signed' = IF s.sig # Absent /\ s.sig.key = "idp" THEN signed \union {Eid!Unsigned(s)} ELSE signed
          /\ UNCHANGED <<deployment, clock, asked, used, received>>
      BY <1>2 DEF Eid!Post
    <2>3. s.sig # Absent /\ s.sig.key = "idp" => s.sig.over \in signed'
      BY <1>2, <2>2
    <2> HIDE DEF m, id
    <2>4. Posted(m, signed', {id}, clock)
      BY <1>2, <2>1, <2>3 DEF Posted
    <2>5. Posting(m)
      BY <2>1, <2>2, <2>4 DEF Posting, id
    <2>6. QED
      BY <2>5
  <1>3. PICK user \in Users :
          LET usual == Eid!EncryptAssertions(Eid!Response(Eid!NextId, Eid!RequestId, TRUE,
                         <<Eid!Assertion(Eid!NextId, Eid!RequestId, user, deployment.issuable[1])>>))
          IN \/ \E v \in Eid!Variations(usual) : Eid!Post("peer", Eid!SignedBy(v, "idp", "response"))
             \/ Eid!Post("peer", usual)
             \/ Eid!Post("peer", Eid!SignedBy(usual, "stranger", "response"))
             \/ Eid!Post("peer", Eid!SignedBy(usual, "idp", "sibling"))
    BY DEF Eid!RespondOtherwise
  <1> DEFINE loa == deployment.issuable[1]
             usual == Eid!EncryptAssertions(Eid!Response(Eid!NextId, Eid!RequestId, TRUE,
                        <<Eid!Assertion(Eid!NextId, Eid!RequestId, user, loa)>>))
             a == MadeAt(clock, id, Eid!RequestId, user, loa)
             b == Eid!Box(a)
  <1>4. \/ \E v \in Eid!Variations(usual) : Eid!Post("peer", Eid!SignedBy(v, "idp", "response"))
        \/ Eid!Post("peer", usual)
        \/ Eid!Post("peer", Eid!SignedBy(usual, "stranger", "response"))
        \/ Eid!Post("peer", Eid!SignedBy(usual, "idp", "sibling"))
    BY <1>3
  <1>5. usual = Eid!EncryptAssertions(Eid!Response(Eid!NextId, Eid!RequestId, TRUE,
                  <<Eid!Assertion(Eid!NextId, Eid!RequestId, user, loa)>>))
    OBVIOUS
  <1> HIDE DEF usual, loa
  <1>6. Unsent(usual, Eid!RequestId, TRUE, <<Eid!Box(MadeAt(clock, Eid!NextId, Eid!RequestId, user, loa))>>)
    BY <1>5, EncryptedAnswer
  <1>7. IsEnvelope(usual) /\ usual.id = id /\ usual.sig = Absent /\ usual.boxes = <<b>>
    BY <1>6 DEF Unsent
  <1>8. Plain(a) /\ a.id = id /\ b.assertion = a /\ b = Eid!Box(a)
    BY <1>1, MadeIsPlain DEF Eid!Box
  <1> HIDE DEF a, b
  <1>9. Boxed(usual.boxes, id)
    <2>1. Stated(b.assertion) /\ b.assertion.id = id
      BY <1>8 DEF Plain
    <2>2. Boxed(<<b>>, id)
      BY <2>1, FewBoxes
    <2>3. QED
      BY <1>7, <2>2
  <1> HIDE DEF id
  <1>10. ASSUME NEW v, IsEnvelope(v), v.id = id, Boxed(v.boxes, id), NEW key, NEW covers,
                NEW s, s = Eid!SignedBy(v, key, covers), Eid!Post("peer", s)
         PROVE  \E m : Posting(m)
    <2>1. SignedAs(s, v, key, covers)
      BY <1>10, SignedEnvelope
    <2>2. /\ IsEnvelope(s) /\ s.id = id /\ Boxed(s.boxes, id)
          /\ s.sig # Absent /\ s.sig.key = "idp" => s.sig.over = Eid!Unsigned(s)
      BY <1>10, <2>1 DEF SignedAs
    <2>3. QED
      BY <1>2, <1>10, <2>2
  <1>11. ASSUME NEW v \in Eid!Variations(usual) PROVE IsEnvelope(v) /\ v.id = id /\ Boxed(v.boxes, id)
    <2>1. usual.boxes = <<Eid!Box(a)>> /\ a.id = usual.id
      BY <1>7, <1>8
    <2>2. IsEnvelope(v) /\ v.id = usual.id /\ Boxed(v.boxes, usual.id)
      BY <1>7, <1>8, <2>1, EidVariations
    <2>3. QED
      BY <1>7, <2>2
  <1>12. ASSUME Eid!Post("peer", usual) PROVE \E m : Posting(m)
    BY <1>2, <1>7, <1>9, <1>12
  <1>13. QED
    BY <1>4, <1>7, <1>9, <1>10, <1>11, <1>12

\* What is altered keeps the signature that it had.
LEMMA AlterKeeps ==
  ASSUME EidTyped, PostedInv, SignedInv, Eid!Alter
  PROVE  PostedInv' /\ SignedInv'
  <1>1. PICK m \in posted : /\ m.origin = "own" /\ m.response.boxes # << >>
                            /\ \E v \in Eid!Variations(m.response) :
                                 posted' = {[origin |-> "altered", response |-> v]}
    BY DEF Eid!Alter
  <1>2. PICK v \in Eid!Variations(m.response) : posted' = {[origin |-> "altered", response |-> v]}
    BY <1>1
  <1> DEFINE r == m.response
             k == [origin |-> "altered", response |-> v]
  <1>3. UNCHANGED <<deployment, clock, asked, signed, used, received>> /\ Cardinality(posted) = 1
    BY SameCardinality DEF Eid!Alter
  <1>4. k.origin = "altered" /\ k.response = v /\ posted' = {k}
    BY <1>2
  <1>5. v \in Eid!Variations(r)
    BY <1>2
  <1> HIDE DEF k, r
  <1>6. /\ IsEnvelope(r) /\ r.id \in 1..1 /\ Owned(r, clock)
        /\ r.sig # Absent /\ r.sig.key = "idp" => r.sig.over \in signed
    BY <1>1, <1>3 DEF PostedInv, Posted, r
  <1>7. PICK at \in 0..clock : \E user, loa : r.boxes = <<Eid!Box(MadeAt(at, r.id, r.irt, user, loa))>>
    BY <1>1, <1>6 DEF Owned, r
  <1> PICK user, loa : r.boxes = <<Eid!Box(MadeAt(at, r.id, r.irt, user, loa))>>
    BY <1>7
  <1> DEFINE a == MadeAt(at, r.id, r.irt, user, loa)
  <1>8. Plain(a) /\ a.id = r.id
    <2>1. at \in Nat
      BY DEF EidTyped
    <2>2. QED
      BY <2>1, MadeIsPlain
  <1>9. r.boxes = <<Eid!Box(a)>>
    BY <1>7
  <1> HIDE DEF a
  <1>10. IsEnvelope(v) /\ v.id = r.id /\ v.sig = r.sig /\ Boxed(v.boxes, r.id)
    BY <1>5, <1>6, <1>8, <1>9, EidVariations
  <1>11. IsFiniteSet(posted') /\ Cardinality(posted') = 1
    BY <1>4, FS_Singleton
  <1>12. Posted(k, signed, 1..1, clock)
    BY <1>4, <1>6, <1>10 DEF Posted
  <1>13. PostedInv'
    BY <1>3, <1>4, <1>11, <1>12 DEF PostedInv
  <1>14. SignedInv'
    BY <1>3, <1>11 DEF SignedInv
  <1>15. QED
    BY <1>13, <1>14

\* Time passes, requests are built and responses delivered.
LEMMA PostedStep ==
  ASSUME EidTyped, PostedInv, SignedInv, [Eid!Next]_eidVars
  PROVE  PostedInv' /\ SignedInv'
  <1>1. CASE Eid!Respond \/ Eid!Decline
    BY <1>1, OwnIsPosted, PostingAdds
  <1>2. CASE Eid!RespondOtherwise
    BY <1>2, OthersPost, PostingAdds
  <1>3. CASE Eid!Alter
    BY <1>3, AlterKeeps
  <1>4. CASE Eid!BuildRequest \/ Eid!Deliver \/ Eid!Tick \/ UNCHANGED eidVars
    <2>1. UNCHANGED <<posted, signed>> /\ (clock' = clock \/ clock' = clock + 1) /\ clock \in Nat
      BY <1>4 DEF Eid!BuildRequest, Eid!Deliver, Eid!Tick, eidVars, EidTyped
    <2>2. 0..clock \subseteq 0..clock'
      BY <2>1
    <2>3. ASSUME NEW m \in posted, Posted(m, signed, 1..Cardinality(posted), clock)
          PROVE  Posted(m, signed, 1..Cardinality(posted), clock')
      <3>1. Owned(m.response, clock) => Owned(m.response, clock')
        BY <2>2 DEF Owned
      <3>2. QED
        BY <2>3, <3>1 DEF Posted
    <2>4. QED
      BY <2>1, <2>3 DEF PostedInv, SignedInv
  <1>5. QED
    BY <1>1, <1>2, <1>3, <1>4 DEF Eid!Next

-----------------------------------------------------------------------------
(* The Swedish profile runs the checklist of the browser profile.           *)

LEMMA SameResponseChecks ==
  \A r, p, c : Eid!FailedOfResponse(r, p, c) = FailedOfResponse(r, p, c)
  BY DEF Eid!FailedOfResponse, FailedOfResponse, Eid!DestinationOk, DestinationOk,
     Eid!IssuerFormatOk, IssuerFormatOk, Eid!InResponseToOk, InResponseToOk,
     Eid!ResponseSignatureOk, ResponseSignatureOk, Eid!DsObjectOk, DsObjectOk,
     Eid!UrlsMatch, UrlsMatch

LEMMA SameReplays ==
  /\ \A a, p, c : Eid!ReplayExpiry(a, p, c) = ReplayExpiry(a, p, c)
  /\ \A r, i, p, c, s : Eid!Replayed(r, i, p, c, s) = Replayed(r, i, p, c, s)
  /\ \A r, p, c, s : Eid!SeenAfter(r, p, c, s) = SeenAfter(r, p, c, s)
  BY DEF Eid!SeenAfter, SeenAfter, Eid!Replayed, Replayed, Eid!ReplayExpiry, ReplayExpiry,
     Eid!Lesser, Lesser, Eid!Live, Live

LEMMA SameConditions ==
  \A k, p, c : Eid!FailedConditions(k, p, c) = FailedConditions(k, p, c)
  BY DEF Eid!FailedConditions, FailedConditions, Eid!NotBeforeValid, NotBeforeValid,
     Eid!NotOnOrAfterValid, NotOnOrAfterValid, Eid!AudiencesAllow, AudiencesAllow

LEMMA SameConfirmation ==
  \A a, p, c : Eid!FailedConfirmation(a, p, c) = FailedConfirmation(a, p, c)
  BY DEF Eid!FailedConfirmation, FailedConfirmation, Eid!FailedData, FailedData, Eid!Bearers,
     Bearers, Eid!FirstAt, FirstAt, Eid!UrlsMatch, UrlsMatch, Eid!NotOnOrAfterValid,
     NotOnOrAfterValid, Eid!InResponseToOk, InResponseToOk

LEMMA SameStatements ==
  \A a, p, c : Eid!FailedStatements(a, p, c) = FailedStatements(a, p, c)
  BY DEF Eid!FailedStatements, FailedStatements, Eid!NotOnOrAfterValid, NotOnOrAfterValid

LEMMA SameOthers ==
  /\ \A a, p, c : Eid!SignatureOk(a, p, c) = SignatureOk(a, p, c)
  /\ \A a, p, c : Eid!AgeOk(a, p, c) = AgeOk(a, p, c)
  /\ \A a, p, c, o : Eid!PersistentIdOk(a, p, c, o) = PersistentIdOk(a, p, c, o)
  /\ \A p, c : Eid!FailedRelayState(p, c) = FailedRelayState(p, c)
  BY DEF Eid!SignatureOk, SignatureOk, Eid!AgeOk, AgeOk, Eid!PersistentIdOk, PersistentIdOk,
     Eid!PersistentName, PersistentName, Eid!WithinAgeLimit, WithinAgeLimit,
     Eid!FailedRelayState, FailedRelayState, Eid!RelayStateClean, RelayStateClean

LEMMA SameChecklist ==
  \A r, p, c, s, o : Eid!Failures(r, p, c, s, o) = Failures(r, p, c, s, o)
  <1>1. \A r, i, p, c, s, o :
          Eid!FailedOfAssertion(r, i, p, c, s, o) = FailedOfAssertion(r, i, p, c, s, o)
    BY SameConditions, SameConfirmation, SameStatements, SameOthers, SameReplays
    DEF Eid!FailedOfAssertion, FailedOfAssertion
  <1>2. QED
    BY <1>1, SameResponseChecks, SameOthers DEF Eid!Failures, Failures

-----------------------------------------------------------------------------
(* What the SP takes over.                                                  *)

EidSecurity == Eid!SecurityOf(deployment)

\* What is known of an accepted delivery, whatever happens later.
Assured(d) ==
  LET r == d.message.response
      a == r.boxes[1].assertion
      wanted == deployment.requested
  IN /\ IsEnvelope(r) /\ Stated(a) /\ a.id = r.id
     /\ Eid!Unsigned(r) \in signed /\ r.assertions = << >> /\ Len(r.boxes) = 1
     /\ wanted # << >> => \E k \in DOMAIN wanted : a.loas = <<wanted[k]>>
     /\ r.irt = Eid!RequestId \/ (r.irt = Absent /\ deployment.unsolicited)
     /\ d.at <= a.issued + Eid!DefaultConfig.maxAge
     /\ d.at < a.conditions.until + Eid!MaxSkew

\* And of the cache.
UsedFor(d) ==
  LET a == d.message.response.boxes[1].assertion
  IN clock < ExpiryUnder(a, EidSecurity) =>
       a.id \in DOMAIN used /\ used[a.id] >= ExpiryUnder(a, EidSecurity)

Granted == {i \in DOMAIN received : received[i].verdict = "accepted"}

UsedInv ==
  /\ SeenTyped(used)
  /\ \A i \in Granted : Assured(received[i]) /\ UsedFor(received[i])

GrantedOnce ==
  \A i, j \in Granted :
    received[i].message.response.boxes[1].assertion.id
      = received[j].message.response.boxes[1].assertion.id => i = j

EidInv == EidTyped /\ PostedInv /\ SignedInv /\ UsedInv /\ GrantedOnce

LEMMA EidLimits ==
  ASSUME EidTyped
  PROVE  /\ EidSecurity.skew \in Nat /\ EidSecurity.skew <= Eid!MaxSkew /\ EidSecurity.maxAge \in Nat
         /\ EidSecurity.maxAge = Eid!DefaultConfig.maxAge
         /\ EidSecurity.unsolicited = deployment.unsolicited
  <1>1. deployment.skew \in Nat
    BY DeploymentsAssumption DEF EidTyped
  <1>2. EidSecurity.skew = Eid!Lesser(deployment.skew, 1) /\ EidSecurity.maxAge = 3
        /\ Eid!DefaultConfig.maxAge = 3 /\ EidSecurity.unsolicited = deployment.unsolicited
    BY DEF EidSecurity, Eid!SecurityOf, Eid!DefaultConfig, Eid!MaxSkew
  <1>3. Eid!Lesser(deployment.skew, 1) \in Nat /\ Eid!Lesser(deployment.skew, 1) <= 1
    BY <1>1 DEF Eid!Lesser
  <1>4. QED
    BY <1>2, <1>3 DEF Eid!MaxSkew

\* One delivery.
EidTaking(d) ==
  LET q == Eid!Decrypted(d.message.response)
      e == Eid!Expected(q)
      p == Eid!Params(q, e)
  IN /\ d.message \in posted /\ d.at = clock
     /\ received' = Append(received, d)
     /\ used' \in {used, SeenAfter(q, p, EidSecurity, used)}
     /\ UNCHANGED <<deployment, clock, asked, posted, signed>>
     /\ d.verdict = "accepted" =>
          /\ Eid!Readable(d.message.response) /\ Eid!Processable(q, e)
          /\ Failures(q, p, EidSecurity, used, << >>) = {}
          /\ Eid!Conformant(q.assertions[1])
          /\ used' = SeenAfter(q, p, EidSecurity, used)

LEMMA DeliverIsTaking == Eid!Deliver => \E d : EidTaking(d)
  <1> SUFFICES ASSUME Eid!Deliver PROVE \E d : EidTaking(d)
    OBVIOUS
  <1>1. PICK m \in posted :
          LET r == Eid!Decrypted(m.response)
              expected == Eid!Expected(r)
              c == EidSecurity
              validated == Eid!Readable(m.response) /\ Eid!Processable(r, expected)
              failed == Failures(r, Eid!Params(r, expected), c, used, << >>)
              verdict == IF ~Eid!Readable(m.response) THEN "unreadable"
                         ELSE IF ~r.success THEN "declined"
                         ELSE IF ~validated THEN "unprocessable"
                         ELSE IF failed # {} THEN "invalid"
                         ELSE IF Eid!Conformant(r.assertions[1]) THEN "accepted" ELSE "unfit"
          IN /\ received' = Append(received, [message |-> m, verdict |-> verdict, at |-> clock])
             /\ used' = IF validated THEN SeenAfter(r, Eid!Params(r, expected), c, used) ELSE used
    BY SameChecklist, SameReplays DEF Eid!Deliver, EidSecurity
  <1> DEFINE r == Eid!Decrypted(m.response)
             e == Eid!Expected(r)
             p == Eid!Params(r, e)
             validated == Eid!Readable(m.response) /\ Eid!Processable(r, e)
             failed == Failures(r, p, EidSecurity, used, << >>)
             verdict == IF ~Eid!Readable(m.response) THEN "unreadable"
                        ELSE IF ~r.success THEN "declined"
                        ELSE IF ~validated THEN "unprocessable"
                        ELSE IF failed # {} THEN "invalid"
                        ELSE IF Eid!Conformant(r.assertions[1]) THEN "accepted" ELSE "unfit"
             d == [message |-> m, verdict |-> verdict, at |-> clock]
  <1>2. /\ received' = Append(received, d)
        /\ used' = IF validated THEN SeenAfter(r, p, EidSecurity, used) ELSE used
    BY <1>1
  <1>3. d.message = m /\ d.at = clock /\ d.verdict = verdict
    OBVIOUS
  <1>4. verdict = "accepted" => validated /\ failed = {} /\ Eid!Conformant(r.assertions[1])
    OBVIOUS
  <1>5. UNCHANGED <<deployment, clock, asked, posted, signed>>
    BY DEF Eid!Deliver
  <1> HIDE DEF d, verdict, r, e, p, failed
  <1>6. used' \in {used, SeenAfter(r, p, EidSecurity, used)}
    BY <1>2
  <1>7. d.verdict = "accepted" =>
          /\ Eid!Readable(m.response) /\ Eid!Processable(r, e)
          /\ failed = {} /\ Eid!Conformant(r.assertions[1])
          /\ used' = SeenAfter(r, p, EidSecurity, used)
    BY <1>2, <1>3, <1>4
  <1>8. EidTaking(d)
    BY <1>2, <1>3, <1>5, <1>6, <1>7 DEF EidTaking, r, e, p, failed
  <1>9. QED
    BY <1>8

\* What is decrypted are the assertions of the boxes.
LEMMA Decryption ==
  ASSUME NEW r, IsEnvelope(r), IsSequence(r.boxes), NEW q, q = Eid!Decrypted(r)
  PROVE  /\ IsEnvelope(q) /\ q.id = r.id /\ q.irt = r.irt /\ q.success = r.success
         /\ q.issuer = r.issuer /\ q.issuerFormat = r.issuerFormat /\ q.sig = r.sig
         /\ q.destination = r.destination
         /\ DOMAIN q.assertions = 1..Len(r.boxes) /\ Len(q.assertions) = Len(r.boxes)
         /\ \A i \in DOMAIN q.assertions : q.assertions[i] = r.boxes[i].assertion
  <1> DEFINE bs == r.boxes
             n == Len(bs)
             list == [i \in DOMAIN bs |-> bs[i].assertion]
             T == {bs[i].assertion : i \in 1..n}
  <1>1. bs \in Seq({bs[i] : i \in DOMAIN bs})
    BY DEF IsSequence
  <1>2. DOMAIN bs = 1..n /\ n \in Nat
    BY <1>1
  <1>3. list = [i \in 1..n |-> bs[i].assertion]
    BY <1>2
  <1>4. q = [r EXCEPT !.assertions = list]
    BY DEF Eid!Decrypted
  <1> HIDE DEF n, bs
  <1>5. list \in [1..n -> T]
    BY <1>3
  <1> HIDE DEF T
  <1>6. list \in Seq(T)
    BY <1>2, <1>5, SeqDef
  <1>7. DOMAIN list = 1..n
    BY <1>3
  <1>8. Len(list) = n
    BY <1>2, <1>6, <1>7, LenProperties
  <1>9. \A i \in 1..n : list[i] = bs[i].assertion
    BY <1>3
  <1> HIDE DEF list
  <1>10. /\ IsEnvelope(q) /\ q.id = r.id /\ q.irt = r.irt /\ q.success = r.success
         /\ q.issuer = r.issuer /\ q.issuerFormat = r.issuerFormat /\ q.sig = r.sig
         /\ q.destination = r.destination /\ q.assertions = list
    BY <1>4 DEF IsEnvelope
  <1>11. QED
    BY <1>7, <1>8, <1>9, <1>10 DEF n, bs

LEMMA OnlyOne ==
  ASSUME NEW s, IsSequence(s), Len(s) = 1 PROVE s = <<s[1]>>
  <1> DEFINE S == {s[i] : i \in DOMAIN s}
  <1>1. s \in Seq(S)
    BY DEF IsSequence
  <1> HIDE DEF S
  <1>2. DOMAIN s = 1..1
    BY <1>1
  <1>3. s[1] \in S
    BY <1>1, <1>2
  <1>4. <<s[1]>> \in Seq(S) /\ Len(<<s[1]>>) = 1 /\ <<s[1]>>[1] = s[1]
    BY <1>3
  <1>5. QED
    BY <1>1, <1>4, SeqEqual

\* What the checklist, the signatures and the level of assurance ask of it.
LEMMA AcceptedIsAssuredNow ==
  ASSUME EidTyped, PostedInv, SeenTyped(used), NEW d, EidTaking(d), d.verdict = "accepted"
  PROVE  /\ Assured(d)
         /\ LET a == d.message.response.boxes[1].assertion
            IN /\ ~(a.id \in DOMAIN used /\ used[a.id] > clock)
               /\ clock < ExpiryUnder(a, EidSecurity)
               /\ ExpiryUnder(a, EidSecurity) \in Int
               /\ a.id \in DOMAIN used' /\ used'[a.id] = ExpiryUnder(a, EidSecurity)
  <1> DEFINE m == d.message
             r == m.response
             q == Eid!Decrypted(r)
             e == Eid!Expected(q)
             p == Eid!Params(q, e)
             c == EidSecurity
             a == r.boxes[1].assertion
             wanted == deployment.requested
  <1>1. /\ m \in posted /\ d.at = clock /\ Eid!Readable(r) /\ Eid!Processable(q, e)
        /\ Failures(q, p, c, used, << >>) = {} /\ Eid!Conformant(q.assertions[1])
        /\ used' = SeenAfter(q, p, c, used)
    BY DEF EidTaking
  <1>2. /\ IsEnvelope(r) /\ Boxed(r.boxes, r.id)
        /\ r.sig # Absent /\ r.sig.key = "idp" => r.sig.over \in signed
    BY <1>1 DEF PostedInv, Posted
  <1>3. Eid!Unsigned(r) \in signed /\ r.assertions = << >>
    BY <1>1, <1>2 DEF Eid!Readable, Eid!Verifies
  <1>4. /\ q.irt = r.irt /\ DOMAIN q.assertions = 1..Len(r.boxes) /\ Len(q.assertions) = Len(r.boxes)
        /\ \A i \in DOMAIN q.assertions : q.assertions[i] = r.boxes[i].assertion
    BY <1>2, Decryption DEF Boxed
  <1>5. Len(r.boxes) = 1
    BY <1>1, <1>4 DEF Eid!Processable
  <1>6. DOMAIN q.assertions = {1} /\ q.assertions[1] = a /\ 1 \in DOMAIN r.boxes
    <2>1. 1..1 = {1}
      OBVIOUS
    <2>2. r.boxes \in Seq({r.boxes[i] : i \in DOMAIN r.boxes})
      BY <1>2 DEF Boxed, IsSequence
    <2>3. DOMAIN r.boxes = 1..Len(r.boxes)
      BY <2>2
    <2>4. QED
      BY <1>4, <1>5, <2>1, <2>3
  <1>7. Stated(a) /\ a.id = r.id /\ Dated(a)
    BY <1>2, <1>6 DEF Boxed, Stated
  <1>8. InResponseToOk(q.irt, p, c) /\ Passes(a, 1, q, p, c, used, << >>)
    BY <1>1, <1>6, NothingFails
  <1>9. p.now = clock /\ p.request = e /\ clock \in Nat
    BY DEF Eid!Params, EidTyped
  <1>10. /\ c.skew \in Nat /\ c.skew <= Eid!MaxSkew /\ c.maxAge \in Nat
         /\ c.maxAge = Eid!DefaultConfig.maxAge /\ c.unsolicited = deployment.unsolicited
    BY EidLimits
  <1>11. e \in {Eid!RequestId, Absent}
    BY DEF Eid!Expected
  <1> HIDE DEF e
  <1>12. r.irt = Eid!RequestId \/ (r.irt = Absent /\ deployment.unsolicited)
    BY <1>4, <1>8, <1>9, <1>10, <1>11 DEF InResponseToOk
  <1>13. d.at <= a.issued + Eid!DefaultConfig.maxAge
    <2>1. a.issued \in Int
      BY <1>7 DEF Dated
    <2>2. clock - a.issued <= c.maxAge
      BY <1>8, <1>9 DEF Passes, AgeOk, WithinAgeLimit
    <2>3. QED
      BY <1>1, <1>9, <1>10, <2>1, <2>2
  <1>14. d.at < a.conditions.until + Eid!MaxSkew
    <2>1. a.conditions.until \in Int /\ Absent \notin Int
      BY <1>7, WebSsoAssumption DEF Stated
    <2>2. FailedConditions(a.conditions, p, c) = {}
      BY <1>8 DEF Passes
    <2>3. clock - c.skew < a.conditions.until
      BY <1>9, <2>1, <2>2, ConditionsHold DEF NotOnOrAfterValid
    <2>4. Eid!MaxSkew \in Int
      BY DEF Eid!MaxSkew
    <2>5. QED
      BY <1>1, <1>9, <1>10, <2>1, <2>3, <2>4
  <1>15. wanted # << >> => \E k \in DOMAIN wanted : a.loas = <<wanted[k]>>
    <2>1. Len(a.loas) = 1 /\ Eid!LoaAccepted(a.loas[1])
      BY <1>1, <1>6 DEF Eid!Conformant
    <2>2. a.loas = <<a.loas[1]>>
      BY <1>7, <2>1, OnlyOne DEF Stated
    <2>3. QED
      BY <2>1, <2>2 DEF Eid!LoaAccepted
  <1>16. /\ ReplayExpiry(a, p, c) = ExpiryUnder(a, c)
         /\ clock < ExpiryUnder(a, c) /\ ExpiryUnder(a, c) \in Int
    BY <1>7, <1>8, <1>9, <1>10, PassesUntilExpiry
  <1>17. Assured(d)
    BY <1>2, <1>3, <1>5, <1>7, <1>12, <1>13, <1>14, <1>15 DEF Assured
  <1>18. ~Replayed(q, 1, p, c, used)
    BY <1>8 DEF Passes
  <1>19. ~(a.id \in DOMAIN used /\ used[a.id] > clock)
    BY <1>6, <1>9, <1>18 DEF Replayed, Live
  <1>20. a.id \in DOMAIN used' /\ used'[a.id] = ExpiryUnder(a, c)
    <2>1. 1 \in DOMAIN q.assertions /\ ReplayExpiry(q.assertions[1], p, c) > p.now
      BY <1>6, <1>9, <1>16
    <2>2. /\ q.assertions[1].id \in DOMAIN SeenAfter(q, p, c, used)
          /\ \E j \in DOMAIN q.assertions :
               /\ q.assertions[j].id = q.assertions[1].id
               /\ SeenAfter(q, p, c, used)[q.assertions[1].id] = ReplayExpiry(q.assertions[j], p, c)
      BY <1>18, <2>1, SeenRecorded
    <2>3. QED
      BY <1>1, <1>6, <1>16, <2>2
  <1>21. QED
    BY <1>16, <1>17, <1>19, <1>20

\* A later step leaves what is known of it, and the cache keeps its ID.
LEMMA AssuredStays ==
  ASSUME NEW d, Assured(d), deployment' = deployment, signed \subseteq signed' PROVE Assured(d)'
  BY DEF Assured

LEMMA UsedStays ==
  ASSUME EidTyped, SeenTyped(used), NEW d, Assured(d), UsedFor(d), deployment' = deployment,
         clock' \in Nat, clock <= clock',
         \A id \in DOMAIN used : used[id] > clock => id \in DOMAIN used' /\ used'[id] = used[id]
  PROVE  UsedFor(d)'
  <1> DEFINE a == d.message.response.boxes[1].assertion
             x == ExpiryUnder(a, EidSecurity)
  <1>1. x \in Int
    BY EidLimits, ExpiryIsWhole DEF Assured, Stated
  <1>2. EidSecurity' = EidSecurity
    BY DEF EidSecurity, Eid!SecurityOf
  <1>3. clock < x => a.id \in DOMAIN used /\ used[a.id] >= x
    BY DEF UsedFor
  <1>4. \A id \in DOMAIN used : used[id] \in Int
    BY DEF SeenTyped
  <1>5. x' = x
    BY <1>2
  <1>6. clock \in Nat
    BY DEF EidTyped
  <1> HIDE DEF x
  <1>7. clock' < x => a.id \in DOMAIN used' /\ used'[a.id] >= x
    <2> SUFFICES ASSUME clock' < x PROVE a.id \in DOMAIN used' /\ used'[a.id] >= x
      OBVIOUS
    <2>1. clock < x
      BY <1>1, <1>6
    <2>2. a.id \in DOMAIN used /\ used[a.id] >= x
      BY <1>3, <2>1
    <2>3. used[a.id] > clock
      BY <1>1, <1>4, <1>6, <2>1, <2>2
    <2>4. QED
      BY <2>2, <2>3
  <1>8. QED
    BY <1>5, <1>7 DEF UsedFor, x

LEMMA EidTypedStep == EidTyped /\ [Eid!Next]_eidVars => EidTyped'
  <1> SUFFICES ASSUME EidTyped, [Eid!Next]_eidVars PROVE EidTyped'
    OBVIOUS
  <1>1. CASE Eid!BuildRequest
    <2>1. UNCHANGED <<deployment, clock, received>>
      BY <1>1 DEF Eid!BuildRequest
    <2>2. asked' \in {Eid!Refused, Eid!AuthnRequest(deployment)}
      BY <1>1 DEF Eid!BuildRequest
    <2>3. Eid!AuthnRequest(deployment).context = deployment.requested
      BY DEF Eid!AuthnRequest
    <2>4. QED
      BY <2>1, <2>2, <2>3 DEF EidTyped, Eid!Asked
  <1>2. CASE UNCHANGED <<deployment, asked, received>> /\ (clock' = clock \/ clock' = clock + 1)
    BY <1>2 DEF EidTyped, Eid!Asked
  <1>3. CASE Eid!Deliver
    <2>1. PICK d : EidTaking(d)
      BY <1>3, DeliverIsTaking
    <2>2. PICK S : received \in Seq(S)
      BY DEF EidTyped
    <2>3. received' \in Seq(S \union {d})
      BY <2>1, <2>2 DEF EidTaking
    <2>4. QED
      BY <2>1, <2>3 DEF EidTyped, EidTaking, Eid!Asked
  <1>4. QED
    BY <1>1, <1>2, <1>3 DEF Eid!Next, Eid!Respond, Eid!Decline, Eid!RespondOtherwise, Eid!Alter,
       Eid!Tick, Eid!Post, eidVars

\* The only step that touches the cache and the deliveries.
LEMMA OthersDeliverNothing ==
  ASSUME EidTyped, [Eid!Next]_eidVars
  PROVE  \/ Eid!Deliver
         \/ /\ UNCHANGED <<deployment, used, received>> /\ signed \subseteq signed'
            /\ clock' = clock \/ clock' = clock + 1
  BY DEF Eid!Next, Eid!BuildRequest, Eid!Respond, Eid!Decline, Eid!RespondOtherwise, Eid!Alter,
     Eid!Tick, Eid!Post, eidVars

LEMMA GrantedStep ==
  ASSUME EidInv, NEW d, EidTaking(d) PROVE UsedInv' /\ GrantedOnce'
  <1> DEFINE q == Eid!Decrypted(d.message.response)
             e == Eid!Expected(q)
             p == Eid!Params(q, e)
             c == EidSecurity
             One(x) == x.message.response.boxes[1].assertion
  <1>1. /\ EidTyped /\ PostedInv /\ SignedInv /\ SeenTyped(used)
        /\ \A i \in Granted : Assured(received[i]) /\ UsedFor(received[i])
    BY DEF EidInv, UsedInv
  <1>2. /\ received' = Append(received, d) /\ used' \in {used, SeenAfter(q, p, c, used)}
        /\ UNCHANGED <<deployment, clock, asked, posted, signed>> /\ d.message \in posted
    BY DEF EidTaking
  <1>3. c.skew \in Nat /\ c.maxAge \in Nat /\ clock \in Nat /\ p.now = clock
    BY <1>1, EidLimits DEF EidTyped, Eid!Params
  <1>4. \A i \in DOMAIN q.assertions : Dated(q.assertions[i])
    <2>1. IsEnvelope(d.message.response) /\ Boxed(d.message.response.boxes, d.message.response.id)
      BY <1>1, <1>2 DEF PostedInv, Posted
    <2>2. /\ DOMAIN q.assertions = 1..Len(d.message.response.boxes)
          /\ \A i \in DOMAIN q.assertions : q.assertions[i] = One(d) \/ q.assertions[i] = d.message.response.boxes[i].assertion
      BY <2>1, Decryption DEF Boxed
    <2>3. DOMAIN d.message.response.boxes = 1..Len(d.message.response.boxes)
      <3> DEFINE bs == d.message.response.boxes
      <3>1. bs \in Seq({bs[i] : i \in DOMAIN bs})
        BY <2>1 DEF Boxed, IsSequence
      <3> HIDE DEF bs
      <3>2. DOMAIN bs = 1..Len(bs)
        BY <3>1
      <3>3. QED
        BY <3>2 DEF bs
    <2>4. \A i \in DOMAIN q.assertions : q.assertions[i] = d.message.response.boxes[i].assertion
      BY <2>1, Decryption DEF Boxed
    <2>5. QED
      BY <2>1, <2>2, <2>3, <2>4 DEF Boxed, Stated
  <1>5. /\ SeenTyped(used')
        /\ \A id \in DOMAIN used : used[id] > clock => id \in DOMAIN used' /\ used'[id] = used[id]
    <2>1. /\ SeenTyped(SeenAfter(q, p, c, used))
          /\ \A id \in DOMAIN used : used[id] > p.now =>
               id \in DOMAIN SeenAfter(q, p, c, used) /\ SeenAfter(q, p, c, used)[id] = used[id]
      <3>1. p.now \in Int /\ c.skew \in Int /\ c.maxAge \in Int
        BY <1>3
      <3> HIDE DEF q, p, c
      <3>2. QED
        BY <1>1, <1>4, <3>1, SeenStays
    <2> HIDE DEF q, p, c
    <2>2. QED
      BY <1>1, <1>2, <1>3, <2>1
  <1>6. PICK S : received \in Seq(S)
    BY <1>1 DEF EidTyped
  <1>7. /\ DOMAIN received = 1..Len(received) /\ Len(received) \in Nat
        /\ DOMAIN received' = 1..(Len(received) + 1)
        /\ \A i \in 1..Len(received) : received'[i] = received[i]
        /\ received'[Len(received) + 1] = d
    BY <1>2, <1>6
  <1> DEFINE last == Len(received) + 1
  <1> HIDE DEF q, p, c, e
  <1>8. ASSUME NEW i \in Granted'
        PROVE  \/ i \in Granted /\ received'[i] = received[i]
               \/ i = last /\ received'[i] = d /\ d.verdict = "accepted"
    BY <1>7 DEF Granted
  <1>9. ASSUME NEW i \in Granted
        PROVE  /\ Assured(received[i])' /\ UsedFor(received[i])' /\ received'[i] = received[i]
    <2>1. i \in 1..Len(received) /\ received'[i] = received[i]
      BY <1>7 DEF Granted
    <2> DEFINE x == received[i]
    <2>2. x' = x
      BY <2>1
    <2>3. Assured(x) /\ UsedFor(x)
      BY <1>1
    <2>4. signed \subseteq signed' /\ deployment' = deployment /\ clock' \in Nat /\ clock <= clock'
      BY <1>2, <1>3
    <2> HIDE DEF x
    <2>5. ASSUME NEW y, y = x PROVE Assured(y)' /\ UsedFor(y)'
      BY <1>1, <1>5, <2>3, <2>4, <2>5, AssuredStays, UsedStays
    <2>6. QED
      BY <2>1, <2>2, <2>5 DEF x
  <1>10. CASE d.verdict # "accepted"
    <2>1. \A i \in Granted' : i \in Granted /\ received'[i] = received[i]
      BY <1>8, <1>10
    <2>2. \A i \in Granted' : Assured(received[i])' /\ UsedFor(received[i])'
      BY <1>9, <2>1
    <2>3. UsedInv'
      BY <1>5, <2>2 DEF UsedInv
    <2>4. GrantedOnce'
      <3>1. GrantedOnce
        BY DEF EidInv
      <3>2. ASSUME NEW i \in Granted', NEW j \in Granted', One(received'[i]).id = One(received'[j]).id
            PROVE  i = j
        <4>1. i \in Granted /\ received'[i] = received[i] /\ j \in Granted /\ received'[j] = received[j]
          BY <2>1
        <4>2. One(received[i]).id = One(received[j]).id
          BY <3>2, <4>1
        <4>3. QED
          BY <3>1, <4>1, <4>2 DEF GrantedOnce
      <3>3. QED
        BY <3>2 DEF GrantedOnce
    <2>5. QED
      BY <2>3, <2>4
  <1>11. CASE d.verdict = "accepted"
    <2> DEFINE a == One(d)
               x == ExpiryUnder(a, EidSecurity)
    <2>1. /\ Assured(d) /\ ~(a.id \in DOMAIN used /\ used[a.id] > clock)
          /\ clock < x /\ x \in Int /\ a.id \in DOMAIN used' /\ used'[a.id] = x
      BY <1>1, <1>11, AcceptedIsAssuredNow
    <2>2. Assured(d)'
      BY <1>2, <2>1, AssuredStays
    <2>3. UsedFor(d)'
      <3>1. EidSecurity' = EidSecurity
        BY <1>2 DEF EidSecurity, Eid!SecurityOf
      <3>2. x' = x
        BY <3>1
      <3>3. QED
        BY <2>1, <3>2 DEF UsedFor
    <2>4. ASSUME NEW i \in Granted' PROVE Assured(received[i])' /\ UsedFor(received[i])'
      <3>1. CASE i \in Granted
        BY <1>9, <3>1
      <3>2. CASE i = last /\ received'[i] = d
        <4> DEFINE y == received[i]
        <4>1. y' = d
          BY <3>2
        <4> HIDE DEF y
        <4>2. Assured(y)' /\ UsedFor(y)'
          BY <2>2, <2>3, <4>1 DEF Assured, UsedFor
        <4>3. QED
          BY <4>2 DEF y
      <3>3. QED
        BY <1>8, <3>1, <3>2
    <2>5. UsedInv'
      BY <1>5, <2>4 DEF UsedInv
    <2>6. ASSUME NEW j \in Granted, One(received[j]).id = a.id PROVE FALSE
      <3> DEFINE b == One(received[j])
                 r == d.message.response
                 s == received[j].message.response
      <3>1. /\ IsEnvelope(r) /\ a.id = r.id /\ Eid!Unsigned(r) \in signed
            /\ IsEnvelope(s) /\ b.id = s.id /\ Eid!Unsigned(s) \in signed
        BY <1>1, <2>1 DEF Assured
      <3>2. /\ Eid!Unsigned(r).id = r.id /\ Eid!Unsigned(r).boxes = r.boxes
            /\ Eid!Unsigned(s).id = s.id /\ Eid!Unsigned(s).boxes = s.boxes
        BY <3>1 DEF Eid!Unsigned, IsEnvelope
      <3>3. r.boxes = s.boxes
        BY <1>1, <2>6, <3>1, <3>2 DEF SignedInv
      <3>4. UsedFor(received[j]) /\ a = b
        BY <1>1, <3>3
      <3>5. a.id \in DOMAIN used /\ used[a.id] >= x
        BY <2>1, <3>4 DEF UsedFor
      <3>6. used[a.id] \in Int
        BY <1>1, <3>5 DEF SeenTyped
      <3> HIDE DEF x, a, b
      <3>7. QED
        BY <1>3, <2>1, <3>5, <3>6
    <2>7. ASSUME NEW i \in Granted', NEW j \in Granted', One(received'[i]).id = One(received'[j]).id
          PROVE  i = j
      <3>1. CASE i \in Granted /\ j \in Granted
        BY <1>9, <2>7, <3>1 DEF GrantedOnce, EidInv
      <3>2. CASE received'[i] = d /\ j \in Granted
        BY <1>9, <2>6, <2>7, <3>2
      <3>3. CASE received'[j] = d /\ i \in Granted
        BY <1>9, <2>6, <2>7, <3>3
      <3>4. CASE i = last /\ j = last
        BY <3>4
      <3>5. QED
        BY <1>8, <3>1, <3>2, <3>3, <3>4
    <2>8. GrantedOnce'
      BY <2>7 DEF GrantedOnce
    <2>9. QED
      BY <2>5, <2>8
  <1>12. QED
    BY <1>10, <1>11

LEMMA EidStepKeeps == EidInv /\ [Eid!Next]_eidVars => EidInv'
  <1> SUFFICES ASSUME EidInv, [Eid!Next]_eidVars PROVE EidInv'
    OBVIOUS
  <1>1. EidTyped' /\ PostedInv' /\ SignedInv'
    BY EidTypedStep, PostedStep DEF EidInv
  <1>2. CASE Eid!Deliver
    BY <1>1, <1>2, DeliverIsTaking, GrantedStep DEF EidInv
  <1>3. CASE /\ UNCHANGED <<deployment, used, received>> /\ signed \subseteq signed'
             /\ clock' = clock \/ clock' = clock + 1
    <2>1. clock' \in Nat /\ clock <= clock' /\ EidTyped
      BY <1>3 DEF EidInv, EidTyped
    <2>2. SeenTyped(used) /\ \A i \in Granted : Assured(received[i]) /\ UsedFor(received[i])
      BY DEF EidInv, UsedInv
    <2>3. ASSUME NEW i \in Granted, NEW y, y = received[i] PROVE Assured(y)' /\ UsedFor(y)'
      BY <1>3, <2>1, <2>2, <2>3, AssuredStays, UsedStays
    <2>4. Granted' = Granted /\ received' = received /\ SeenTyped(used)'
      BY <1>3, <2>2 DEF Granted, SeenTyped
    <2>5. \A i \in Granted' : Assured(received[i])' /\ UsedFor(received[i])'
      BY <2>3, <2>4 DEF Assured, UsedFor
    <2>6. UsedInv' /\ GrantedOnce'
      BY <2>4, <2>5 DEF UsedInv, EidInv, GrantedOnce
    <2>7. QED
      BY <1>1, <2>6 DEF EidInv
  <1>4. QED
    BY <1>2, <1>3, OthersDeliverNothing DEF EidInv

LEMMA EidInitially == Eid!Init => EidInv
  <1> SUFFICES ASSUME Eid!Init PROVE EidInv
    OBVIOUS
  <1>1. received \in Seq({}) /\ Granted = {}
    BY DEF Eid!Init, Granted
  <1>2. EidTyped
    BY <1>1 DEF Eid!Init, EidTyped, Eid!Asked
  <1>3. PostedInv /\ SignedInv
    BY FS_EmptySet DEF Eid!Init, PostedInv, SignedInv
  <1>4. SeenTyped(used)
    BY DEF Eid!Init, SeenTyped
  <1>5. QED
    BY <1>1, <1>2, <1>3, <1>4 DEF EidInv, UsedInv, GrantedOnce

LEMMA AssuranceHolds == EidInv => Eid!AcceptedIsAssured
  <1> SUFFICES ASSUME EidInv PROVE Eid!AcceptedIsAssured
    OBVIOUS
  <1> DEFINE wanted == IF Eid!Asked THEN asked.context ELSE deployment.requested
  <1>1. wanted = deployment.requested
    BY DEF EidInv, EidTyped
  <1> HIDE DEF wanted
  <1>2. ASSUME NEW i \in Granted
        PROVE  LET r == received[i].message.response
                   a == received[i].message.response.boxes[1].assertion
               IN /\ Eid!Unsigned(r) \in signed /\ r.assertions = << >> /\ Len(r.boxes) = 1
                  /\ wanted # << >> => \E k \in DOMAIN wanted : a.loas = <<wanted[k]>>
                  /\ r.irt = Eid!RequestId \/ (r.irt = Absent /\ deployment.unsolicited)
                  /\ received[i].at <= a.issued + Eid!DefaultConfig.maxAge
                  /\ received[i].at < a.conditions.until + Eid!MaxSkew
                  /\ \A j \in Granted \ {i} : received[j].message.response.boxes[1].assertion.id # a.id
    <2>1. Assured(received[i])
      BY DEF EidInv, UsedInv
    <2>2. \A j \in Granted \ {i} : received[j].message.response.boxes[1].assertion.id
                                     # received[i].message.response.boxes[1].assertion.id
      BY DEF EidInv, GrantedOnce
    <2>3. QED
      BY <1>1, <2>1, <2>2 DEF Assured
  <1>3. QED
    BY <1>2 DEF Eid!AcceptedIsAssured, Granted, wanted

\* Whatever is left out, altered or delivered again in the Swedish profile, and
\* however ECP conversations cross: the identity taken over was meant, at a level of
\* assurance that the request named, and once.
THEOREM TakenOverIsMeantThroughout == SignInSpec => []TakenOverIsMeant
  <1>1. SignInInit => EidInv /\ EcpInv
    BY EidInitially, EcpInit DEF SignInInit
  <1>2. EidInv /\ [SignInNext]_signInVars => EidInv'
    BY EidStepKeeps DEF SignInNext, WebStep, EidStep, ClientStep, FinderStep, signInVars, eidVars
  <1>3. EcpInv /\ [SignInNext]_signInVars => EcpInv'
    BY EcpStep DEF SignInNext, WebStep, EidStep, ClientStep, FinderStep, signInVars, clientVars
  <1>4. EidInv /\ EcpInv => TakenOverIsMeant
    BY AssuranceHolds DEF EcpInv, TakenOverIsMeant
  <1>5. QED
    BY <1>1, <1>2, <1>3, <1>4, PTL DEF SignInSpec

-----------------------------------------------------------------------------
(* What the library's own IdP answers.                                     *)

\* What the library's IdP vouches for, at the time t.
Vouched(t, id, irt, at, user) ==
  LET issue == t + site.lead
      until == issue + Lifetime
  IN [id |-> id, issued |-> issue, issuer |-> Idp, sig |-> Absent,
      subject |->
        [nameId |-> [value |-> user, format |-> "persistent", encrypted |-> FALSE],
         confirmations |->
           <<[method |-> "bearer",
              data |-> [recipient |-> at, until |-> until, irt |-> irt,
                        notBefore |-> Absent, address |-> Absent]]>>],
      conditions |-> [notBefore |-> issue, until |-> until, audiences |-> {{Sp}},
                      proxies |-> Absent],
      sessions |-> <<until>>, attributes |-> {user}]

Seal(r) == [key |-> site.idpKey, over |-> Unsigned(r)]

\* An answer of the library's own, until the time it says.
Own(r, until) ==
  /\ IsResponse(r) /\ r.id \in Nat \ {0} /\ r.id <= site.responses /\ r.issuerFormat = "entity"
  /\ r.irt \in {Absent, RequestId} /\ r.destination \in Places
  /\ r.success \in BOOLEAN /\ r.encrypted \in Nat
  /\ r.encrypted # 0 => r.assertions = << >>
  /\ ~r.success => r.assertions = << >> /\ r.sig = Seal(r)
  /\ r.success /\ r.encrypted = 0 =>
       \E t \in 0..until, user \in Users :
         LET a == Vouched(t, r.id, r.irt, r.destination, user)
         IN /\ r.assertions = <<IF site.signAssertions THEN Signed(a) ELSE a>>
            /\ r.sig = IF site.signResponses THEN Seal(r) ELSE Absent

\* The IdP answers the one request, or none, at a place of the SP's.
ReadInv ==
  /\ request # Absent => request.id = RequestId
  /\ Known => processed.id = RequestId /\ processed.acsUrl \in Places

OwnInv == \A m \in wire : m.origin = "own" => Own(m.response, now)

\* Each message has IDs of its own; only those of what was delivered are seen.
FreshInv ==
  /\ \A m, k \in wire : m.response.id = k.response.id => m = k
  /\ \A m \in wire : \A i \in DOMAIN m.response.assertions :
       m.response.assertions[i].id \in {m.response.id, 1 + site.responses}
  /\ \A id \in DOMAIN seen : id \in 1..Cardinality(wire) \/ id = 1 + site.responses
  /\ \A m \in wire :
       m.origin = "own" /\ (\A i \in DOMAIN deliveries : deliveries[i].message # m) =>
         m.response.id \notin DOMAIN seen

LEMMA VouchedIsMade ==
  ASSUME TypeInv, NEW t \in Nat, NEW id \in Nat, NEW irt \in {Absent, RequestId},
         NEW at \in Places, NEW user \in Users
  PROVE  LET a == Vouched(t, id, irt, at, user) IN
         /\ IsAssertion(a) /\ a.id = id /\ a.sig = Absent /\ a \in AssertionsMade
         /\ a.subject # Absent /\ a.subject.nameId # Absent /\ a.conditions # Absent
         /\ a.subject.confirmations[1].data # Absent
  <1> DEFINE issue == t + site.lead
             until == issue + Lifetime
             n == [value |-> user, format |-> "persistent", encrypted |-> FALSE]
             d == [recipient |-> at, until |-> until, irt |-> irt, notBefore |-> Absent,
                   address |-> Absent]
             b == [method |-> "bearer", data |-> d]
             s == [nameId |-> n, confirmations |-> <<b>>]
             k == [notBefore |-> issue, until |-> until, audiences |-> {{Sp}}, proxies |-> Absent]
             a == Vouched(t, id, irt, at, user)
  <1>1. a = [id |-> id, issued |-> issue, issuer |-> Idp, sig |-> Absent, subject |-> s,
             conditions |-> k, sessions |-> <<until>>, attributes |-> {user}]
    BY DEF Vouched
  <1>2. issue \in Int /\ until \in Int
    BY WebSsoAssumption DEF TypeInv
  <1>3. n \in NameIds
    BY DEF NameIds
  <1>4. d \in DataFor(Places)
    BY <1>2 DEF DataFor
  <1>5. k \in ConditionsMade
    BY <1>2 DEF ConditionsMade
  <1>6. b \in [method : {"bearer"}, data : DataFor(Places)] /\ b.data = d
    BY <1>4
  <1> HIDE DEF issue, until, n, d, k, a, b
  <1>7. /\ <<b>> \in Seq([method : {"bearer"}, data : DataFor(Places)])
        /\ <<b>>[1] = b
    BY <1>6
  <1>8. s \in SubjectsFor(Places) /\ s.nameId = n /\ s.confirmations[1] = b
    BY <1>3, <1>7 DEF SubjectsFor
  <1> HIDE DEF s
  <1>9. <<until>> \in Seq(Int) /\ {user} \in SUBSET Users
    BY <1>2
  <1>10. a \in AssertionsMade
    BY <1>1, <1>2, <1>5, <1>8, <1>9 DEF AssertionsMade, AssertionsWith
  <1>11. IsAssertion(a) /\ a.id = id /\ a.sig = Absent /\ a.subject = s /\ a.conditions = k
    BY <1>1 DEF IsAssertion
  <1>12. n # Absent /\ d # Absent /\ k # Absent /\ s # Absent
    BY <1>3, <1>4, <1>5, <1>8, AbsenceAssumption
  <1>13. QED
    BY <1>6, <1>8, <1>10, <1>11, <1>12 DEF a

\* A signature is not nothing.
LEMMA SignedVouched ==
  ASSUME TypeInv, NEW a \in AssertionsMade, IsAssertion(a)
  PROVE  /\ IsAssertion(Signed(a)) /\ Signed(a).sig = [key |-> site.idpKey, over |-> a]
         /\ Signed(a).sig # Absent
         /\ Signed(a) \in AssertionsWith(SignaturesOver(AssertionsMade))
         /\ Unsigned(Signed(a)) = a
  <1> DEFINE g == [key |-> site.idpKey, over |-> a]
             s == Signed(a)
  <1>1. a.sig = Absent
    BY DEF AssertionsMade, AssertionsWith
  <1>2. Unsigned(a) = a
    BY <1>1, UnsignedAssertion
  <1>3. s = [a EXCEPT !.sig = g] /\ IsAssertion(s) /\ s.sig = g /\ Unsigned(s) = a
    BY <1>2, SignedAssertion DEF Signed
  <1>4. site.idpKey \in {t.idpKey : t \in Sites}
    BY DEF TypeInv
  <1>5. g \in SignaturesOver(AssertionsMade)
    BY <1>4 DEF SignaturesOver
  <1> HIDE DEF g, s
  <1>6. s \in AssertionsWith(SignaturesOver(AssertionsMade))
    <2>1. a \in AssertionsWith({Absent})
      BY DEF AssertionsMade
    <2> DEFINE G == SignaturesOver(AssertionsMade)
    <2>2. g \in G
      BY <1>5
    <2> HIDE DEF G
    <2>3. s \in AssertionsWith(G)
      BY <1>3, <2>1, <2>2 DEF AssertionsWith
    <2>4. QED
      BY <2>3 DEF G
  <1>7. g # Absent
    BY <1>5, AbsenceAssumption
  <1>8. QED
    BY <1>3, <1>6, <1>7 DEF g, s

LEMMA SealIsThere ==
  ASSUME TypeInv, NEW r, NEW until, Own(r, until), NEW as,
         as \in Seq(AssertionsMade \union AssertionsWith(SignaturesOver(AssertionsMade))),
         r.assertions = as
  PROVE  Seal(r) # Absent
  <1> DEFINE u == Unsigned(r)
             A == AssertionsMade \union AssertionsWith(SignaturesOver(AssertionsMade))
  <1>1. IsResponse(u) /\ SameBut(u, r) /\ u.assertions = as /\ u.sig = Absent
    BY UnsignedResponse DEF Own
  <1>2. as \in Seq(A)
    OBVIOUS
  <1>3. ResponsesMade =
          [id : Nat, destination : Places, issuerFormat : {"entity"}, irt : {Absent, RequestId},
           sig : {Absent}, success : BOOLEAN, encrypted : Nat, assertions : Seq(A)]
    BY DEF ResponsesMade
  <1> HIDE DEF u, A
  <1> DEFINE B == Seq(A)
  <1>4. as \in B
    BY <1>2
  <1> HIDE DEF B
  <1>5. u = [id |-> r.id, destination |-> r.destination, issuerFormat |-> r.issuerFormat,
             irt |-> r.irt, sig |-> Absent, success |-> r.success, assertions |-> as,
             encrypted |-> r.encrypted]
    BY <1>1 DEF IsResponse, SameBut
  <1>6. u \in [id : Nat, destination : Places, issuerFormat : {"entity"}, irt : {Absent, RequestId},
               sig : {Absent}, success : BOOLEAN, encrypted : Nat, assertions : B]
    BY <1>4, <1>5 DEF Own
  <1>7. u \in ResponsesMade
    BY <1>3, <1>6 DEF B
  <1>8. site.idpKey \in {t.idpKey : t \in Sites}
    BY DEF TypeInv
  <1>9. [key |-> site.idpKey, over |-> u] \in SignaturesOver(ResponsesMade)
    BY <1>7, <1>8 DEF SignaturesOver
  <1>10. QED
    BY <1>9, AbsenceAssumption DEF Seal, u

\* An answer is signed as the IdP is set, assertion first.
LEMMA SignsAsSaid ==
  ASSUME NEW r, IsResponse(r), r.sig = Absent, NEW x, NEW y, NEW s, s = SignResponse(r, x, y)
  PROVE  /\ IsResponse(s) /\ SameBut(s, r) /\ s.sig = IF y THEN Seal(s) ELSE Absent
         /\ r.assertions = << >> => s.assertions = << >>
         /\ \A a : r.assertions = <<a>> => s.assertions = <<IF x THEN Signed(a) ELSE a>>
  <1> DEFINE as == r.assertions
             heads == [i \in DOMAIN as |-> IF i = 1 THEN Signed(as[i]) ELSE as[i]]
             inner == IF x THEN [r EXCEPT !.assertions = heads] ELSE r
  <1>1. as = << >> => heads = << >>
    OBVIOUS
  <1>2. ASSUME NEW a, as = <<a>> PROVE heads = <<Signed(a)>>
    <2> DEFINE sa == Signed(a)
    <2>1. DOMAIN as = {1} /\ as[1] = a
      BY <1>2
    <2>2. heads = [i \in {1} |-> sa]
      BY <2>1
    <2> HIDE DEF sa
    <2>3. [i \in {1} |-> sa] = <<sa>>
      OBVIOUS
    <2>4. QED
      BY <2>2, <2>3 DEF sa
  <1>3. s = IF y THEN Signed(inner) ELSE inner
    BY DEF SignResponse
  <1> HIDE DEF heads
  <1>4. /\ IsResponse(inner) /\ SameBut(inner, r) /\ inner.sig = Absent
        /\ inner.assertions = IF x THEN heads ELSE as
    BY DEF IsResponse, SameBut
  <1> HIDE DEF inner
  <1>5. /\ IsResponse(s) /\ SameBut(s, r) /\ s.assertions = inner.assertions
        /\ s.sig = IF y THEN Seal(s) ELSE Absent
    <2>1. CASE ~y
      BY <1>3, <1>4, <2>1
    <2>2. CASE y
      <3>1. s = Signed(inner)
        BY <1>3, <2>2
      <3>2. /\ IsResponse(s) /\ SameBut(s, inner) /\ s.assertions = inner.assertions
            /\ s.sig = [key |-> site.idpKey, over |-> Unsigned(inner)]
            /\ Unsigned(s) = Unsigned(inner)
        BY <1>4, <3>1, SignedResponse
      <3>3. SameBut(s, r)
        BY <1>4, <3>2 DEF SameBut
      <3>4. s.sig = Seal(s)
        BY <3>2 DEF Seal
      <3>5. QED
        BY <2>2, <3>2, <3>3, <3>4
    <2>3. QED
      BY <2>1, <2>2
  <1>6. \A a : as = <<a>> => s.assertions = <<IF x THEN Signed(a) ELSE a>>
    <2> SUFFICES ASSUME NEW a, as = <<a>> PROVE s.assertions = <<IF x THEN Signed(a) ELSE a>>
      OBVIOUS
    <2>1. heads = <<Signed(a)>>
      BY <1>2
    <2>2. s.assertions = IF x THEN heads ELSE as
      BY <1>4, <1>5
    <2>3. CASE x
      BY <2>1, <2>2, <2>3
    <2>4. CASE ~x
      BY <2>2, <2>4
    <2>5. QED
      BY <2>3, <2>4
  <1>7. as = << >> => s.assertions = << >>
    BY <1>1, <1>4, <1>5
  <1>8. QED
    BY <1>5, <1>6, <1>7

\* What is sent: an answer of the library's own under the next ID.
OwnSending(s) ==
  /\ Own(s, now) /\ s.id = NextAssertion
  /\ wire' = wire \union {Message("own", s)}
  /\ UNCHANGED <<site, now, request, pending, processed, seen, owner, deliveries>>

LEMMA NextIsNat ==
  ASSUME WireInv
  PROVE  /\ Cardinality(wire) \in Nat /\ NextAssertion = Cardinality(wire) + 1
         /\ NextAssertion \in Nat \ {0}
  BY FS_CardinalityType DEF WireInv, NextAssertion

LEMMA RoomFits ==
  ASSUME TypeInv, WireInv, Room PROVE NextAssertion <= site.responses
  <1>1. site.responses \in Nat
    BY WebSsoAssumption DEF TypeInv
  <1>2. QED
    BY <1>1, NextIsNat DEF Room

\* About a user, for the request or unsolicited.
LEMMA AboutIsOwn ==
  ASSUME TypeInv, WireInv, Room, NEW user \in Users, NEW irt \in {Absent, RequestId},
         NEW at \in Places, Answer("own", About(user, irt, at))
  PROVE  \E s : OwnSending(s)
  <1> DEFINE id == NextAssertion
             r == About(user, irt, at)
             a == Vouched(now, id, irt, at, user)
             x == site.signAssertions
             y == site.signResponses
             s == SignResponse(r, x, y)
  <1>1. a = Assertion(id, irt, at, user)
    BY DEF Vouched, Assertion, IdpNow
  <1>2. r = Response(id, irt, at, TRUE, <<a>>)
    BY <1>1 DEF About
  <1>3. /\ wire' = wire \union {Message("own", s)}
        /\ UNCHANGED <<site, now, request, pending, processed, seen, owner, deliveries>>
    BY DEF Answer, Send
  <1>4. id \in Nat \ {0} /\ id <= site.responses
    BY NextIsNat, RoomFits
  <1> HIDE DEF a, r
  <1>5. /\ IsResponse(r) /\ r.sig = Absent /\ r.id = id /\ r.destination = at /\ r.irt = irt
        /\ r.issuerFormat = "entity" /\ r.success = TRUE /\ r.encrypted = 0
        /\ r.assertions = <<a>>
    BY <1>2 DEF Response, IsResponse
  <1> HIDE DEF s, id
  <1>6. /\ IsResponse(s) /\ SameBut(s, r) /\ s.sig = IF y THEN Seal(s) ELSE Absent
        /\ s.assertions = <<IF x THEN Signed(a) ELSE a>>
    BY <1>5, SignsAsSaid DEF s
  <1>7. /\ s.id = id /\ s.destination = at /\ s.irt = irt /\ s.issuerFormat = "entity"
        /\ s.success = TRUE /\ s.encrypted = 0
    BY <1>5, <1>6 DEF SameBut
  <1>8. now \in 0..now
    BY DEF TypeInv
  <1>9. a = Vouched(now, s.id, s.irt, s.destination, user)
    BY <1>7 DEF a
  <1>10. \E t \in 0..now, u \in Users :
           LET b == Vouched(t, s.id, s.irt, s.destination, u)
           IN /\ s.assertions = <<IF site.signAssertions THEN Signed(b) ELSE b>>
              /\ s.sig = IF site.signResponses THEN Seal(s) ELSE Absent
    BY <1>6, <1>8, <1>9
  <1>11. Own(s, now)
    <2>1. /\ IsResponse(s) /\ s.id \in Nat \ {0} /\ s.id <= site.responses
          /\ s.issuerFormat = "entity" /\ s.irt \in {Absent, RequestId}
          /\ s.destination \in Places /\ s.encrypted \in Nat
      BY <1>4, <1>6, <1>7
    <2>2. s.success \in BOOLEAN /\ s.success /\ s.encrypted = 0
      BY <1>7
    <2>3. QED
      BY <1>10, <2>1, <2>2, Zenon DEF Own
  <1>12. QED
    BY <1>3, <1>7, <1>11 DEF OwnSending, s, id

\* A response without assertions: a denial, or one whose assertions are encrypted.
Bare(r, ok, encrypted) ==
  /\ IsResponse(r) /\ r.sig = Absent /\ r.id = NextAssertion /\ r.irt = RequestId
  /\ r.destination \in Places /\ r.issuerFormat = "entity" /\ r.assertions = << >>
  /\ r.success = ok /\ r.encrypted = encrypted

LEMMA BareOutcome ==
  ASSUME NEW r, NEW s, s.success = r.success, s.encrypted = r.encrypted
  PROVE  /\ Bare(r, TRUE, 1) =>
              s.success \in BOOLEAN /\ s.success /\ s.encrypted \in Nat /\ s.encrypted # 0
         /\ Bare(r, FALSE, 0) =>
              s.success \in BOOLEAN /\ ~s.success /\ s.encrypted \in Nat
  <1>1. 0 \in Nat /\ 1 \in Nat /\ 1 # 0
    OBVIOUS
  <1>2. TRUE \in BOOLEAN /\ FALSE \in BOOLEAN
    OBVIOUS
  <1>3. QED
    BY <1>1, <1>2, Zenon DEF Bare

LEMMA BareIsOwn ==
  ASSUME TypeInv, WireInv, Room, NEW r, NEW x, NEW y, NEW s, s = SignResponse(r, x, y),
         Bare(r, TRUE, 1) \/ (Bare(r, FALSE, 0) /\ y = TRUE)
  PROVE  Own(s, now) /\ s.id = NextAssertion
  <1>1. NextAssertion \in Nat \ {0} /\ NextAssertion <= site.responses
    BY NextIsNat, RoomFits
  <1>2. /\ IsResponse(s) /\ SameBut(s, r) /\ s.sig = IF y THEN Seal(s) ELSE Absent
        /\ s.assertions = << >>
    BY SignsAsSaid DEF Bare
  <1>3. /\ s.id = NextAssertion /\ s.destination \in Places /\ s.irt = RequestId
        /\ s.issuerFormat = "entity" /\ s.success = r.success /\ s.encrypted = r.encrypted
    BY <1>2 DEF SameBut, Bare
  <1>4. /\ s.success \in BOOLEAN /\ s.encrypted \in Nat
        /\ s.success => s.encrypted # 0
        /\ ~s.success => s.sig = Seal(s)
    <2>1. y = TRUE => s.sig = Seal(s)
      BY <1>2, Zenon
    <2>2. QED
      BY <1>3, <2>1, BareOutcome, Zenon
  <1>5. Own(s, now)
    BY <1>1, <1>2, <1>3, <1>4, Zenon DEF Own
  <1>6. QED
    BY <1>3, <1>5

LEMMA OwnActionSends ==
  ASSUME TypeInv, WireInv, ReadInv, Respond \/ RespondEncrypted \/ RespondUnsolicited \/ Deny
  PROVE  \E s : OwnSending(s)
  <1>1. CASE Respond
    <2>1. PICK u \in Users : Answer("own", About(u, processed.id, processed.acsUrl))
      BY <1>1 DEF Respond
    <2>2. Room /\ processed.id = RequestId /\ processed.acsUrl \in Places
      BY <1>1 DEF Respond, ReadInv
    <2>3. QED
      BY <2>1, <2>2, AboutIsOwn
  <1>2. CASE RespondEncrypted
    <2>1. PICK u \in Users :
            Answer("own", EncryptAssertions(About(u, processed.id, processed.acsUrl)))
      BY <1>2 DEF RespondEncrypted
    <2>2. Room /\ processed.id = RequestId /\ processed.acsUrl \in Places
      BY <1>2 DEF RespondEncrypted, ReadInv
    <2> DEFINE a == Assertion(NextAssertion, processed.id, processed.acsUrl, u)
               b == About(u, processed.id, processed.acsUrl)
               r == EncryptAssertions(b)
               x == site.signAssertions
               y == site.signResponses
               s == SignResponse(r, x, y)
    <2>3. /\ wire' = wire \union {Message("own", s)}
          /\ UNCHANGED <<site, now, request, pending, processed, seen, owner, deliveries>>
      BY <2>1 DEF Answer, Send
    <2>4. b = Response(NextAssertion, processed.id, processed.acsUrl, TRUE, <<a>>)
      BY DEF About
    <2> HIDE DEF a, b
    <2>5. /\ IsResponse(b) /\ b.sig = Absent /\ b.id = NextAssertion /\ b.irt = RequestId
          /\ b.destination \in Places /\ b.issuerFormat = "entity" /\ b.assertions = <<a>>
          /\ b.success = TRUE /\ b.encrypted = 0
      BY <2>2, <2>4 DEF Response, IsResponse
    <2>6. Len(b.assertions) + b.encrypted = 1
      BY <2>5
    <2>7. r = [b EXCEPT !.assertions = << >>, !.encrypted = 1]
      BY <2>6 DEF EncryptAssertions
    <2> HIDE DEF r
    <2>8. Bare(r, TRUE, 1)
      BY <2>5, <2>7 DEF IsResponse, Bare
    <2>9. s = SignResponse(r, x, y)
      OBVIOUS
    <2> HIDE DEF s, x, y
    <2>10. Own(s, now) /\ s.id = NextAssertion
      BY <2>2, <2>8, <2>9, BareIsOwn
    <2>11. QED
      BY <2>3, <2>10 DEF OwnSending
  <1>3. CASE RespondUnsolicited
    <2> DEFINE at == DefaultAcs(site.acs, DOMAIN site.acs).url
    <2>1. PICK u \in Users : Answer("own", About(u, Absent, at))
      BY <1>3 DEF RespondUnsolicited
    <2>2. Room /\ site.acs # << >>
      BY <1>3 DEF RespondUnsolicited
    <2>3. Endpoints(site.acs)
      BY WebSsoAssumption DEF TypeInv, Endpoints
    <2>4. CASE DOMAIN site.acs # {}
      <3>1. PICK i \in DOMAIN site.acs : DefaultAcs(site.acs, DOMAIN site.acs) = site.acs[i]
        BY <2>3, <2>4, DefaultIsRegistered
      <3>2. at \in Places
        BY <3>1 DEF Places, TypeInv
      <3> HIDE DEF at
      <3>3. QED
        BY <2>1, <2>2, <3>2, AboutIsOwn
    <2>5. DOMAIN site.acs # {}
      <3>1. site.acs \in Seq({site.acs[i] : i \in DOMAIN site.acs})
        BY SitesAssumption DEF TypeInv, IsSequence
      <3>2. QED
        BY <2>2, <3>1
    <2>6. QED
      BY <2>4, <2>5
  <1>4. CASE Deny
    <2> DEFINE r == Response(NextAssertion, processed.id, processed.acsUrl, FALSE, << >>)
               s == SignResponse(r, FALSE, TRUE)
    <2>1. /\ wire' = wire \union {Message("own", s)}
          /\ UNCHANGED <<site, now, request, pending, processed, seen, owner, deliveries>>
      BY <1>4 DEF Deny, Send
    <2>2. Room /\ processed.id = RequestId /\ processed.acsUrl \in Places
      BY <1>4 DEF Deny, ReadInv
    <2>3. Bare(r, FALSE, 0)
      BY <2>2 DEF Response, IsResponse, Bare
    <2>4. s = SignResponse(r, FALSE, TRUE)
      OBVIOUS
    <2> HIDE DEF r, s
    <2>5. Own(s, now) /\ s.id = NextAssertion
      BY <2>2, <2>3, <2>4, BareIsOwn
    <2>6. QED
      BY <2>1, <2>5 DEF OwnSending
  <1>5. QED
    BY <1>1, <1>2, <1>3, <1>4

LEMMA ReadStep == TypeInv /\ ReadInv /\ [Next]_vars => ReadInv'
  <1> SUFFICES ASSUME TypeInv, ReadInv, [Next]_vars PROVE ReadInv'
    OBVIOUS
  <1>1. CASE SpLogin
    <2>1. request'.id = RequestId /\ (Known' => Known) /\ processed' = processed
      BY <1>1 DEF SpLogin, AuthnRequest, Known
    <2>2. QED
      BY <2>1 DEF ReadInv
  <1>2. CASE ReadRequest
    <2>1. request # Absent /\ request' = request /\ site' = site
      BY <1>2 DEF ReadRequest
    <2>2. ASSUME Known' PROVE processed'.id = RequestId /\ processed'.acsUrl \in Places
      <3>1. /\ Admitted(request)
            /\ processed' = [id |-> request.id, acsUrl |-> ResolveAcs(request, site.acs).url]
        BY <1>2, <2>1, <2>2 DEF ReadRequest, Known
      <3>2. ResolveAcs(request, site.acs) # Absent
        BY <3>1 DEF Admitted, Processable
      <3>3. Endpoints(site.acs) /\ site \in Sites
        BY WebSsoAssumption DEF TypeInv, Endpoints
      <3>4. PICK i \in DOMAIN site.acs : ResolveAcs(request, site.acs) = site.acs[i]
        BY <3>2, <3>3, ResolvedIsRegistered
      <3>5. site.acs[i].url \in Places
        BY <3>3 DEF Places
      <3>6. QED
        BY <2>1, <3>1, <3>4, <3>5 DEF ReadInv
    <2>3. QED
      BY <2>1, <2>2 DEF ReadInv
  <1>3. CASE UNCHANGED <<request, processed>>
    BY <1>3 DEF ReadInv, Known
  <1>4. QED
    BY <1>1, <1>2, <1>3 DEF Next, vars, Respond, RespondEncrypted, RespondUnsolicited, Deny,
       RespondOtherwise, Answer, Damage, DeliverToAcs, Validate, Tick

\* An answer stays what it is while the time goes on.
LEMMA OwnStays ==
  ASSUME NEW r, Own(r, now), site' = site, now \in Nat, now' \in Nat, now <= now'
  PROVE  Own(r, now)'
  <1>1. 0..now \subseteq 0..now'
    OBVIOUS
  <1>2. /\ \A x : Seal(x)' = Seal(x) /\ Signed(x)' = Signed(x)
        /\ \A t, id, irt, at, u : Vouched(t, id, irt, at, u)' = Vouched(t, id, irt, at, u)
    BY DEF Seal, Signed, Vouched, Unsigned
  <1>3. QED
    BY <1>1, <1>2, Zenon DEF Own

LEMMA OwnStep ==
  TypeInv /\ WireInv /\ ReadInv /\ OwnInv /\ [Next]_vars => OwnInv'
  <1> SUFFICES ASSUME TypeInv, WireInv, ReadInv, OwnInv, [Next]_vars PROVE OwnInv'
    OBVIOUS
  <1>1. now \in Nat /\ now <= now /\ TypeInv'
    BY TypeStep DEF TypeInv
  <1>2. CASE Respond \/ RespondEncrypted \/ RespondUnsolicited \/ Deny
    <2>1. PICK s : OwnSending(s)
      BY <1>2, OwnActionSends
    <2>2. /\ wire' = wire \union {Message("own", s)} /\ site' = site /\ now' = now /\ Own(s, now)
          /\ Message("own", s).response = s
      BY <2>1 DEF OwnSending, Message
    <2>3. ASSUME NEW m \in wire', m.origin = "own" PROVE Own(m.response, now)'
      <3>1. Own(m.response, now)
        BY <2>2, <2>3 DEF OwnInv
      <3>2. QED
        BY <1>1, <2>2, <3>1, OwnStays
    <2>4. QED
      BY <2>3 DEF OwnInv
  <1>3. CASE /\ site' = site /\ (now' = now \/ now' = now + 1)
             /\ \A m \in wire' : m.origin = "own" => m \in wire
    <2>1. now <= now' /\ now' \in Nat
      BY <1>1, <1>3
    <2>2. ASSUME NEW m \in wire', m.origin = "own" PROVE Own(m.response, now)'
      BY <1>1, <1>3, <2>1, <2>2, OwnStays DEF OwnInv
    <2>3. QED
      BY <2>2 DEF OwnInv
  <1>4. CASE RespondOtherwise \/ Damage
    <2>1. /\ site' = site /\ now' = now
          /\ \E m : m.origin # "own" /\ wire' \subseteq wire \union {m}
      <3>1. CASE RespondOtherwise
        <4>1. PICK r : Sending("peer", r)
          BY <3>1, OtherwiseIsSent
        <4>2. QED
          BY <4>1 DEF Sending, Message
      <3>2. CASE Damage
        BY <3>2 DEF Damage, Message
      <3>3. QED
        BY <1>4, <3>1, <3>2
    <2>2. QED
      BY <1>3, <2>1
  <1>5. CASE SpLogin \/ ReadRequest \/ DeliverToAcs \/ Validate \/ Tick \/ UNCHANGED vars
    <2>1. site' = site /\ (now' = now \/ now' = now + 1) /\ wire' = wire
      BY <1>5 DEF SpLogin, ReadRequest, DeliverToAcs, Validate, Tick, vars
    <2>2. QED
      BY <1>3, <2>1
  <1>6. QED
    BY <1>2, <1>4, <1>5 DEF Next

\* The IDs of a message's assertions.
Bears(r, id) == \A i \in DOMAIN r.assertions : r.assertions[i].id \in {id, 1 + site.responses}

LEMMA OwnsItsId ==
  ASSUME TypeInv, NEW r, NEW until \in Nat, Own(r, until)
  PROVE  r.assertions = << >> \/ \E b : r.assertions = <<b>> /\ b.id = r.id
  <1>1. ASSUME NEW t \in 0..until, NEW user \in Users, NEW a, NEW b,
               a = Vouched(t, r.id, r.irt, r.destination, user),
               b = IF site.signAssertions THEN Signed(a) ELSE a, r.assertions = <<b>>
        PROVE  r.assertions = <<b>> /\ b.id = r.id
    <2>1. IsAssertion(a) /\ a.id = r.id
      BY <1>1, VouchedIsMade DEF Own
    <2>2. Signed(a).id = r.id
      BY <2>1, SignedAssertion
    <2>3. QED
      BY <1>1, <2>1, <2>2, Zenon
  <1>2. (~r.success => r.assertions = << >>) /\ (r.encrypted # 0 => r.assertions = << >>)
    BY Zenon DEF Own
  <1>3. CASE r.success /\ r.encrypted = 0
    <2>1. PICK t \in 0..until, user \in Users :
            r.assertions = <<IF site.signAssertions
                             THEN Signed(Vouched(t, r.id, r.irt, r.destination, user))
                             ELSE Vouched(t, r.id, r.irt, r.destination, user)>>
      BY <1>3, Zenon DEF Own
    <2>2. QED
      BY <1>1, <2>1, Zenon
  <1>4. QED
    BY <1>2, <1>3, Zenon

LEMMA OwnBears ==
  ASSUME TypeInv, NEW r, NEW until \in Nat, Own(r, until) PROVE Bears(r, r.id)
  <1>1. CASE r.assertions = << >>
    BY <1>1 DEF Bears
  <1>2. ASSUME NEW b, r.assertions = <<b>>, b.id = r.id PROVE Bears(r, r.id)
    BY <1>2 DEF Bears
  <1>3. QED
    BY <1>1, <1>2, OwnsItsId

LEMMA SendingBears ==
  ASSUME TypeInv, WireInv, NEW origin, NEW r, Sending(origin, r), NEW x, NEW y
  PROVE  Bears(SignResponse(r, x, y), NextAssertion)
  <1> DEFINE s == SignResponse(r, x, y)
  <1>1. SignedInto(s, r)
    BY SignResponseMakes DEF Sending
  <1>2. wire = {} => NextAssertion = 1
    BY FS_EmptySet DEF NextAssertion
  <1> HIDE DEF s
  <1>3. ASSUME NEW i \in DOMAIN s.assertions
        PROVE  s.assertions[i].id \in {NextAssertion, 1 + site.responses}
    <2> DEFINE a == r.assertions[i]
    <2>1. i \in DOMAIN r.assertions /\ s.assertions[i] \in {a, Signed(a)}
      BY <1>1 DEF SignedInto
    <2>2. IsAssertion(a) /\ a.id \in {NextAssertion, 1 + site.responses}
      BY <1>2, <2>1 DEF Sending, Timed
    <2> HIDE DEF a
    <2>3. Signed(a).id = a.id
      BY <2>2, SignedAssertion
    <2>4. QED
      BY <2>1, <2>2, <2>3
  <1>4. QED
    BY <1>3 DEF Bears, s

\* A message that is sent brings new IDs.
LEMMA SentIsFresh ==
  ASSUME TypeInv, WireInv, FreshInv, NEW m, wire' = wire \union {m}, m.response.id = NextAssertion,
         Bears(m.response, NextAssertion), m.origin = "own" => NextAssertion <= site.responses,
         UNCHANGED <<site, seen, deliveries>>
  PROVE  FreshInv'
  <1> DEFINE n == Cardinality(wire)
             N == site.responses
  <1>1. n \in Nat /\ NextAssertion = n + 1 /\ IsFiniteSet(wire) /\ N \in Nat
    BY NextIsNat, WebSsoAssumption DEF WireInv, TypeInv
  <1>2. \A k \in wire : k.response.id \in 1..n
    BY DEF WireInv, Circulating
  <1>3. \A k \in wire : k.response.id # m.response.id
    BY <1>1, <1>2
  <1>4. Cardinality(wire') = n + 1
    BY <1>1, <1>3, FS_AddElement
  <1>5. \A id \in DOMAIN seen : id \in 1..n \/ id = 1 + N
    BY DEF FreshInv
  <1> HIDE DEF n, N
  <1>6. \A k, l \in wire' : k.response.id = l.response.id => k = l
    BY <1>3 DEF FreshInv
  <1>7. \A k \in wire' : \A i \in DOMAIN k.response.assertions :
          k.response.assertions[i].id \in {k.response.id, 1 + site.responses}
    BY DEF FreshInv, Bears
  <1>8. \A id \in DOMAIN seen : id \in 1..(n + 1) \/ id = 1 + N
    BY <1>1, <1>5
  <1>9. m.origin = "own" => m.response.id \notin DOMAIN seen
    BY <1>1, <1>5 DEF N
  <1>10. \A k \in wire' :
           k.origin = "own" /\ (\A i \in DOMAIN deliveries : deliveries[i].message # k) =>
             k.response.id \notin DOMAIN seen
    BY <1>9 DEF FreshInv
  <1>11. QED
    BY <1>4, <1>6, <1>7, <1>8, <1>10 DEF FreshInv, N

\* What is delivered is all that is seen.
LEMMA SeenGrows ==
  ASSUME NEW r, NEW p, NEW c, NEW s
  PROVE  \A id \in DOMAIN SeenAfter(r, p, c, s) :
           id \in DOMAIN s \/ \E i \in DOMAIN r.assertions : id = r.assertions[i].id
  <1> DEFINE live == Live(s, p.now)
             new == {i \in DOMAIN r.assertions : ~Replayed(r, i, p, c, s)}
             kept == {i \in new : ReplayExpiry(r.assertions[i], p, c) > p.now}
             At(id) == ReplayExpiry(r.assertions[CHOOSE i \in kept : r.assertions[i].id = id], p, c)
             t == SeenAfter(r, p, c, s)
  <1>1. t = [id \in DOMAIN live \union {r.assertions[i].id : i \in kept} |->
               IF id \in DOMAIN live THEN live[id] ELSE At(id)]
    BY DEF SeenAfter
  <1>2. DOMAIN live \subseteq DOMAIN s
    BY DEF Live
  <1>3. kept \subseteq DOMAIN r.assertions
    OBVIOUS
  <1> HIDE DEF live, kept, At, t
  <1>4. QED
    BY <1>1, <1>2, <1>3 DEF t

LEMMA TakingKeepsFresh ==
  ASSUME TypeInv, WireInv, OwnInv, FreshInv, NEW d, NEW p, Taking(d, p)
  PROVE  FreshInv'
  <1> DEFINE m == d.message
             r == m.response
             c == site.security
             n == Cardinality(wire)
             N == site.responses
  <1>1. /\ m \in wire /\ UNCHANGED <<site, wire>> /\ seen' \in {seen, SeenAfter(r, p, c, seen)}
        /\ deliveries' = Append(deliveries, d)
    BY DEF Taking
  <1>2. \A i \in DOMAIN r.assertions : r.assertions[i].id \in {r.id, 1 + N}
    BY <1>1 DEF FreshInv
  <1>3. ASSUME NEW id \in DOMAIN seen'
        PROVE  id \in DOMAIN seen \/ id \in {r.id, 1 + N}
    BY <1>1, <1>2, SeenGrows
  <1>4. r.id \in 1..n
    BY <1>1 DEF WireInv, Circulating
  <1> HIDE DEF r, c, n, N
  <1>5. \A id \in DOMAIN seen' : id \in 1..n \/ id = 1 + N
    BY <1>3, <1>4 DEF FreshInv, n, N
  <1>6. ASSUME NEW k \in wire, k.origin = "own",
               \A i \in DOMAIN deliveries' : deliveries'[i].message # k
        PROVE  k.response.id \notin DOMAIN seen'
    <2>1. PICK S : deliveries \in Seq(S)
      BY DEF TypeInv
    <2>2. /\ \A i \in DOMAIN deliveries : i \in DOMAIN deliveries' /\ deliveries'[i] = deliveries[i]
          /\ Len(deliveries) + 1 \in DOMAIN deliveries' /\ deliveries'[Len(deliveries) + 1] = d
      BY <1>1, <2>1
    <2>3. k # m /\ \A i \in DOMAIN deliveries : deliveries[i].message # k
      BY <1>6, <2>2
    <2>4. k.response.id \notin DOMAIN seen
      BY <1>6, <2>3 DEF FreshInv
    <2>5. k.response.id # r.id
      BY <1>1, <2>3 DEF FreshInv, r
    <2>6. Own(k.response, now)
      BY <1>6 DEF OwnInv
    <2>7. k.response.id \in Nat /\ k.response.id <= N /\ N \in Nat
      BY <2>6, WebSsoAssumption DEF Own, N, TypeInv
    <2>8. k.response.id # 1 + N
      BY <2>7
    <2>9. QED
      BY <1>3, <2>4, <2>5, <2>8
  <1>7. QED
    BY <1>1, <1>5, <1>6 DEF FreshInv, n, N

LEMMA FreshStep ==
  TypeInv /\ WireInv /\ ReadInv /\ OwnInv /\ FreshInv /\ [Next]_vars => FreshInv'
  <1> SUFFICES ASSUME TypeInv, WireInv, ReadInv, OwnInv, FreshInv, [Next]_vars PROVE FreshInv'
    OBVIOUS
  <1>1. CASE Respond \/ RespondEncrypted \/ RespondUnsolicited \/ Deny
    <2>1. PICK s : OwnSending(s)
      BY <1>1, OwnActionSends
    <2> DEFINE m == Message("own", s)
    <2>2. m.response = s /\ m.origin = "own"
      BY DEF Message
    <2>3. /\ wire' = wire \union {m} /\ UNCHANGED <<site, seen, deliveries>> /\ Own(s, now)
          /\ s.id = NextAssertion
      BY <2>1 DEF OwnSending
    <2> HIDE DEF m
    <2>4. Bears(s, NextAssertion) /\ NextAssertion <= site.responses
      <3>1. now \in Nat
        BY DEF TypeInv
      <3>2. Bears(s, s.id)
        BY <2>3, <3>1, OwnBears
      <3>3. s.id <= site.responses
        BY <2>3 DEF Own
      <3>4. QED
        BY <2>3, <3>2, <3>3
    <2>5. QED
      BY <2>2, <2>3, <2>4, SentIsFresh
  <1>2. CASE RespondOtherwise
    <2>1. PICK r : Sending("peer", r)
      BY <1>2, OtherwiseIsSent
    <2>2. PICK x, y : wire' = wire \union {Message("peer", SignResponse(r, x, y))}
      BY <2>1 DEF Sending
    <2> DEFINE s == SignResponse(r, x, y)
               m == Message("peer", s)
    <2>3. Bears(s, NextAssertion)
      BY <2>1, SendingBears
    <2>4. s.id = NextAssertion
      <3>1. SignedInto(s, r)
        BY <2>1, SignResponseMakes DEF Sending
      <3>2. QED
        BY <2>1, <3>1 DEF Sending, SignedInto, SameBut
    <2>5. wire' = wire \union {m} /\ UNCHANGED <<site, seen, deliveries>>
      BY <2>1, <2>2 DEF Sending
    <2>6. m.response = s /\ m.origin # "own"
      BY DEF Message
    <2> HIDE DEF s, m
    <2>7. QED
      BY <2>3, <2>4, <2>5, <2>6, SentIsFresh
  <1>3. CASE Damage
    <2>1. PICK m \in wire : /\ m.origin = "own"
                            /\ \E v \in Variations(m.response) : wire' = {Message("damaged", v)}
      BY <1>3 DEF Damage
    <2>2. PICK v \in Variations(m.response) : wire' = {Message("damaged", v)}
      BY <2>1
    <2> DEFINE r == m.response
               k == Message("damaged", v)
    <2>3. /\ UNCHANGED <<site, seen, deliveries>> /\ Cardinality(wire) = 1 /\ wire' = {k}
          /\ k.response = v /\ k.origin # "own" /\ v \in Variations(r)
      BY <1>3, <2>2 DEF Damage, Message
    <2>4. Circulating(m, issued, 1..1) /\ Own(r, now)
      BY <2>1, <2>3 DEF WireInv, OwnInv
    <2>5. /\ IsResponse(r) /\ r.id \in 1..1
          /\ (r.assertions = << >> \/ \E a : r.assertions = <<a>> /\ Whole(a))
      BY <2>1, <2>4 DEF Circulating
    <2> HIDE DEF r, k
    <2>6. Varies(v, r)
      BY <2>3, <2>5, VariationsVary
    <2>7. Bears(r, r.id)
      BY <2>4, OwnBears DEF TypeInv
    <2>8. r.id = 1 /\ v.id = 1
      BY <2>5, <2>6 DEF Varies
    <2>9. ASSUME NEW i \in DOMAIN v.assertions
          PROVE  v.assertions[i].id \in {1, 1 + site.responses}
      <3>1. PICK a : r.assertions = <<a>> /\ v.assertions[i].id \in {a.id, a.id + site.responses}
        BY <2>6 DEF Varies
      <3>2. 1 \in DOMAIN r.assertions /\ r.assertions[1] = a
        BY <3>1
      <3>3. r.assertions # << >>
        BY <3>1
      <3>4. a.id = 1
        <4>1. now \in Nat
          BY DEF TypeInv
        <4>2. PICK b : r.assertions = <<b>> /\ b.id = r.id
          BY <2>4, <3>3, <4>1, OwnsItsId
        <4>3. QED
          BY <2>8, <3>2, <4>2
      <3>5. QED
        BY <3>1, <3>4
    <2>10. IsFiniteSet(wire') /\ Cardinality(wire') = 1
      BY <2>3, FS_Singleton
    <2>11. QED
      BY <2>3, <2>8, <2>9, <2>10 DEF FreshInv
  <1>4. CASE \E d, p : Taking(d, p)
    BY <1>4, TakingKeepsFresh
  <1>5. CASE UNCHANGED <<site, wire, seen, deliveries>>
    BY <1>5 DEF FreshInv
  <1>6. QED
    BY <1>1, <1>2, <1>3, <1>4, <1>5, DeliverTakes, ValidateTakes
    DEF Next, SpLogin, ReadRequest, Tick, vars

-----------------------------------------------------------------------------
(* The checklist finds nothing wrong with a usual answer, in time.          *)

\* What the IdPs of this library write in an assertion, in either profile.
Usual(a, user, irt, at, issue, until) ==
  /\ a.issuer = Idp /\ a.issued = issue /\ a.sessions = <<until>>
  /\ a.subject =
       [nameId |-> [value |-> user, format |-> "persistent", encrypted |-> FALSE],
        confirmations |->
          <<[method |-> "bearer",
             data |-> [recipient |-> at, until |-> until, irt |-> irt,
                       notBefore |-> Absent, address |-> Absent]]>>]
  /\ a.conditions = [notBefore |-> issue, until |-> until, audiences |-> {{Sp}},
                     proxies |-> Absent]

\* Its elements are there.
Filled(a) ==
  /\ a.subject # Absent /\ a.subject.nameId # Absent /\ a.conditions # Absent
  /\ a.subject.confirmations[1].data # Absent

Timely(p, c, issue, until) ==
  /\ p.now \in Nat /\ c.skew \in Nat /\ c.maxAge \in Nat /\ issue \in Int /\ until \in Int
  /\ issue <= p.now + c.skew /\ p.now <= issue + c.maxAge /\ p.now < until + c.skew

LEMMA UsualConditions ==
  ASSUME NEW a, NEW user, NEW irt, NEW at, NEW issue, NEW until, NEW p, NEW c,
         Usual(a, user, irt, at, issue, until), Filled(a), Timely(p, c, issue, until), p.sp = Sp
  PROVE  FailedConditions(a.conditions, p, c) = {} /\ AgeOk(a, p, c)
  <1> DEFINE k == a.conditions
  <1>1. /\ k.notBefore = issue /\ k.until = until /\ k.audiences = {{Sp}} /\ k.proxies = Absent
        /\ k # Absent /\ a.issued = issue
    BY DEF Usual, Filled
  <1>2. NotBeforeValid(p.now, issue, c) /\ NotOnOrAfterValid(p.now, until, c)
    BY DEF Timely, NotBeforeValid, NotOnOrAfterValid
  <1>3. k.audiences # {} /\ AudiencesAllow(k.audiences, p.sp)
    BY <1>1 DEF AudiencesAllow
  <1>4. AgeOk(a, p, c)
    BY <1>1 DEF AgeOk, WithinAgeLimit, Timely
  <1> HIDE DEF k
  <1>5. FailedConditions(k, p, c) = {}
    BY <1>1, <1>2, <1>3 DEF FailedConditions
  <1>6. QED
    BY <1>4, <1>5 DEF k

LEMMA UsualConfirmation ==
  ASSUME NEW a, NEW user, NEW irt, NEW at, NEW issue, NEW until, NEW p, NEW c,
         Usual(a, user, irt, at, issue, until), Filled(a), Timely(p, c, issue, until),
         at # Absent, UrlsMatch(at, p.acs), until # Absent, InResponseToOk(irt, p, c)
  PROVE  FailedConfirmation(a, p, c) = {} /\ FailedStatements(a, p, c) = {}
  <1> DEFINE d == [recipient |-> at, until |-> until, irt |-> irt, notBefore |-> Absent,
                   address |-> Absent]
             b == [method |-> "bearer", data |-> d]
             cs == <<b>>
  <1>1. a.subject.confirmations = cs /\ a.sessions = <<until>>
    BY DEF Usual
  <1>2. d.recipient = at /\ d.until = until /\ d.irt = irt /\ d.notBefore = Absent /\ d.address = Absent
    OBVIOUS
  <1>3. b.method = "bearer" /\ b.data = d
    OBVIOUS
  <1> HIDE DEF d, b
  <1>4. DOMAIN cs = {1} /\ cs[1] = b
    OBVIOUS
  <1> HIDE DEF cs
  <1>5. Bearers(a) = {1}
    BY <1>1, <1>3, <1>4 DEF Bearers, Filled
  <1>6. FirstAt(a.subject.confirmations, Bearers(a)).data = d
    <2>1. (CHOOSE i \in {1} : \A j \in {1} : i <= j) = 1
      OBVIOUS
    <2>2. QED
      BY <1>1, <1>3, <1>4, <1>5, <2>1 DEF FirstAt
  <1>7. d # Absent
    BY <1>1, <1>3, <1>4 DEF Filled
  <1>8. NotOnOrAfterValid(p.now, until, c)
    BY DEF Timely, NotOnOrAfterValid
  <1>9. FailedData(d, p, c) = {}
    BY <1>2, <1>8 DEF FailedData
  <1>10. FailedConfirmation(a, p, c) = {}
    BY <1>5, <1>6, <1>7, <1>9 DEF FailedConfirmation
  <1>11. FailedStatements(a, p, c) = {}
    BY <1>1, <1>8 DEF FailedStatements
  <1>12. QED
    BY <1>10, <1>11

\* The settings and the envelope leave nothing to object to either.
Admissible(r, p, c) ==
  /\ DestinationOk(r, p, c) /\ IssuerFormatOk(r) /\ InResponseToOk(r.irt, p, c)
  /\ ResponseSignatureOk(r, p, c) /\ DsObjectOk(p, c) /\ r.success /\ p.relay = Absent

LEMMA NothingIsWrong ==
  ASSUME NEW r, NEW p, NEW c, NEW s, NEW o, NEW a, r.assertions = <<a>>, Admissible(r, p, c),
         Passes(a, 1, r, p, c, s, o), FailedConfirmation(a, p, c) = {},
         FailedStatements(a, p, c) = {}
  PROVE  Failures(r, p, c, s, o) = {}
  <1>1. DOMAIN r.assertions = {1} /\ r.assertions[1] = a /\ r.assertions # << >>
    OBVIOUS
  <1>2. FailedOfResponse(r, p, c) = {}
    BY <1>1 DEF FailedOfResponse, Admissible
  <1>3. FailedRelayState(p, c) = {}
    BY DEF FailedRelayState, Admissible
  <1> DEFINE own == {n \in {5, 6, 20, 26, 35} :
                       \/ n = 5 /\ a.issuer # p.idp
                       \/ n = 6 /\ ~SignatureOk(a, p, c)
                       \/ n = 20 /\ (~p.cache \/ Replayed(r, 1, p, c, s))
                       \/ n = 26 /\ ~PersistentIdOk(a, p, c, o)
                       \/ n = 35 /\ ~AgeOk(a, p, c)}
  <1>4. own = {}
    BY DEF Passes
  <1>5. FailedOfAssertion(r, 1, p, c, s, o) =
          FailedConditions(a.conditions, p, c) \union FailedConfirmation(a, p, c)
            \union FailedStatements(a, p, c) \union own
    BY <1>1 DEF FailedOfAssertion
  <1>6. FailedConditions(a.conditions, p, c) = {}
    BY DEF Passes
  <1> HIDE DEF own
  <1>7. FailedOfAssertion(r, 1, p, c, s, o) = {}
    BY <1>4, <1>5, <1>6
  <1>8. QED
    BY <1>1, <1>2, <1>3, <1>7 DEF Failures

\* An ID that the cache does not hold is no replay.
LEMMA UnseenIsNew ==
  ASSUME NEW r, NEW p, NEW c, NEW s, r.assertions[1].id \notin DOMAIN s
  PROVE  ~Replayed(r, 1, p, c, s)
  BY DEF Replayed, Live

-----------------------------------------------------------------------------
(* The SP understands an answer of the library's own.                       *)

\* The signature of the IdP over the rest.
Attested(x) == x.sig = [key |-> site.idpKey, over |-> Unsigned(x)] /\ x.sig # Absent

LEMMA SignedIsUsual ==
  ASSUME NEW a, IsAssertion(a), NEW user, NEW irt, NEW at, NEW issue, NEW until,
         Usual(a, user, irt, at, issue, until), Filled(a), NEW b, b = Signed(a)
  PROVE  Usual(b, user, irt, at, issue, until) /\ Filled(b)
  <1> DEFINE g == [key |-> site.idpKey, over |-> Unsigned(a)]
  <1>1. b = [a EXCEPT !.sig = g]
    BY DEF Signed
  <1> HIDE DEF g
  <1>2. /\ b.issuer = a.issuer /\ b.issued = a.issued /\ b.sessions = a.sessions
        /\ b.subject = a.subject /\ b.conditions = a.conditions
    BY <1>1 DEF IsAssertion
  <1>3. QED
    BY <1>2, Zenon DEF Usual, Filled

\* What such an answer carries, when the user was not denied.
Carries(r, b, t, user) ==
  /\ r.assertions = <<b>> /\ b.id = r.id
  /\ Usual(b, user, r.irt, r.destination, t + site.lead, t + site.lead + Lifetime) /\ Filled(b)
  /\ IF site.signAssertions THEN Attested(b) ELSE b.sig = Absent
  /\ IF site.signResponses THEN Attested(r) ELSE r.sig = Absent

LEMMA OwnCarries ==
  ASSUME TypeInv, NEW r, NEW until \in Nat, Own(r, until), r.success, r.encrypted = 0
  PROVE  \E t \in 0..until, user \in Users : \E b : Carries(r, b, t, user)
  <1>1. PICK t \in 0..until, user \in Users :
          /\ r.assertions = <<IF site.signAssertions
                              THEN Signed(Vouched(t, r.id, r.irt, r.destination, user))
                              ELSE Vouched(t, r.id, r.irt, r.destination, user)>>
          /\ r.sig = IF site.signResponses THEN Seal(r) ELSE Absent
    BY Zenon DEF Own
  <1> DEFINE a == Vouched(t, r.id, r.irt, r.destination, user)
             b == IF site.signAssertions THEN Signed(a) ELSE a
             A == AssertionsMade \union AssertionsWith(SignaturesOver(AssertionsMade))
  <1>2. r.id \in Nat /\ r.irt \in {Absent, RequestId} /\ r.destination \in Places /\ IsResponse(r)
    BY DEF Own
  <1>3. t \in Nat
    OBVIOUS
  <1>4. /\ IsAssertion(a) /\ a.id = r.id /\ a.sig = Absent /\ a \in AssertionsMade /\ Filled(a)
    BY <1>2, <1>3, VouchedIsMade DEF Filled
  <1>5. Usual(a, user, r.irt, r.destination, t + site.lead, t + site.lead + Lifetime)
    BY DEF Vouched, Usual
  <1> HIDE DEF a
  <1>6. /\ IsAssertion(Signed(a)) /\ Signed(a).id = r.id /\ Attested(Signed(a))
        /\ Signed(a) \in AssertionsWith(SignaturesOver(AssertionsMade))
    BY <1>4, SignedVouched, SignedAssertion DEF Attested
  <1>7. /\ IsAssertion(b) /\ b.id = r.id /\ b \in A /\ Filled(b)
        /\ Usual(b, user, r.irt, r.destination, t + site.lead, t + site.lead + Lifetime)
        /\ IF site.signAssertions THEN Attested(b) ELSE b.sig = Absent
    BY <1>4, <1>5, <1>6, SignedIsUsual
  <1>8. r.assertions = <<b>>
    BY <1>1 DEF a
  <1> HIDE DEF b, A
  <1>9. <<b>> \in Seq(A)
    BY <1>7
  <1>10. Seal(r) # Absent
    BY <1>8, <1>9, SealIsThere DEF A
  <1>11. IF site.signResponses THEN Attested(r) ELSE r.sig = Absent
    BY <1>1, <1>10 DEF Attested, Seal
  <1>12. Carries(r, b, t, user)
    BY <1>7, <1>8, <1>11 DEF Carries
  <1>13. QED
    BY <1>12

\* The signatures let it through.
LEMMA AttestedVerifies ==
  ASSUME site.idpKey \in site.trustedKeys, NEW x, Attested(x) PROVE Verifies(x)
  BY DEF Attested, Verifies

LEMMA DenialPasses ==
  ASSUME TypeInv, NEW r, NEW until, Own(r, until), ~r.success, NEW c,
         site.idpKey \in site.trustedKeys
  PROVE  SignaturesPass(r, c)
  <1>1. r.assertions = << >> /\ r.sig = Seal(r)
    BY Zenon DEF Own
  <1>2. << >> \in Seq(AssertionsMade \union AssertionsWith(SignaturesOver(AssertionsMade)))
    OBVIOUS
  <1>3. Attested(r)
    BY <1>1, <1>2, SealIsThere DEF Attested, Seal
  <1>4. SignedParts(r) = {r}
    BY <1>1, <1>3 DEF SignedParts, Attested
  <1>5. Verifies(r)
    BY <1>3, AttestedVerifies
  <1>6. QED
    BY <1>4, <1>5 DEF SignaturesPass

LEMMA CarriedPasses ==
  ASSUME NEW r, NEW b, NEW t, NEW user, Carries(r, b, t, user), NEW c,
         site.idpKey \in site.trustedKeys,
         c.signedAssertions => site.signAssertions, c.signedResponses => site.signResponses
  PROVE  SignaturesPass(r, c)
  <1>1. DOMAIN r.assertions = {1} /\ r.assertions[1] = b
    BY DEF Carries
  <1>2. /\ IF site.signAssertions THEN Attested(b) ELSE b.sig = Absent
        /\ IF site.signResponses THEN Attested(r) ELSE r.sig = Absent
    BY DEF Carries
  <1>3. SignedParts(r) = {x \in {r, b} : x.sig # Absent}
    BY <1>1 DEF SignedParts
  <1>4. ASSUME NEW x \in SignedParts(r) PROVE Verifies(x)
    BY <1>2, <1>3, <1>4, AttestedVerifies
  <1>5. SignedParts(r) = {} => ~site.signAssertions /\ ~site.signResponses
    BY <1>2, <1>3 DEF Attested
  <1>6. QED
    BY <1>4, <1>5 DEF SignaturesPass

\* So does the checklist, and the user is known.
LEMMA CarriedIsValid ==
  ASSUME TypeInv, NEW r, NEW b, NEW t \in 0..now, NEW user, Carries(r, b, t, user),
         r.success, r.destination # Absent, r.issuerFormat = "entity", r.encrypted = 0,
         Agreed(r), r.irt = Absent => site.security.unsolicited, ~site.security.uniquePersistent,
         now < b.conditions.until + site.security.skew, now <= b.issued + site.security.maxAge,
         r.id \notin DOMAIN seen
  PROVE  Failures(r, Params(r, r.irt), site.security, seen, owner) = {}
  <1> DEFINE p == Params(r, r.irt)
             c == site.security
             issue == t + site.lead
             until == t + site.lead + Lifetime
  <1>1. DOMAIN r.assertions = {1} /\ r.assertions[1] = b /\ b.id = r.id /\ r.assertions = <<b>>
    BY DEF Carries
  <1>2. /\ p.now = now /\ p.sp = Sp /\ p.idp = Idp /\ p.url = site.acsUrl /\ p.acs = site.acsUrl
        /\ p.request = r.irt /\ p.relay = Absent /\ p.sigXml = Absent /\ p.cache = TRUE
        /\ p.verified = VerifiedAssertions(r) /\ p.responseVerified = ResponseVerified(r)
    BY DEF Params
  <1>3. Usual(b, user, r.irt, r.destination, issue, until) /\ Filled(b)
    BY DEF Carries
  <1>4. b.issuer = Idp /\ b.issued = issue /\ b.conditions.until = until
    BY <1>3 DEF Usual
  <1>5. /\ now \in Nat /\ c.skew \in Nat /\ c.maxAge \in Nat /\ issue \in Int /\ until \in Int
        /\ site.lead \in Int
    BY WebSsoAssumption DEF TypeInv
  <1>6. /\ UrlsMatch(r.destination, site.acsUrl) /\ site.lead <= c.skew
        /\ r.success => (c.signedAssertions => site.signAssertions)
        /\ r.success => (c.signedResponses => site.signResponses)
    BY Zenon DEF Agreed
  <1>7. (c.signedAssertions => site.signAssertions) /\ (c.signedResponses => site.signResponses)
    BY <1>6, Zenon
  <1>8. issue <= now + c.skew
    BY <1>5, <1>6
  <1>9. Timely(p, c, issue, until)
    BY <1>2, <1>4, <1>5, <1>8 DEF Timely
  <1>10. InResponseToOk(r.irt, p, c)
    BY <1>2 DEF InResponseToOk
  <1>11. until # Absent
    BY <1>5, WebSsoAssumption
  <1>12. /\ IF site.signAssertions THEN Attested(b) ELSE b.sig = Absent
         /\ IF site.signResponses THEN Attested(r) ELSE r.sig = Absent
    BY DEF Carries
  <1>13. SignatureOk(b, p, c)
    <2>1. CASE b.sig = Absent
      BY <1>7, <1>12, <2>1 DEF SignatureOk, Attested
    <2>2. CASE b.sig # Absent
      <3>1. b.id \in VerifiedAssertions(r)
        BY <1>1, <2>2 DEF VerifiedAssertions
      <3>2. QED
        BY <1>2, <2>2, <3>1 DEF SignatureOk
    <2>3. QED
      BY <2>1, <2>2
  <1>14. ResponseSignatureOk(r, p, c)
    BY <1>2, <1>7, <1>12 DEF ResponseSignatureOk, ResponseVerified, Attested
  <1>15. DestinationOk(r, p, c) /\ IssuerFormatOk(r) /\ DsObjectOk(p, c)
    BY <1>2, <1>6 DEF DestinationOk, IssuerFormatOk, DsObjectOk
  <1>16. ~Replayed(r, 1, p, c, seen)
    BY <1>1, UnseenIsNew
  <1>17. PersistentIdOk(b, p, c, owner)
    BY DEF PersistentIdOk
  <1> HIDE DEF p, issue, until
  <1>18. FailedConditions(b.conditions, p, c) = {} /\ AgeOk(b, p, c)
    BY <1>2, <1>3, <1>9, UsualConditions
  <1>19. FailedConfirmation(b, p, c) = {} /\ FailedStatements(b, p, c) = {}
    BY <1>2, <1>3, <1>6, <1>9, <1>10, <1>11, UsualConfirmation
  <1>20. Passes(b, 1, r, p, c, seen, owner)
    BY <1>2, <1>4, <1>13, <1>16, <1>17, <1>18 DEF Passes
  <1>21. Admissible(r, p, c)
    BY <1>2, <1>10, <1>14, <1>15, Zenon DEF Admissible
  <1>22. Failures(r, p, c, seen, owner) = {}
    BY <1>1, <1>19, <1>20, <1>21, NothingIsWrong
  <1>23. QED
    BY <1>22 DEF p

LEMMA UnderstoodNow ==
  ASSUME TypeInv, NEW r, Own(r, now), Agreed(r), r.irt = Absent => site.security.unsolicited,
         ~site.security.uniquePersistent, r.id \notin DOMAIN seen,
         r.success => /\ now < r.assertions[1].conditions.until + site.security.skew
                      /\ now <= r.assertions[1].issued + site.security.maxAge
  PROVE  Verdict(r, r.irt, site.security) = IF r.success THEN "accepted" ELSE "denied"
  <1> DEFINE c == site.security
  <1>1. now \in Nat
    BY DEF TypeInv
  <1>2. /\ ~c.encryptedAssertions /\ r.encrypted = 0 /\ site.idpKey \in site.trustedKeys
        /\ r.success => (c.signedAssertions => site.signAssertions)
        /\ r.success => (c.signedResponses => site.signResponses)
    BY Zenon DEF Agreed
  <1>3. CASE ~r.success
    <2>1. SignaturesPass(r, c)
      BY <1>2, <1>3, DenialPasses
    <2>2. QED
      BY <1>3, <2>1, Zenon DEF Verdict
  <1>4. CASE r.success
    <2> PICK t \in 0..now, user \in Users : \E b : Carries(r, b, t, user)
      BY <1>1, <1>2, <1>4, OwnCarries
    <2>1. PICK b : Carries(r, b, t, user)
      OBVIOUS
    <2>2. DOMAIN r.assertions = {1} /\ r.assertions[1] = b /\ r.assertions # << >>
      BY <2>1 DEF Carries
    <2>3. SignaturesPass(r, c)
      BY <1>2, <1>4, <2>1, CarriedPasses
    <2>4. r.destination \in Places /\ r.issuerFormat = "entity"
      BY DEF Own
    <2>5. Failures(r, Params(r, r.irt), c, seen, owner) = {}
      <3>1. r.destination # Absent
        BY <2>4, AbsenceAssumption
      <3>2. now < b.conditions.until + c.skew /\ now <= b.issued + c.maxAge
        BY <1>4, <2>2
      <3>3. QED
        BY <1>2, <1>4, <2>1, <2>4, <3>1, <3>2, CarriedIsValid
    <2>6. ~Unprocessable(r, r.irt, c)
      BY <1>2, <1>4, <2>2 DEF Unprocessable
    <2>7. Usual(b, user, r.irt, r.destination, t + site.lead, t + site.lead + Lifetime) /\ Filled(b)
      BY <2>1 DEF Carries
    <2>8. b.sessions # << >> /\ b.subject.nameId.encrypted = FALSE
      BY <2>7 DEF Usual
    <2>9. Identity(r) = b
      <3>1. {i \in DOMAIN r.assertions : r.assertions[i].sessions # << >>} = {1}
        BY <2>2, <2>8
      <3>2. (CHOOSE i \in {1} : \A j \in {1} : i <= j) = 1
        OBVIOUS
      <3>3. QED
        BY <2>2, <3>1, <3>2 DEF Identity, FirstAt
    <2>10. Named(Identity(r))
      BY <2>7, <2>8, <2>9 DEF Named, Filled
    <2>11. QED
      BY <1>4, <2>3, <2>5, <2>6, <2>10, Zenon DEF Verdict
  <1>5. QED
    BY <1>3, <1>4

\* The answer to one delivery.
Understood(i) ==
  LET d == deliveries[i]
      r == d.message.response
  IN /\ d.message.origin = "own" /\ d.verdict # "valid" /\ site.call = Absent
     /\ Agreed(r) /\ InTime(d) /\ FirstTry(i)
     /\ d.expected = r.irt /\ (r.irt = Absent => site.security.unsolicited)
     /\ ~site.security.uniquePersistent
     => d.verdict = (IF r.success THEN "accepted" ELSE "denied")

LEMMA DeliveredIsUnderstood ==
  ASSUME TypeInv, OwnInv, FreshInv, AnswersAreUnderstood, DeliverToAcs
  PROVE  AnswersAreUnderstood'
  <1>1. PICK m \in wire :
          deliveries' = Append(deliveries, Delivery(m,
            Verdict(m.response, Expected(m.response), site.security), Expected(m.response), Absent))
    BY DEF DeliverToAcs
  <1> DEFINE r == m.response
             verdict == Verdict(r, Expected(r), site.security)
             d == Delivery(m, verdict, Expected(r), Absent)
  <1>2. site' = site
    BY DEF DeliverToAcs
  <1>3. d.message = m /\ d.verdict = verdict /\ d.expected = Expected(r) /\ d.at = now
    BY DEF Delivery
  <1>4. PICK S : deliveries \in Seq(S)
    BY DEF TypeInv
  <1> PICK n : n = Len(deliveries)
    OBVIOUS
  <1>5. /\ n \in Nat /\ DOMAIN deliveries = 1..n /\ DOMAIN deliveries' = 1..(n + 1)
        /\ \A i \in 1..n : deliveries'[i] = deliveries[i]
        /\ deliveries'[n + 1] = d
    BY <1>1, <1>4
  <1>6. \A x : (Agreed(x)' <=> Agreed(x)) /\ (InTime(x)' <=> InTime(x))
    BY <1>2 DEF Agreed, InTime
  <1> HIDE DEF d, verdict, r
  <1>7. ASSUME NEW i \in 1..n PROVE Understood(i)'
    <2>1. Understood(i)
      BY <1>5 DEF AnswersAreUnderstood, Understood
    <2>2. deliveries'[i] = deliveries[i]
      BY <1>5
    <2>3. FirstTry(i)' => FirstTry(i)
      <3>1. \A j \in 1..(i - 1) : j \in 1..n
        BY <1>5
      <3>2. QED
        BY <1>5, <3>1 DEF FirstTry
    <2>4. QED
      BY <1>2, <1>6, <2>1, <2>2, <2>3, Zenon DEF Understood
  <1>8. ASSUME NEW i, i = n + 1 PROVE Understood(i)'
    <2>1. deliveries'[i] = d /\ d.message = m /\ m.response = r
      BY <1>3, <1>5, <1>8 DEF r
    <2> SUFFICES ASSUME m.origin = "own", site.call = Absent, Agreed(r), InTime(d),
                        FirstTry(i)', d.expected = r.irt,
                        r.irt = Absent => site.security.unsolicited,
                        ~site.security.uniquePersistent
                 PROVE  d.verdict = (IF r.success THEN "accepted" ELSE "denied")
      BY <1>2, <1>6, <2>1, Zenon DEF Understood
    <2>2. Own(r, now) /\ \A k \in DOMAIN deliveries : deliveries[k].message # m
      <3>1. Own(r, now)
        BY DEF OwnInv, r
      <3>2. \A k \in 1..n : deliveries'[k].message # m
        BY <1>5, <1>8, <2>1 DEF FirstTry
      <3>3. QED
        BY <1>5, <3>1, <3>2
    <2>3. r.id \notin DOMAIN seen
      BY <2>2 DEF FreshInv, r
    <2>4. r.success => /\ now < r.assertions[1].conditions.until + site.security.skew
                       /\ now <= r.assertions[1].issued + site.security.maxAge
      BY <1>3, <2>1, Zenon DEF InTime
    <2>5. Verdict(r, r.irt, site.security) = IF r.success THEN "accepted" ELSE "denied"
      BY <2>2, <2>3, <2>4, UnderstoodNow
    <2>6. QED
      BY <1>3, <2>5, Zenon DEF verdict
  <1>9. \A i \in DOMAIN deliveries' : Understood(i)'
    BY <1>5, <1>7, <1>8
  <1>10. QED
    BY <1>9 DEF AnswersAreUnderstood, Understood

LEMMA UnderstoodStep ==
  TypeInv /\ OwnInv /\ FreshInv /\ AnswersAreUnderstood /\ [Next]_vars => AnswersAreUnderstood'
  <1> SUFFICES ASSUME TypeInv, OwnInv, FreshInv, AnswersAreUnderstood, [Next]_vars
               PROVE  AnswersAreUnderstood'
    OBVIOUS
  <1>1. CASE DeliverToAcs
    BY <1>1, DeliveredIsUnderstood
  <1>2. CASE Validate
    BY <1>2 DEF Validate, AnswersAreUnderstood
  <1>3. CASE UNCHANGED <<site, deliveries>>
    BY <1>3 DEF AnswersAreUnderstood, Agreed, InTime, FirstTry
  <1>4. QED
    BY <1>1, <1>2, <1>3 DEF Next, vars, SpLogin, ReadRequest, Respond, RespondEncrypted,
       RespondUnsolicited, Deny, RespondOtherwise, Answer, Damage, Tick

\* What the browser profile keeps, from the start.
WebInv ==
  /\ TypeInv /\ WireInv /\ IssuedInv /\ ReadInv /\ OwnInv /\ FreshInv /\ AnswersAreUnderstood

LEMMA WebInitially == Init => WebInv
  <1> SUFFICES ASSUME Init PROVE WebInv
    OBVIOUS
  <1>1. TypeInv
    BY TypeInit
  <1>2. WireInv /\ IssuedInv
    BY FS_EmptySet DEF Init, WireInv, IssuedInv
  <1>3. ReadInv /\ OwnInv
    BY DEF Init, ReadInv, OwnInv, Known
  <1>4. DOMAIN seen = {} /\ wire = {} /\ DOMAIN deliveries = {}
    BY DEF Init
  <1>5. FreshInv /\ AnswersAreUnderstood
    BY <1>4 DEF FreshInv, AnswersAreUnderstood
  <1>6. QED
    BY <1>1, <1>2, <1>3, <1>5 DEF WebInv

LEMMA WebStepKeeps == WebInv /\ [Next]_vars => WebInv'
  BY TypeStep, WireStep, ReadStep, OwnStep, FreshStep, UnderstoodStep DEF WebInv

-----------------------------------------------------------------------------
(* The same of the Swedish profile: what the IdP answers.                   *)

Loas == UNION {{d.issuable[i] : i \in DOMAIN d.issuable} : d \in Deployments}

\* An answer that the SP may know what to do with.
EidOwn(r, until) ==
  /\ Owned(r, until) /\ r.id \in Nat /\ r.success \in BOOLEAN /\ r.algorithmsAllowed = TRUE
  /\ r.irt = Eid!RequestId => Eid!Asked
  /\ r.success => \E at \in 0..until, user \in Users, loa \in Loas :
                    r.boxes = <<Eid!Box(MadeAt(at, r.id, r.irt, user, loa))>>

EidOwnInv == \A m \in posted : m.origin = "own" => EidOwn(m.response, clock)

\* Each message has an ID of its own; only those of what was delivered are used.
EidFreshInv ==
  /\ \A m, k \in posted : m.response.id = k.response.id => m = k
  /\ \A id \in DOMAIN used : id \in 1..Cardinality(posted)
  /\ \A m \in posted :
       m.origin = "own" /\ (\A i \in DOMAIN received : received[i].message # m) =>
         m.response.id \notin DOMAIN used

LEMMA MadeIsFilled ==
  ASSUME NEW at \in Nat, NEW id \in Nat, NEW irt \in {Absent, Eid!RequestId}, NEW user \in Users,
         NEW loa \in Loas
  PROVE  LET a == MadeAt(at, id, irt, user, loa) IN
         /\ Usual(a, user, irt, Eid!Acs, at, at + Eid!AnswerLifetime) /\ Filled(a)
         /\ a \in StatementsMade /\ a.sig = Absent /\ a.id = id /\ a.loas = <<loa>>
         /\ a.attributeStatements = 1
  <1> DEFINE until == at + Eid!AnswerLifetime
             n == [value |-> user, format |-> "persistent", encrypted |-> FALSE]
             d == [recipient |-> Eid!Acs, until |-> until, irt |-> irt, notBefore |-> Absent,
                   address |-> Absent]
             b == [method |-> "bearer", data |-> d]
             s == [nameId |-> n, confirmations |-> <<b>>]
             k == [notBefore |-> at, until |-> until, audiences |-> {{Sp}}, proxies |-> Absent]
             a == MadeAt(at, id, irt, user, loa)
  <1>1. a = [id |-> id, issued |-> at, issuer |-> Idp, sig |-> Absent, subject |-> s,
             conditions |-> k, sessions |-> <<until>>, loas |-> <<loa>>,
             attributeStatements |-> 1]
    BY DEF MadeAt
  <1>2. at \in Int /\ until \in Int
    BY DEF Eid!AnswerLifetime
  <1>3. n \in NameIds
    BY DEF NameIds
  <1>4. irt \in {Absent, RequestId}
    BY DEF Eid!RequestId, RequestId
  <1>5. d \in DataFor({Eid!Acs})
    BY <1>2, <1>4 DEF DataFor
  <1>6. k \in ConditionsMade
    BY <1>2 DEF ConditionsMade
  <1>7. b \in [method : {"bearer"}, data : DataFor({Eid!Acs})] /\ b.data = d
    BY <1>5
  <1>8. Usual(a, user, irt, Eid!Acs, at, until)
    BY <1>1 DEF Usual
  <1> HIDE DEF until, n, d, k, a, b
  <1>9. <<b>> \in Seq([method : {"bearer"}, data : DataFor({Eid!Acs})]) /\ <<b>>[1] = b
    BY <1>7
  <1>10. s \in SubjectsFor({Eid!Acs}) /\ s.nameId = n /\ s.confirmations[1] = b
    BY <1>3, <1>9 DEF SubjectsFor
  <1> HIDE DEF s
  <1>11. <<until>> \in Seq(Int) /\ <<loa>> \in Seq(Loas)
    BY <1>2
  <1> DEFINE L == Seq(Loas)
  <1>12. <<loa>> \in L
    BY <1>11
  <1>13. StatementsMade =
           [id : Nat, issued : Int, issuer : {Idp}, sig : {Absent}, subject : SubjectsFor({Eid!Acs}),
            conditions : ConditionsMade, sessions : Seq(Int), attributeStatements : {1}, loas : L]
    BY DEF StatementsMade, Loas
  <1> HIDE DEF L
  <1>14. a \in StatementsMade
    BY <1>1, <1>2, <1>6, <1>10, <1>11, <1>12, <1>13
  <1>15. /\ a.id = id /\ a.sig = Absent /\ a.subject = s /\ a.conditions = k /\ a.loas = <<loa>>
         /\ a.attributeStatements = 1
    BY <1>1
  <1>16. n # Absent /\ d # Absent /\ k # Absent /\ s # Absent
    BY <1>3, <1>5, <1>6, <1>10, AbsenceAssumption
  <1>17. Filled(a)
    BY <1>7, <1>10, <1>15, <1>16 DEF Filled
  <1>18. QED
    BY <1>8, <1>14, <1>15, <1>17 DEF a, until

\* The envelope's signature is there.
LEMMA EnvelopeIsSigned ==
  ASSUME NEW r, NEW until \in Nat, EidOwn(r, until) PROVE r.sig # Absent
  <1> DEFINE u == Eid!Unsigned(r)
             B == [assertion : StatementsMade, algorithmsAllowed : {TRUE}]
             BS == Seq(B)
  <1>1. /\ IsEnvelope(r) /\ r.id \in Nat /\ r.issuer = Idp /\ r.issuerFormat = "entity"
        /\ r.destination = Eid!Acs /\ r.irt \in {Absent, Eid!RequestId} /\ r.assertions = << >>
        /\ r.sig = [key |-> "idp", over |-> u, covers |-> "response"]
    BY DEF EidOwn, Owned
  <1>2. (r.success = TRUE \/ r.success = FALSE) /\ r.algorithmsAllowed = TRUE
    BY DEF EidOwn, Owned
  <1>3. r.boxes \in Seq(B)
    <2>1. CASE r.success = TRUE
      <3>1. PICK at \in 0..until, user \in Users, loa \in Loas :
              r.boxes = <<Eid!Box(MadeAt(at, r.id, r.irt, user, loa))>>
        BY <2>1 DEF EidOwn
      <3> DEFINE a == MadeAt(at, r.id, r.irt, user, loa)
                 b == Eid!Box(a)
      <3>2. at \in Nat
        OBVIOUS
      <3>3. a \in StatementsMade
        BY <1>1, <3>2, MadeIsFilled
      <3> HIDE DEF a
      <3>4. b \in B
        BY <3>3 DEF Eid!Box
      <3>5. r.boxes = <<b>>
        BY <3>1 DEF a
      <3> HIDE DEF b, B
      <3>6. QED
        BY <3>4, <3>5
    <2>2. CASE r.success = FALSE
      <3>1. r.boxes = << >>
        BY <2>2 DEF EidOwn, Owned
      <3> HIDE DEF B
      <3>2. QED
        BY <3>1
    <2>3. QED
      BY <1>2, <2>1, <2>2
  <1>4. EnvelopesMade =
          [id : Nat, issuer : {Idp}, issuerFormat : {"entity"}, destination : {Eid!Acs},
           irt : {Absent, RequestId}, success : BOOLEAN, sig : {Absent},
           algorithmsAllowed : {TRUE}, assertions : {<< >>}, boxes : BS]
    BY DEF EnvelopesMade
  <1>5. r.boxes \in BS
    BY <1>3
  <1> HIDE DEF BS
  <1>6. u = [id |-> r.id, issuer |-> r.issuer, issuerFormat |-> r.issuerFormat,
             destination |-> r.destination, irt |-> r.irt, success |-> r.success, sig |-> Absent,
             algorithmsAllowed |-> r.algorithmsAllowed, assertions |-> r.assertions,
             boxes |-> r.boxes]
    BY <1>1 DEF Eid!Unsigned, IsEnvelope
  <1>7. r.irt \in {Absent, RequestId} /\ r.success \in BOOLEAN
    BY <1>1, <1>2 DEF Eid!RequestId, RequestId
  <1> HIDE DEF u
  <1>8. u \in EnvelopesMade
    BY <1>1, <1>2, <1>4, <1>5, <1>6, <1>7
  <1>9. r.sig \in [key : {"idp"}, over : EnvelopesMade, covers : {"response"}]
    BY <1>1, <1>8
  <1>10. QED
    BY <1>9, AbsenceAssumption

\* What is posted: an answer of the library's own under the next ID.
OwnPosting(s) ==
  /\ EidOwn(s, clock) /\ s.id = Eid!NextId
  /\ posted' = posted \union {[origin |-> "own", response |-> s]}
  /\ UNCHANGED <<deployment, clock, asked, used, received>>

LEMMA NextIdIsNat ==
  ASSUME PostedInv
  PROVE  Cardinality(posted) \in Nat /\ Eid!NextId = Cardinality(posted) + 1 /\ Eid!NextId \in Nat
  BY FS_CardinalityType, SameCardinality DEF PostedInv, Eid!NextId

LEMMA UnsentIsFlagged ==
  ASSUME NEW id, NEW irt, NEW ok \in BOOLEAN, NEW as, NEW q,
         q = Eid!Response(id, irt, ok, as) \/ q = Eid!EncryptAssertions(Eid!Response(id, irt, ok, as)),
         NEW s, s = Eid!SignedBy(q, "idp", "response")
  PROVE  s.success \in BOOLEAN /\ s.algorithmsAllowed = TRUE
  <1> DEFINE g == [key |-> "idp", over |-> Eid!Unsigned(q), covers |-> "response"]
             e == Eid!Response(id, irt, ok, as)
             boxes == [i \in DOMAIN e.assertions |-> Eid!Box(e.assertions[i])]
  <1>1. e.success = ok /\ e.algorithmsAllowed = TRUE /\ IsEnvelope(e)
    BY DEF Eid!Response, IsEnvelope
  <1>2. q = e \/ q = [e EXCEPT !.assertions = << >>, !.boxes = boxes]
    BY DEF Eid!EncryptAssertions
  <1> HIDE DEF e, boxes
  <1>3. q.success = ok /\ q.algorithmsAllowed = TRUE /\ IsEnvelope(q)
    BY <1>1, <1>2 DEF IsEnvelope
  <1>4. s = [q EXCEPT !.sig = g]
    BY DEF Eid!SignedBy
  <1> HIDE DEF g
  <1>5. s.success = ok /\ s.algorithmsAllowed = TRUE
    BY <1>3, <1>4 DEF IsEnvelope
  <1>6. QED
    BY <1>5

LEMMA LoasDelivered ==
  ASSUME EidTyped,
         NEW chosen \in {Absent} \union {deployment.issuable[i] : i \in DOMAIN deployment.issuable}
  PROVE  Eid!DeliveredLoa(chosen) \in Loas
  <1>1. deployment \in Deployments /\ 1 \in DOMAIN deployment.issuable
    BY DeploymentsAssumption DEF EidTyped
  <1>2. \A i \in DOMAIN deployment.issuable : deployment.issuable[i] \in Loas
    BY <1>1 DEF Loas
  <1>3. QED
    BY <1>1, <1>2 DEF Eid!DeliveredLoa

LEMMA EidOwnSends ==
  ASSUME EidTyped, PostedInv, Eid!Respond \/ Eid!Decline PROVE \E s : OwnPosting(s)
  <1> DEFINE id == Eid!NextId
  <1>1. clock \in Nat /\ clock \in 0..clock /\ id \in Nat
    BY NextIdIsNat DEF EidTyped
  <1>2. ASSUME NEW q, NEW irt \in {Absent, Eid!RequestId}, NEW ok \in BOOLEAN, NEW boxes,
               Unsent(q, irt, ok, boxes), irt = Eid!RequestId => Eid!Asked,
               NEW s, s = Eid!SignedBy(q, "idp", "response"), Eid!Post("own", s),
               s.success \in BOOLEAN, s.algorithmsAllowed = TRUE,
               \/ /\ ok = TRUE
                  /\ \E user \in Users, loa \in Loas :
                       boxes = <<Eid!Box(MadeAt(clock, id, irt, user, loa))>>
               \/ ok = FALSE /\ boxes = << >>
        PROVE  \E x : OwnPosting(x)
    <2>1. SignedAs(s, q, "idp", "response")
      BY <1>2, SignedEnvelope DEF Unsent
    <2>2. /\ IsEnvelope(s) /\ s.id = id /\ s.issuer = Idp /\ s.issuerFormat = "entity"
          /\ s.destination = Eid!Acs /\ s.irt = irt /\ s.success = ok
          /\ s.assertions = << >> /\ s.boxes = boxes
          /\ s.sig = [key |-> "idp", over |-> Eid!Unsigned(s), covers |-> "response"]
      BY <1>2, <2>1 DEF SignedAs, Unsent
    <2> HIDE DEF id
    <2>3. CASE /\ ok = TRUE
               /\ \E user \in Users, loa \in Loas :
                    boxes = <<Eid!Box(MadeAt(clock, id, irt, user, loa))>>
      <3>1. \E at \in 0..clock, user \in Users, loa \in Loas :
              s.boxes = <<Eid!Box(MadeAt(at, s.id, s.irt, user, loa))>>
        BY <1>1, <2>2, <2>3, Zenon
      <3>2. s.success
        BY <2>2, <2>3, Zenon
      <3>3. Owned(s, clock)
        BY <1>2, <2>2, <3>1, <3>2, Zenon DEF Owned
      <3>4. EidOwn(s, clock)
        BY <1>1, <1>2, <2>2, <3>1, <3>3, Zenon DEF EidOwn
      <3>5. OwnPosting(s)
        BY <1>2, <2>2, <3>4 DEF OwnPosting, Eid!Post, id
      <3>6. QED
        BY <3>5
    <2>4. CASE ok = FALSE /\ boxes = << >>
      <3>1. ~s.success
        BY <2>2, <2>4, Zenon
      <3>2. Owned(s, clock)
        BY <1>2, <2>2, <2>4, <3>1, Zenon DEF Owned
      <3>3. EidOwn(s, clock)
        BY <1>1, <1>2, <2>2, <3>1, <3>2, Zenon DEF EidOwn
      <3>4. OwnPosting(s)
        BY <1>2, <2>2, <3>3 DEF OwnPosting, Eid!Post, id
      <3>5. QED
        BY <3>4
    <2>5. QED
      BY <1>2, <2>3, <2>4
  <1>3. CASE Eid!Respond
    <2>1. PICK irt \in Eid!Answered, user \in Users,
               chosen \in {Absent} \union {deployment.issuable[i] : i \in DOMAIN deployment.issuable} :
            Eid!Post("own", Eid!SignedBy(Eid!EncryptAssertions(
              Eid!Response(Eid!NextId, irt, TRUE,
                <<Eid!Assertion(Eid!NextId, irt, user, Eid!DeliveredLoa(chosen))>>)),
              "idp", "response"))
      BY <1>3 DEF Eid!Respond
    <2> DEFINE loa == Eid!DeliveredLoa(chosen)
               as == <<Eid!Assertion(Eid!NextId, irt, user, loa)>>
               q == Eid!EncryptAssertions(Eid!Response(Eid!NextId, irt, TRUE, as))
               s == Eid!SignedBy(q, "idp", "response")
               boxes == <<Eid!Box(MadeAt(clock, id, irt, user, loa))>>
    <2>2. irt \in {Absent, Eid!RequestId} /\ (irt = Eid!RequestId => Eid!Asked)
      <3>1. Absent # Eid!RequestId
        BY AbsenceAssumption DEF Eid!RequestId, RequestId
      <3>2. QED
        BY <2>1, <3>1 DEF Eid!Answered
    <2>3. Eid!Post("own", s)
      BY <2>1
    <2>4. loa \in Loas
      BY LoasDelivered
    <2>5. \E u \in Users, l \in Loas : boxes = <<Eid!Box(MadeAt(clock, id, irt, u, l))>>
      BY <2>4
    <2>6. q = Eid!EncryptAssertions(Eid!Response(Eid!NextId, irt, TRUE,
                <<Eid!Assertion(Eid!NextId, irt, user, loa)>>))
      OBVIOUS
    <2>7. q = Eid!EncryptAssertions(Eid!Response(Eid!NextId, irt, TRUE, as))
      OBVIOUS
    <2> HIDE DEF q, loa, as
    <2>8. Unsent(q, irt, TRUE, boxes)
      BY <2>6, EncryptedAnswer
    <2>9. s = Eid!SignedBy(q, "idp", "response")
      OBVIOUS
    <2> HIDE DEF s, boxes, id
    <2>10. s.success \in BOOLEAN /\ s.algorithmsAllowed = TRUE
      <3>1. TRUE \in BOOLEAN
        OBVIOUS
      <3>2. QED
        BY <2>7, <2>9, <3>1, UnsentIsFlagged
    <2>11. QED
      BY <1>2, <2>2, <2>3, <2>5, <2>8, <2>9, <2>10
  <1>4. CASE Eid!Decline
    <2> DEFINE q == Eid!Response(Eid!NextId, Eid!RequestId, FALSE, << >>)
               s == Eid!SignedBy(q, "idp", "response")
    <2>1. Eid!Post("own", s) /\ Eid!Asked
      BY <1>4 DEF Eid!Decline
    <2>2. q = Eid!Response(Eid!NextId, Eid!RequestId, FALSE, << >>)
      OBVIOUS
    <2> HIDE DEF q
    <2>3. Unsent(q, Eid!RequestId, FALSE, << >>)
      BY <2>2, DeclinedAnswer
    <2>4. s = Eid!SignedBy(q, "idp", "response")
      OBVIOUS
    <2> HIDE DEF s, id
    <2>5. s.success \in BOOLEAN /\ s.algorithmsAllowed = TRUE
      <3>1. FALSE \in BOOLEAN
        OBVIOUS
      <3>2. QED
        BY <2>2, <2>4, <3>1, UnsentIsFlagged
    <2>6. QED
      BY <1>2, <2>1, <2>3, <2>4, <2>5
  <1>5. QED
    BY <1>3, <1>4

LEMMA EidOwnStays ==
  ASSUME NEW r, EidOwn(r, clock), Eid!Asked => Eid!Asked', clock \in Nat, clock' \in Nat,
         clock <= clock'
  PROVE  EidOwn(r, clock)'
  <1>1. 0..clock \subseteq 0..clock'
    OBVIOUS
  <1>2. Owned(r, clock')
    BY <1>1 DEF EidOwn, Owned
  <1>3. QED
    BY <1>1, <1>2, Zenon DEF EidOwn

\* Only the library's own IdP adds messages of its own.
LEMMA OthersAreNotOwn ==
  ASSUME PostedInv, Eid!RespondOtherwise \/ Eid!Alter
  PROVE  /\ UNCHANGED <<deployment, clock, asked, used, received>>
         /\ \E m : m.origin # "own" /\ posted' = {m}
         /\ posted = {} \/ Cardinality(posted) = 1
  <1>1. CASE Eid!RespondOtherwise
    <2>1. \E r : Eid!Post("peer", r)
      BY <1>1 DEF Eid!RespondOtherwise
    <2>2. PICK r : Eid!Post("peer", r)
      BY <2>1
    <2> DEFINE m == [origin |-> "peer", response |-> r]
    <2>3. /\ posted' = posted \union {m} /\ UNCHANGED <<deployment, clock, asked, used, received>>
          /\ m.origin # "own"
      BY <2>2 DEF Eid!Post
    <2> HIDE DEF m
    <2>4. posted = {}
      BY <1>1 DEF Eid!RespondOtherwise
    <2>5. posted' = {m}
      BY <2>3, <2>4
    <2>6. QED
      BY <2>3, <2>4, <2>5
  <1>2. CASE Eid!Alter
    <2>1. PICK v : posted' = {[origin |-> "altered", response |-> v]}
      BY <1>2 DEF Eid!Alter
    <2>2. [origin |-> "altered", response |-> v].origin # "own"
      OBVIOUS
    <2>3. Cardinality(posted) = 1 /\ UNCHANGED <<deployment, clock, asked, used, received>>
      BY <1>2, SameCardinality DEF Eid!Alter
    <2>4. QED
      BY <2>1, <2>2, <2>3
  <1>3. QED
    BY <1>1, <1>2

LEMMA EidOwnStep ==
  ASSUME EidTyped, PostedInv, EidOwnInv, [Eid!Next]_eidVars
  PROVE  EidOwnInv'
  <1>1. clock \in Nat /\ clock <= clock
    BY DEF EidTyped
  <1>2. CASE Eid!Respond \/ Eid!Decline
    <2>1. PICK s : OwnPosting(s)
      BY <1>2, EidOwnSends
    <2> DEFINE m == [origin |-> "own", response |-> s]
    <2>2. m.response = s
      OBVIOUS
    <2>3. /\ EidOwn(s, clock) /\ posted' = posted \union {m} /\ clock' = clock
          /\ Eid!Asked => Eid!Asked'
      BY <2>1 DEF OwnPosting, Eid!Asked
    <2> HIDE DEF m
    <2>4. ASSUME NEW k \in posted', k.origin = "own" PROVE EidOwn(k.response, clock)'
      <3>1. EidOwn(k.response, clock)
        BY <2>2, <2>3, <2>4 DEF EidOwnInv
      <3>2. QED
        BY <1>1, <2>3, <3>1, EidOwnStays
    <2>5. QED
      BY <2>4 DEF EidOwnInv
  <1>3. CASE Eid!RespondOtherwise \/ Eid!Alter
    BY <1>3, OthersAreNotOwn DEF EidOwnInv
  <1>4. CASE Eid!BuildRequest \/ Eid!Deliver \/ Eid!Tick \/ UNCHANGED eidVars
    <2>1. /\ posted' = posted /\ (clock' = clock \/ clock' = clock + 1)
          /\ asked' = asked \/ asked = Absent
      BY <1>4 DEF Eid!BuildRequest, Eid!Deliver, Eid!Tick, eidVars
    <2>2. (Eid!Asked => Eid!Asked') /\ clock' \in Nat /\ clock <= clock'
      BY <1>1, <2>1 DEF Eid!Asked
    <2>3. ASSUME NEW m \in posted, m.origin = "own" PROVE EidOwn(m.response, clock)'
      BY <1>1, <2>2, <2>3, EidOwnStays DEF EidOwnInv
    <2>4. QED
      BY <2>1, <2>3 DEF EidOwnInv
  <1>5. QED
    BY <1>2, <1>3, <1>4 DEF Eid!Next

\* What the SP makes of a response, step by step.
EidChecked(r) ==
  Eid!Readable(r) /\ Eid!Processable(Eid!Decrypted(r), Eid!Expected(Eid!Decrypted(r)))

EidVerdict(r) ==
  LET q == Eid!Decrypted(r)
  IN IF ~Eid!Readable(r) THEN "unreadable"
     ELSE IF ~q.success THEN "declined"
     ELSE IF ~EidChecked(r) THEN "unprocessable"
     ELSE IF Failures(q, Eid!Params(q, Eid!Expected(q)), EidSecurity, used, << >>) # {}
     THEN "invalid"
     ELSE IF Eid!Conformant(q.assertions[1]) THEN "accepted" ELSE "unfit"

LEMMA EidDelivers ==
  ASSUME Eid!Deliver
  PROVE  \E m \in posted :
           /\ received' = Append(received, [message |-> m, verdict |-> EidVerdict(m.response),
                                            at |-> clock])
           /\ LET q == Eid!Decrypted(m.response)
              IN used' = IF EidChecked(m.response)
                         THEN SeenAfter(q, Eid!Params(q, Eid!Expected(q)), EidSecurity, used)
                         ELSE used
           /\ UNCHANGED <<deployment, clock, asked, posted, signed>>
  BY SameChecklist, SameReplays DEF Eid!Deliver, EidSecurity, EidChecked, EidVerdict

\* The ID that a delivery may leave in the cache is the message's own.
LEMMA CheckedIsUsed ==
  ASSUME PostedInv, NEW m \in posted, EidChecked(m.response), NEW p, NEW c,
         NEW id \in DOMAIN SeenAfter(Eid!Decrypted(m.response), p, c, used)
  PROVE  id \in DOMAIN used \/ id = m.response.id
  <1> DEFINE r == m.response
             q == Eid!Decrypted(r)
             bs == r.boxes
  <1>1. IsEnvelope(r) /\ IsSequence(bs) /\ (1 \in DOMAIN bs => bs[1].assertion.id = r.id)
    BY DEF PostedInv, Posted, Boxed
  <1>2. /\ DOMAIN q.assertions = 1..Len(bs) /\ Len(q.assertions) = Len(bs)
        /\ \A i \in DOMAIN q.assertions : q.assertions[i] = bs[i].assertion
    BY <1>1, Decryption
  <1>3. Len(q.assertions) = 1
    BY DEF EidChecked, Eid!Processable
  <1>4. 1 \in DOMAIN bs
    <2>1. bs \in Seq({bs[i] : i \in DOMAIN bs})
      BY <1>1 DEF IsSequence
    <2> HIDE DEF bs
    <2>2. DOMAIN bs = 1..Len(bs)
      BY <2>1
    <2>3. QED
      BY <1>2, <1>3, <2>2
  <1>5. \A i \in DOMAIN q.assertions : q.assertions[i].id = r.id
    <2> HIDE DEF q, bs, r
    <2>1. DOMAIN q.assertions = {1}
      BY <1>2, <1>3
    <2>2. q.assertions[1] = bs[1].assertion
      BY <1>2, <2>1
    <2>3. QED
      BY <1>1, <1>4, <2>1, <2>2
  <1>6. id \in DOMAIN used \/ \E i \in DOMAIN q.assertions : id = q.assertions[i].id
    BY SeenGrows
  <1>7. QED
    BY <1>5, <1>6

LEMMA EidFreshStep ==
  ASSUME EidTyped, PostedInv, EidFreshInv, [Eid!Next]_eidVars
  PROVE  EidFreshInv'
  <1> DEFINE n == Cardinality(posted)
  <1>1. n \in Nat /\ Eid!NextId = n + 1 /\ IsFiniteSet(posted)
    BY NextIdIsNat DEF PostedInv
  <1>2. \A m \in posted : m.response.id \in 1..n
    BY DEF PostedInv, Posted
  <1>3. \A id \in DOMAIN used : id \in 1..n
    BY DEF EidFreshInv
  <1>4. CASE Eid!Respond \/ Eid!Decline
    <2>1. PICK s : OwnPosting(s)
      BY <1>4, EidOwnSends
    <2> DEFINE m == [origin |-> "own", response |-> s]
    <2>2. m.response = s
      OBVIOUS
    <2>3. /\ posted' = posted \union {m} /\ m.response.id = n + 1
          /\ UNCHANGED <<used, received>>
      BY <1>1, <2>1, <2>2 DEF OwnPosting
    <2> HIDE DEF m
    <2>4. \A k \in posted : k.response.id # n + 1
      BY <1>1, <1>2
    <2>5. m \notin posted
      BY <2>3, <2>4
    <2>6. Cardinality(posted') = n + 1
      BY <1>1, <2>3, <2>5, FS_AddElement
    <2>7. \A id \in DOMAIN used : id \in 1..(n + 1) /\ id # n + 1
      BY <1>1, <1>3
    <2> HIDE DEF n
    <2>8. \A k, l \in posted' : k.response.id = l.response.id => k = l
      BY <2>3, <2>4 DEF EidFreshInv
    <2>9. \A id \in DOMAIN used' : id \in 1..Cardinality(posted')
      BY <2>3, <2>6, <2>7
    <2>10. m.response.id \notin DOMAIN used
      BY <2>3, <2>7
    <2>11. \A k \in posted' :
             k.origin = "own" /\ (\A i \in DOMAIN received' : received'[i].message # k) =>
               k.response.id \notin DOMAIN used'
      BY <2>3, <2>10 DEF EidFreshInv
    <2>12. QED
      BY <2>8, <2>9, <2>11 DEF EidFreshInv
  <1>5. CASE Eid!RespondOtherwise \/ Eid!Alter
    <2>1. /\ UNCHANGED <<used, received>> /\ (posted = {} \/ n = 1)
      BY <1>5, OthersAreNotOwn
    <2>2. PICK m : m.origin # "own" /\ posted' = {m}
      BY <1>5, OthersAreNotOwn
    <2>3. Cardinality(posted') = 1
      BY <2>2, FS_Singleton
    <2>4. posted = {} => n = 0
      BY FS_EmptySet
    <2> HIDE DEF n
    <2>5. \A id \in DOMAIN used' : id \in 1..1
      BY <1>1, <1>3, <2>1, <2>4
    <2>6. QED
      BY <2>2, <2>3, <2>5 DEF EidFreshInv
  <1>6. CASE Eid!Deliver
    <2>1. PICK m \in posted :
            /\ received' = Append(received, [message |-> m, verdict |-> EidVerdict(m.response),
                                             at |-> clock])
            /\ LET q == Eid!Decrypted(m.response)
               IN used' = IF EidChecked(m.response)
                          THEN SeenAfter(q, Eid!Params(q, Eid!Expected(q)), EidSecurity, used)
                          ELSE used
            /\ UNCHANGED <<deployment, clock, asked, posted, signed>>
      BY <1>6, EidDelivers
    <2> DEFINE d == [message |-> m, verdict |-> EidVerdict(m.response), at |-> clock]
    <2>2. d.message = m /\ received' = Append(received, d) /\ posted' = posted
      BY <2>1
    <2> HIDE DEF d
    <2>3. ASSUME NEW id \in DOMAIN used' PROVE id \in DOMAIN used \/ id = m.response.id
      BY <2>1, CheckedIsUsed
    <2>4. \A id \in DOMAIN used' : id \in 1..Cardinality(posted')
      BY <1>2, <1>3, <2>2, <2>3
    <2>5. ASSUME NEW k \in posted, k.origin = "own",
                 \A i \in DOMAIN received' : received'[i].message # k
          PROVE  k.response.id \notin DOMAIN used'
      <3>1. PICK S : received \in Seq(S)
        BY DEF EidTyped
      <3>2. /\ \A i \in DOMAIN received : i \in DOMAIN received' /\ received'[i] = received[i]
            /\ Len(received) + 1 \in DOMAIN received' /\ received'[Len(received) + 1] = d
        BY <2>2, <3>1
      <3>3. k # m /\ \A i \in DOMAIN received : received[i].message # k
        BY <2>2, <2>5, <3>2
      <3>4. k.response.id \notin DOMAIN used /\ k.response.id # m.response.id
        BY <2>5, <3>3 DEF EidFreshInv
      <3>5. QED
        BY <2>3, <3>4
    <2>6. \A k, l \in posted' : k.response.id = l.response.id => k = l
      BY <2>2 DEF EidFreshInv
    <2>7. QED
      BY <2>2, <2>4, <2>5, <2>6 DEF EidFreshInv
  <1>7. CASE Eid!BuildRequest \/ Eid!Tick \/ UNCHANGED eidVars
    BY <1>7 DEF EidFreshInv, Eid!BuildRequest, Eid!Tick, eidVars
  <1>8. QED
    BY <1>4, <1>5, <1>6, <1>7 DEF Eid!Next

-----------------------------------------------------------------------------
(* The SP makes of it what was meant.                                       *)

LEMMA OwnIsReadable ==
  ASSUME NEW r, NEW until \in Nat, EidOwn(r, until) PROVE Eid!Readable(r)
  <1>1. /\ r.algorithmsAllowed = TRUE /\ r.assertions = << >>
        /\ r.sig = [key |-> "idp", over |-> Eid!Unsigned(r), covers |-> "response"]
    BY DEF EidOwn, Owned
  <1>2. Eid!Verifies(r) /\ r.sig # Absent
    BY <1>1, EnvelopeIsSigned DEF Eid!Verifies
  <1>3. ASSUME NEW i \in DOMAIN r.boxes
        PROVE  r.boxes[i].algorithmsAllowed = TRUE /\ r.boxes[i].assertion.sig = Absent
    <2>1. r.success \in BOOLEAN /\ (~r.success => r.boxes = << >>)
      BY Zenon DEF EidOwn, Owned
    <2>2. r.boxes # << >>
      OBVIOUS
    <2>3. r.success
      BY <2>1, <2>2, Zenon
    <2>4. PICK at \in 0..until, user \in Users, loa \in Loas :
            r.boxes = <<Eid!Box(MadeAt(at, r.id, r.irt, user, loa))>>
      BY <2>3, Zenon DEF EidOwn
    <2> DEFINE a == MadeAt(at, r.id, r.irt, user, loa)
               b == Eid!Box(a)
    <2>5. a.sig = Absent
      BY DEF MadeAt
    <2>6. b.assertion = a /\ b.algorithmsAllowed = TRUE
      BY DEF Eid!Box
    <2>7. r.boxes = <<b>>
      BY <2>4
    <2> HIDE DEF a, b
    <2>8. r.boxes[i] = b
      BY <2>7
    <2>9. QED
      BY <2>5, <2>6, <2>8
  <1>4. QED
    BY <1>1, <1>2, <1>3 DEF Eid!Readable

\* What the SP decrypts.
LEMMA OwnDecrypted ==
  ASSUME EidTyped, NEW r, NEW until \in Nat, EidOwn(r, until), r.success,
         NEW q, q = Eid!Decrypted(r)
  PROVE  \E at \in 0..until, user \in Users, loa \in Loas :
           LET a == MadeAt(at, r.id, r.irt, user, loa)
           IN r.boxes = <<Eid!Box(a)>> /\ q.assertions = <<a>>
  <1>1. PICK at \in 0..until, user \in Users, loa \in Loas :
          r.boxes = <<Eid!Box(MadeAt(at, r.id, r.irt, user, loa))>>
    BY Zenon DEF EidOwn
  <1> DEFINE a == MadeAt(at, r.id, r.irt, user, loa)
             b == Eid!Box(a)
             list == [i \in DOMAIN r.boxes |-> r.boxes[i].assertion]
  <1>2. b.assertion = a
    BY DEF Eid!Box
  <1>3. r.boxes = <<b>> /\ IsEnvelope(r)
    BY <1>1 DEF EidOwn, Owned
  <1>4. q = [r EXCEPT !.assertions = list]
    BY DEF Eid!Decrypted
  <1> HIDE DEF a, b
  <1>5. DOMAIN r.boxes = {1} /\ r.boxes[1] = b
    BY <1>3
  <1>6. list = [i \in {1} |-> a]
    BY <1>2, <1>5
  <1>7. list = <<a>>
    BY <1>6
  <1> HIDE DEF list
  <1>8. q.assertions = list
    BY <1>3, <1>4 DEF IsEnvelope
  <1>9. r.boxes = <<b>> /\ q.assertions = <<a>>
    BY <1>3, <1>7, <1>8
  <1>10. QED
    BY <1>9 DEF a, b

LEMMA ReachedNow ==
  ASSUME EidTyped, NEW r, EidOwn(r, clock), r.success, r.id \notin DOMAIN used,
         r.irt = Absent => deployment.unsolicited, ~deployment.wantSigned,
         Eid!LoaAccepted(r.boxes[1].assertion.loas[1]),
         clock < r.boxes[1].assertion.conditions.until + Eid!Lesser(deployment.skew, Eid!MaxSkew)
  PROVE  EidVerdict(r) = "accepted"
  <1> DEFINE q == Eid!Decrypted(r)
             e == Eid!Expected(q)
             p == Eid!Params(q, e)
             c == EidSecurity
  <1>1. clock \in Nat
    BY DEF EidTyped
  <1>2. PICK at \in 0..clock, user \in Users, loa \in Loas :
          LET x == MadeAt(at, r.id, r.irt, user, loa)
          IN r.boxes = <<Eid!Box(x)>> /\ q.assertions = <<x>>
    BY <1>1, OwnDecrypted
  <1> DEFINE a == MadeAt(at, r.id, r.irt, user, loa)
             until == at + Eid!AnswerLifetime
  <1>3. at \in Nat /\ r.id \in Nat /\ r.irt \in {Absent, Eid!RequestId}
    BY <1>1 DEF EidOwn, Owned
  <1>4. /\ Usual(a, user, r.irt, Eid!Acs, at, until) /\ Filled(a)
        /\ a.sig = Absent /\ a.id = r.id /\ a.loas = <<loa>> /\ a.attributeStatements = 1
    BY <1>3, MadeIsFilled
  <1>5. /\ IsEnvelope(r) /\ r.issuer = Idp /\ r.issuerFormat = "entity" /\ r.destination = Eid!Acs
        /\ r.sig = [key |-> "idp", over |-> Eid!Unsigned(r), covers |-> "response"]
        /\ r.sig # Absent /\ (r.irt = Eid!RequestId => Eid!Asked)
    BY <1>1, EnvelopeIsSigned DEF EidOwn, Owned
  <1>6. /\ q.issuer = Idp /\ q.issuerFormat = "entity" /\ q.destination = Eid!Acs
        /\ q.irt = r.irt /\ q.sig = r.sig /\ q.success = r.success
    BY <1>5 DEF Eid!Decrypted, IsEnvelope
  <1>7. /\ r.boxes[1].assertion = a /\ q.assertions = <<a>>
    BY <1>2 DEF Eid!Box
  <1> HIDE DEF a
  <1>8. DOMAIN q.assertions = {1} /\ q.assertions[1] = a /\ Len(q.assertions) = 1
    BY <1>7
  <1>9. e = r.irt
    BY <1>3, <1>5, <1>6 DEF Eid!Expected
  <1>10. /\ p.now = clock /\ p.sp = Sp /\ p.idp = Idp /\ p.url = Eid!Acs /\ p.acs = Eid!Acs
         /\ p.request = r.irt /\ p.relay = Absent /\ p.sigXml = Absent /\ p.cache = TRUE
         /\ p.responseVerified = "yes"
    BY <1>9 DEF Eid!Params
  <1>11. /\ c.verifyDestination = TRUE /\ c.uniquePersistent = FALSE
         /\ c.signedAssertions = deployment.wantSigned /\ c.unsolicited = deployment.unsolicited
         /\ c.skew = Eid!Lesser(deployment.skew, Eid!MaxSkew) /\ c.maxAge = 3
    BY DEF EidSecurity, Eid!SecurityOf, Eid!DefaultConfig
  <1>12. a.issuer = Idp /\ a.issued = at /\ a.conditions.until = until
    BY <1>4 DEF Usual
  <1>13. Timely(p, c, at, until)
    <2>1. c.skew \in Nat /\ c.skew <= 1
      BY EidLimits DEF Eid!MaxSkew
    <2>2. until = at + 2
      BY DEF Eid!AnswerLifetime
    <2>3. clock < until + c.skew
      BY <1>7, <1>11, <1>12
    <2> HIDE DEF until
    <2>4. clock <= at + 3
      BY <1>1, <1>3, <2>1, <2>2, <2>3
    <2>5. at <= clock + c.skew
      BY <1>1, <2>1
    <2>6. QED
      BY <1>1, <1>3, <1>10, <1>11, <2>1, <2>2, <2>3, <2>4, <2>5 DEF Timely
  <1>14. InResponseToOk(r.irt, p, c)
    BY <1>10, <1>11 DEF InResponseToOk
  <1>15. until # Absent
    <2>1. until \in Int
      BY <1>3 DEF Eid!AnswerLifetime
    <2>2. QED
      BY <2>1, WebSsoAssumption
  <1>16. SignatureOk(a, p, c) /\ PersistentIdOk(a, p, c, << >>)
    BY <1>4, <1>11 DEF SignatureOk, PersistentIdOk
  <1>17. ~Replayed(q, 1, p, c, used)
    BY <1>4, <1>8, UnseenIsNew
  <1>18. Admissible(q, p, c)
    <2>1. DestinationOk(q, p, c) /\ IssuerFormatOk(q) /\ InResponseToOk(q.irt, p, c)
      BY <1>5, <1>6, <1>10, <1>14, AbsenceAssumption DEF DestinationOk, IssuerFormatOk, UrlsMatch
    <2>2. ResponseSignatureOk(q, p, c) /\ DsObjectOk(p, c)
      BY <1>5, <1>6, <1>10 DEF ResponseSignatureOk, DsObjectOk
    <2>3. QED
      BY <1>6, <1>10, <2>1, <2>2, Zenon DEF Admissible
  <1>19. Eid!Processable(q, e)
    <2>1. e = Absent => deployment.unsolicited /\ ~Eid!Dangling(q)
      <3> SUFFICES ASSUME e = Absent PROVE deployment.unsolicited /\ ~Eid!Dangling(q)
        OBVIOUS
      <3> DEFINE d == [recipient |-> Eid!Acs, until |-> until, irt |-> r.irt,
                       notBefore |-> Absent, address |-> Absent]
                 b == [method |-> "bearer", data |-> d]
                 cs == <<b>>
      <3>1. a.subject.confirmations = cs /\ a.subject # Absent /\ d.irt = Absent
        BY <1>4, <1>9 DEF Usual, Filled
      <3>2. b.data = d
        OBVIOUS
      <3> HIDE DEF d, b
      <3>3. DOMAIN cs = {1} /\ cs[1] = b
        OBVIOUS
      <3> HIDE DEF cs
      <3>4. Eid!ConfirmedIrt(a) = Absent
        <4>1. {i \in DOMAIN cs : cs[i].data # Absent} \in {{}, {1}}
          BY <3>3
        <4>2. (CHOOSE i \in {1} : \A j \in {1} : i <= j) = 1
          OBVIOUS
        <4>3. Eid!FirstAt(cs, {1}) = b
          BY <3>3, <4>2 DEF Eid!FirstAt
        <4>4. QED
          BY <3>1, <3>2, <4>1, <4>3 DEF Eid!ConfirmedIrt
      <3>5. QED
        BY <1>6, <1>8, <1>9, <3>4 DEF Eid!Dangling
    <2>2. r.sig.covers = "response"
      BY <1>5
    <2>3. QED
      BY <1>6, <1>8, <2>1, <2>2, Zenon DEF Eid!Processable
  <1>20. Eid!Conformant(a)
    <2> DEFINE cs == a.subject.confirmations
    <2>1. a.subject.nameId.encrypted = FALSE /\ a.subject.nameId # Absent
      BY <1>4 DEF Usual, Filled
    <2>2. DOMAIN cs = {1} /\ cs[1].method = "bearer"
      BY <1>4 DEF Usual
    <2>3. Len(a.loas) = 1
      BY <1>4
    <2>4. Eid!LoaAccepted(a.loas[1])
      BY <1>7
    <2>5. QED
      BY <1>4, <2>1, <2>2, <2>3, <2>4 DEF Eid!Conformant
  <1>21. Eid!Readable(r)
    BY <1>1, OwnIsReadable
  <1> HIDE DEF q, e, p, c, until
  <1>22. FailedConditions(a.conditions, p, c) = {} /\ AgeOk(a, p, c)
    BY <1>4, <1>10, <1>13, UsualConditions
  <1>23. FailedConfirmation(a, p, c) = {} /\ FailedStatements(a, p, c) = {}
    <2>1. Eid!Acs # Absent /\ UrlsMatch(Eid!Acs, p.acs)
      BY <1>10, AbsenceAssumption DEF UrlsMatch
    <2>2. QED
      BY <1>4, <1>13, <1>14, <1>15, <2>1, UsualConfirmation
  <1>24. Passes(a, 1, q, p, c, used, << >>)
    BY <1>10, <1>12, <1>16, <1>17, <1>22 DEF Passes
  <1>25. Failures(q, p, c, used, << >>) = {}
    BY <1>7, <1>18, <1>23, <1>24, NothingIsWrong
  <1>26. QED
    BY <1>6, <1>8, <1>19, <1>20, <1>21, <1>25, Zenon DEF EidVerdict, EidChecked, q, e, p, c

\* The answer to one delivery.
Reached(i) ==
  LET d == received[i]
      r == d.message.response
  IN d.message.origin = "own" /\ (\A j \in 1..(i - 1) : received[j].message # d.message) =>
       IF ~r.success THEN d.verdict = "declined"
       ELSE LET a == r.boxes[1].assertion
            IN /\ \/ r.irt = Eid!RequestId
                  \/ r.irt = Absent /\ deployment.unsolicited
               /\ Eid!LoaAccepted(a.loas[1]) /\ ~deployment.wantSigned
               /\ d.at < a.conditions.until + Eid!Lesser(deployment.skew, Eid!MaxSkew)
               => d.verdict = "accepted"

LEMMA DeliveredIsReached ==
  ASSUME EidTyped, EidOwnInv, EidFreshInv, Eid!AnswersReachTheSp, Eid!Deliver
  PROVE  Eid!AnswersReachTheSp'
  <1>1. PICK m \in posted :
          /\ received' = Append(received, [message |-> m, verdict |-> EidVerdict(m.response),
                                           at |-> clock])
          /\ UNCHANGED <<deployment, clock, asked, posted, signed>>
    BY EidDelivers
  <1> DEFINE d == [message |-> m, verdict |-> EidVerdict(m.response), at |-> clock]
             r == m.response
  <1>2. d.message = m /\ d.verdict = EidVerdict(r) /\ d.at = clock
    OBVIOUS
  <1>3. PICK S : received \in Seq(S)
    BY DEF EidTyped
  <1> PICK n : n = Len(received)
    OBVIOUS
  <1>4. /\ n \in Nat /\ DOMAIN received = 1..n /\ DOMAIN received' = 1..(n + 1)
        /\ \A i \in 1..n : received'[i] = received[i]
        /\ received'[n + 1] = d
    BY <1>1, <1>3
  <1>5. deployment' = deployment /\ \A loa : Eid!LoaAccepted(loa)' <=> Eid!LoaAccepted(loa)
    BY <1>1 DEF Eid!LoaAccepted
  <1> HIDE DEF d, r
  <1>6. ASSUME NEW i \in 1..n PROVE Reached(i)'
    <2>1. Reached(i)
      BY <1>4 DEF Eid!AnswersReachTheSp, Reached
    <2>2. /\ received'[i] = received[i]
          /\ \A j \in 1..(i - 1) : received'[j] = received[j]
      <3>1. \A j \in 1..(i - 1) : j \in 1..n
        BY <1>4
      <3>2. QED
        BY <1>4, <3>1
    <2>3. QED
      BY <1>5, <2>1, <2>2, Zenon DEF Reached
  <1>7. ASSUME NEW i, i = n + 1 PROVE Reached(i)'
    <2>1. received'[i] = d /\ d.message = m /\ m.response = r
      BY <1>2, <1>4, <1>7 DEF r
    <2> SUFFICES ASSUME m.origin = "own", \A j \in 1..(i - 1) : received'[j].message # m
                 PROVE  IF ~r.success THEN d.verdict = "declined"
                        ELSE LET a == r.boxes[1].assertion
                             IN /\ \/ r.irt = Eid!RequestId
                                   \/ r.irt = Absent /\ deployment.unsolicited
                                /\ Eid!LoaAccepted(a.loas[1]) /\ ~deployment.wantSigned
                                /\ d.at < a.conditions.until + Eid!Lesser(deployment.skew, Eid!MaxSkew)
                                => d.verdict = "accepted"
      BY <1>5, <2>1, Zenon DEF Reached
    <2>2. EidOwn(r, clock)
      BY DEF EidOwnInv, r
    <2>3. \A k \in DOMAIN received : received[k].message # m
      BY <1>4, <1>7
    <2>4. r.id \notin DOMAIN used
      BY <2>3 DEF EidFreshInv, r
    <2>5. CASE ~r.success
      <3>1. clock \in Nat
        BY DEF EidTyped
      <3>2. Eid!Readable(r)
        BY <2>2, <3>1, OwnIsReadable
      <3>3. Eid!Decrypted(r).success = r.success
        BY <2>2 DEF EidOwn, Owned, Eid!Decrypted, IsEnvelope
      <3>4. EidVerdict(r) = "declined"
        BY <2>5, <3>2, <3>3, Zenon DEF EidVerdict
      <3>5. QED
        BY <1>2, <2>5, <3>4, Zenon
    <2>6. CASE r.success
      <3> DEFINE a == r.boxes[1].assertion
      <3> SUFFICES ASSUME \/ r.irt = Eid!RequestId
                          \/ r.irt = Absent /\ deployment.unsolicited,
                          Eid!LoaAccepted(a.loas[1]), ~deployment.wantSigned,
                          d.at < a.conditions.until + Eid!Lesser(deployment.skew, Eid!MaxSkew)
                   PROVE  d.verdict = "accepted"
        BY <2>6, Zenon
      <3>1. r.irt = Absent => deployment.unsolicited
        BY AbsenceAssumption DEF Eid!RequestId, RequestId
      <3>2. clock < a.conditions.until + Eid!Lesser(deployment.skew, Eid!MaxSkew)
        BY <1>2, Zenon
      <3>3. EidVerdict(r) = "accepted"
        BY <2>2, <2>4, <2>6, <3>1, <3>2, ReachedNow
      <3>4. QED
        BY <1>2, <3>3, Zenon
    <2>7. QED
      BY <2>5, <2>6, Zenon
  <1>8. \A i \in DOMAIN received' : Reached(i)'
    BY <1>4, <1>6, <1>7
  <1>9. QED
    BY <1>8, Zenon DEF Eid!AnswersReachTheSp, Reached

LEMMA ReachedStep ==
  ASSUME EidTyped, EidOwnInv, EidFreshInv, Eid!AnswersReachTheSp, [Eid!Next]_eidVars
  PROVE  Eid!AnswersReachTheSp'
  <1>1. CASE Eid!Deliver
    BY <1>1, DeliveredIsReached
  <1>2. CASE UNCHANGED <<deployment, received>>
    BY <1>2 DEF Eid!AnswersReachTheSp, Eid!LoaAccepted
  <1>3. QED
    BY <1>1, <1>2 DEF Eid!Next, Eid!BuildRequest, Eid!Respond, Eid!Decline,
       Eid!RespondOtherwise, Eid!Alter, Eid!Post, Eid!Tick, eidVars

\* What the Swedish profile keeps beside, from the start.
ReachInv == EidInv /\ EidOwnInv /\ EidFreshInv /\ Eid!AnswersReachTheSp

LEMMA ReachInitially == Eid!Init => ReachInv
  <1> SUFFICES ASSUME Eid!Init PROVE ReachInv
    OBVIOUS
  <1>1. EidInv
    BY EidInitially
  <1>2. posted = {} /\ DOMAIN used = {} /\ DOMAIN received = {}
    BY DEF Eid!Init
  <1>3. EidOwnInv /\ EidFreshInv /\ Eid!AnswersReachTheSp
    BY <1>2 DEF EidOwnInv, EidFreshInv, Eid!AnswersReachTheSp
  <1>4. QED
    BY <1>1, <1>3 DEF ReachInv

LEMMA ReachStepKeeps == ReachInv /\ [Eid!Next]_eidVars => ReachInv'
  <1> SUFFICES ASSUME ReachInv, [Eid!Next]_eidVars PROVE ReachInv'
    OBVIOUS
  <1>1. EidInv /\ EidTyped /\ PostedInv /\ EidOwnInv /\ EidFreshInv /\ Eid!AnswersReachTheSp
    BY DEF ReachInv, EidInv
  <1>2. EidInv'
    BY <1>1, EidStepKeeps
  <1>3. EidOwnInv' /\ EidFreshInv' /\ Eid!AnswersReachTheSp'
    BY <1>1, EidOwnStep, EidFreshStep, ReachedStep
  <1>4. QED
    BY <1>2, <1>3 DEF ReachInv

\* The two halves of the library understand each other, in the browser profile and
\* in the Swedish one: an answer as this library's IdP makes it, delivered once and
\* in time to an SP whose settings it satisfies, logs the user in or tells the SP
\* that the user was denied, whatever else circulates, is altered or comes again.
THEOREM AnswersAreUnderstoodThroughout == SignInSpec => []OwnAnswersAreUnderstood
  <1>1. SignInInit => WebInv /\ ReachInv
    BY WebInitially, ReachInitially DEF SignInInit
  <1>2. WebInv /\ [SignInNext]_signInVars => WebInv'
    <2>1. [SignInNext]_signInVars => [Next]_vars
      BY DEF SignInNext, WebStep, EidStep, ClientStep, FinderStep, signInVars
    <2>2. QED
      BY <2>1, WebStepKeeps
  <1>3. ReachInv /\ [SignInNext]_signInVars => ReachInv'
    <2>1. [SignInNext]_signInVars => [Eid!Next]_eidVars
      BY DEF SignInNext, WebStep, EidStep, ClientStep, FinderStep, signInVars
    <2>2. QED
      BY <2>1, ReachStepKeeps
  <1>4. WebInv /\ ReachInv => OwnAnswersAreUnderstood
    BY DEF WebInv, ReachInv, OwnAnswersAreUnderstood
  <1>5. QED
    BY <1>1, <1>2, <1>3, <1>4, PTL DEF SignInSpec
=============================================================================
