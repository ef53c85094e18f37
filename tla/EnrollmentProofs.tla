--------------------------- MODULE EnrollmentProofs ---------------------------
(***************************************************************************)
(* Proofs about Enrollment, for any number of tokens, hosts and uses.      *)
(***************************************************************************)
EXTENDS Enrollment, FiniteSetTheorems, TLAPS

Enrolls(h, t) == enrolling[h] # None /\ enrolling[h].token = t
Locks(h, t) == Enrolls(h, t) /\ enrolling[h].pc = "locked"
Answers(h, t) == Enrolls(h, t) /\ enrolling[h].pc = "answering"

\* The hosts that hold a credential of the token or are being answered with one.  A host
\* whose answer is lost is no more among them; the use it was charged stays spent.
Paid(t) == Holders(t) \cup {h \in Host : Answers(h, t)}

\* The transaction that holds the row of a token is alone, and what it checked is
\* still so.
LockIsHeld ==
  \A h \in Host, t \in Token : Locks(h, t) =>
    /\ token[t] # None /\ ~token[t].revoked
    /\ token[t].used < token[t].maxUses
    /\ \A g \in Host : Locks(g, t) => g = h

\* What is answered is the id of a row.
AnswerHasId ==
  \A h \in Host : enrolling[h] # None /\ enrolling[h].pc = "answering"
                  => enrolling[h].id \in Identity

\* There are no more of them than uses counted, nor of these than uses given.
UsesAreCounted ==
  \A t \in Token :
    /\ IsFiniteSet(Paid(t))
    /\ token[t] = None => Paid(t) = {}
    /\ token[t] # None => /\ Cardinality(Paid(t)) <= token[t].used
                          /\ token[t].used <= token[t].maxUses

EnrollmentInv == EnrollmentTypeOK /\ AnswerHasId /\ LockIsHeld /\ UsesAreCounted

-----------------------------------------------------------------------------
(* Helpers. *)

LEMMA EnrollmentInitInv == EnrollmentInit => EnrollmentInv
<1> SUFFICES ASSUME EnrollmentInit PROVE EnrollmentInv
  OBVIOUS
<1>1. EnrollmentTypeOK /\ AnswerHasId /\ LockIsHeld
  BY DEF EnrollmentInit, EnrollmentTypeOK, AnswerHasId, LockIsHeld, Locks, Enrolls
<1>2. ASSUME NEW t \in Token PROVE Paid(t) = {} /\ token[t] = None
  BY <1>2 DEF EnrollmentInit, Paid, Holders, Answers, Enrolls
<1>3. UsesAreCounted
  BY <1>2, FS_EmptySet DEF UsesAreCounted
<1> QED BY <1>1, <1>3 DEF EnrollmentInv

\* A step that pays for nobody and keeps the numbers of every token.
LEMMA NobodyPaid ==
  ASSUME EnrollmentInv,
         \A t \in Token :
           /\ Paid(t)' \subseteq Paid(t)
           /\ token'[t] = None <=> token[t] = None
           /\ token[t] # None => /\ token'[t].used = token[t].used
                                 /\ token'[t].maxUses = token[t].maxUses
  PROVE  UsesAreCounted'
<1> SUFFICES ASSUME NEW t \in Token
             PROVE  /\ IsFiniteSet(Paid(t)')
                    /\ token'[t] = None => Paid(t)' = {}
                    /\ token'[t] # None => /\ Cardinality(Paid(t)') <= token'[t].used
                                           /\ token'[t].used <= token'[t].maxUses
  BY DEF UsesAreCounted
<1>1. IsFiniteSet(Paid(t)) /\ Paid(t)' \in SUBSET Paid(t)
  BY DEF EnrollmentInv, UsesAreCounted
<1>2. IsFiniteSet(Paid(t)') /\ Cardinality(Paid(t)') <= Cardinality(Paid(t))
  BY <1>1, FS_Subset
<1>3. Cardinality(Paid(t)) \in Nat /\ Cardinality(Paid(t)') \in Nat
  BY <1>1, <1>2, FS_CardinalityType
<1>4. token[t] # None => token[t].used \in Nat
  BY DEF EnrollmentInv, EnrollmentTypeOK, TokenRow
<1> QED
  BY <1>1, <1>2, <1>3, <1>4 DEF EnrollmentInv, UsesAreCounted

\* Only what the hosts are doing decides who is paid for.
LEMMA SamePaid ==
  ASSUME UNCHANGED <<enrolling, identity>>, NEW t \in Token
  PROVE  Paid(t)' = Paid(t)
BY DEF Paid, Holders, Answers, Enrolls

-----------------------------------------------------------------------------
(* Steps on a token. *)

LEMMA CreateTokenInv ==
  ASSUME EnrollmentInv, NEW t \in Token, NEW kind \in Kind, CreateToken(t, kind)
  PROVE  EnrollmentInv'
<1> PICK site \in Site, uses \in Uses(kind) :
      token' = [token EXCEPT ![t] =
        [kind |-> kind, site |-> site, maxUses |-> uses, used |-> 0,
         revoked |-> FALSE, expired |-> FALSE]]
  BY DEF CreateToken
<1>1. uses \in Nat \ {0}
  BY UsesAssumption DEF Uses, Kind
<1>2. /\ token[t] = None
      /\ token' \in [Token -> TokenRow \cup {None}]
      /\ token'[t] \in TokenRow /\ token'[t].used = 0 /\ token'[t].maxUses > 0
      /\ \A u \in Token : u # t => token'[u] = token[u]
      /\ UNCHANGED <<member, spent, enrolling, identity>>
  BY <1>1 DEF CreateToken, EnrollmentInv, EnrollmentTypeOK, TokenRow
<1>3. EnrollmentTypeOK' /\ AnswerHasId'
  BY <1>2 DEF EnrollmentInv, EnrollmentTypeOK, AnswerHasId
<1>4. LockIsHeld'
  BY <1>2 DEF EnrollmentInv, LockIsHeld, Locks, Enrolls
<1>5. token'[t] # None
  BY <1>2, EnrollmentNoneAssumption
<1>6. Paid(t) = {} /\ \A u \in Token : Paid(u)' = Paid(u)
  BY <1>2, SamePaid DEF EnrollmentInv, UsesAreCounted
<1>7. IsFiniteSet({}) /\ Cardinality({}) = 0
  BY FS_EmptySet
<1>8. /\ IsFiniteSet(Paid(t)') /\ Cardinality(Paid(t)') = 0
      /\ \A u \in Token : IsFiniteSet(Paid(u)') = IsFiniteSet(Paid(u))
                          /\ Cardinality(Paid(u)') = Cardinality(Paid(u))
  BY <1>6, <1>7
<1>9. UsesAreCounted'
  BY <1>2, <1>5, <1>6, <1>8 DEF EnrollmentInv, UsesAreCounted, TokenRow
<1> QED BY <1>3, <1>4, <1>9 DEF EnrollmentInv

LEMMA RevokeTokenInv ==
  ASSUME EnrollmentInv, NEW t \in Token, NEW kind \in Kind, RevokeToken(t, kind)
  PROVE  EnrollmentInv'
<1>0. /\ token[t] \in TokenRow
      /\ token' = [token EXCEPT ![t] = [token[t] EXCEPT !.revoked = TRUE]]
      /\ UNCHANGED <<member, spent, enrolling, identity>>
  BY DEF RevokeToken, EnrollmentInv, EnrollmentTypeOK
<1>1. /\ token' \in [Token -> TokenRow \cup {None}]
      /\ \A u \in Token :
           /\ token'[u] = None <=> token[u] = None
           /\ token[u] # None => /\ token'[u].used = token[u].used
                                 /\ token'[u].maxUses = token[u].maxUses
           /\ u # t => token'[u] = token[u]
      /\ UNCHANGED <<member, spent, enrolling, identity>>
  BY <1>0, EnrollmentNoneAssumption DEF EnrollmentInv, EnrollmentTypeOK, TokenRow
<1>2. EnrollmentTypeOK' /\ AnswerHasId'
  BY <1>1 DEF EnrollmentInv, EnrollmentTypeOK, AnswerHasId
<1>3. \A h \in Host : ~Locks(h, t)
  BY DEF RevokeToken, Locked, Locks, Enrolls
<1>4. LockIsHeld'
  BY <1>1, <1>3 DEF EnrollmentInv, LockIsHeld, Locks, Enrolls
<1>5. UsesAreCounted'
  BY <1>1, SamePaid, NobodyPaid
<1> QED BY <1>2, <1>4, <1>5 DEF EnrollmentInv

LEMMA ExpireInv ==
  ASSUME EnrollmentInv, NEW t \in Token, Expire(t)
  PROVE  EnrollmentInv'
<1>1. /\ token' \in [Token -> TokenRow \cup {None}]
      /\ \A u \in Token :
           /\ token'[u] = None <=> token[u] = None
           /\ token[u] # None => /\ token'[u].used = token[u].used
                                 /\ token'[u].maxUses = token[u].maxUses
                                 /\ token'[u].revoked = token[u].revoked
      /\ UNCHANGED <<member, spent, enrolling, identity>>
  BY EnrollmentNoneAssumption
  DEF Expire, EnrollmentInv, EnrollmentTypeOK, TokenRow
<1>2. EnrollmentTypeOK' /\ AnswerHasId'
  BY <1>1 DEF EnrollmentInv, EnrollmentTypeOK, AnswerHasId
<1>3. LockIsHeld'
  BY <1>1 DEF EnrollmentInv, LockIsHeld, Locks, Enrolls
<1>4. UsesAreCounted'
  BY <1>1, SamePaid, NobodyPaid
<1> QED BY <1>2, <1>3, <1>4 DEF EnrollmentInv

-----------------------------------------------------------------------------
(* Steps of a host. *)

LEMMA LockTokenInv ==
  ASSUME EnrollmentInv, NEW h \in Host, NEW t \in Token, NEW kind \in Kind,
         NEW name \in Name, LockToken(h, t, kind, name)
  PROVE  EnrollmentInv'
<1> DEFINE e == [pc |-> "locked", token |-> t, name |-> name, id |-> None]
<1>1. /\ enrolling[h] = None /\ enrolling' = [enrolling EXCEPT ![h] = e]
      /\ token[t] # None /\ IsValid(t) /\ ~Locked(t)
      /\ UNCHANGED <<token, member, spent, identity>>
  BY DEF LockToken, LockToken_Unlocked
<1>2. e \in Enrolling
  BY DEF Enrolling
<1>3. /\ enrolling'[h] = e /\ e # None
      /\ \A g \in Host : g # h => enrolling'[g] = enrolling[g]
  BY <1>1, <1>2, EnrollmentNoneAssumption DEF EnrollmentInv, EnrollmentTypeOK
<1>4. EnrollmentTypeOK'
  BY <1>1, <1>2 DEF EnrollmentInv, EnrollmentTypeOK
<1>5. AnswerHasId'
  BY <1>3 DEF EnrollmentInv, AnswerHasId
<1>6. \A g \in Host, u \in Token : Locks(g, u)' <=> Locks(g, u) \/ (g = h /\ u = t)
  BY <1>1, <1>3 DEF Locks, Enrolls
<1>7. \A g \in Host : ~Locks(g, t)
  BY <1>1 DEF Locked, Locks, Enrolls
<1>8. LockIsHeld'
  BY <1>1, <1>6, <1>7 DEF EnrollmentInv, LockIsHeld, IsValid
<1>9. \A u \in Token : Paid(u)' \subseteq Paid(u)
  BY <1>1, <1>3 DEF Paid, Holders, Answers, Enrolls
<1>10. UsesAreCounted'
  BY <1>1, <1>9, NobodyPaid
<1> QED BY <1>4, <1>5, <1>8, <1>10 DEF EnrollmentInv

\* The enrollment in the row lock of a host, and what its commit does to the token.
LEMMA AdmitEffect ==
  ASSUME EnrollmentInv, NEW h \in Host, Admit(h)
  PROVE  \E t \in Token, i \in Identity :
           /\ Locks(h, t)
           /\ token[t] \in TokenRow /\ ~token[t].revoked
           /\ token[t].used < token[t].maxUses
           /\ token' = [token EXCEPT ![t].used = @ + 1]
           /\ spent' = spent \cup {i}
           /\ member' = [member EXCEPT ![i] =
                [kind |-> token[t].kind, site |-> token[t].site,
                 name |-> enrolling[h].name, fingerprint |-> h, active |-> TRUE]]
           /\ enrolling' = [enrolling EXCEPT ![h].pc = "answering", ![h].id = i]
           /\ UNCHANGED identity
<1>1. /\ enrolling[h] \in Enrolling /\ enrolling[h] # None
      /\ enrolling[h].pc = "locked"
  BY DEF Admit, EnrollmentInv, EnrollmentTypeOK
<1> DEFINE t == enrolling[h].token
<1>2. t \in Token
  BY <1>1 DEF Enrolling
<1>3. Locks(h, t)
  BY <1>1 DEF Locks, Enrolls
<1>4. token[t] # None /\ ~token[t].revoked /\ token[t].used < token[t].maxUses
  BY <1>2, <1>3 DEF EnrollmentInv, LockIsHeld
<1>5. token[t] \in TokenRow
  BY <1>2, <1>4 DEF EnrollmentInv, EnrollmentTypeOK
<1>6. Row(token[t].kind, token[t].site, enrolling[h].name) \subseteq Identity
  BY DEF Row
<1>7. \E i \in Identity :
        /\ spent' = spent \cup {i}
        /\ member' = [member EXCEPT ![i] =
             [kind |-> token[t].kind, site |-> token[t].site,
              name |-> enrolling[h].name, fingerprint |-> h, active |-> TRUE]]
        /\ enrolling' = [enrolling EXCEPT ![h].pc = "answering", ![h].id = i]
  BY <1>6 DEF Admit
<1> QED
  BY <1>2, <1>3, <1>4, <1>5, <1>7 DEF Admit

LEMMA AdmitInv ==
  ASSUME EnrollmentInv, NEW h \in Host, Admit(h)
  PROVE  EnrollmentInv'
<1> PICK t \in Token, i \in Identity :
      /\ Locks(h, t)
      /\ token[t] \in TokenRow /\ ~token[t].revoked
      /\ token[t].used < token[t].maxUses
      /\ token' = [token EXCEPT ![t].used = @ + 1]
      /\ spent' = spent \cup {i}
      /\ member' = [member EXCEPT ![i] =
           [kind |-> token[t].kind, site |-> token[t].site,
            name |-> enrolling[h].name, fingerprint |-> h, active |-> TRUE]]
      /\ enrolling' = [enrolling EXCEPT ![h].pc = "answering", ![h].id = i]
      /\ UNCHANGED identity
  BY AdmitEffect
<1>1. /\ enrolling[h] \in Enrolling /\ enrolling[h].token = t
      /\ enrolling[h].pc = "locked"
  BY DEF Locks, Enrolls, EnrollmentInv, EnrollmentTypeOK
<1>2. /\ enrolling' \in [Host -> Enrolling \cup {None}]
      /\ enrolling'[h] \in Enrolling /\ enrolling'[h].pc = "answering"
      /\ enrolling'[h].id = i /\ enrolling'[h].token = t
      /\ \A g \in Host : g # h => enrolling'[g] = enrolling[g]
  BY <1>1 DEF EnrollmentInv, EnrollmentTypeOK, Enrolling
<1>3. /\ token' \in [Token -> TokenRow \cup {None}]
      /\ token'[t] \in TokenRow /\ token'[t].used = token[t].used + 1
      /\ token'[t].maxUses = token[t].maxUses
      /\ \A u \in Token : u # t => token'[u] = token[u]
  BY DEF EnrollmentInv, EnrollmentTypeOK, TokenRow
<1>4. [kind |-> token[t].kind, site |-> token[t].site,
       name |-> enrolling[h].name, fingerprint |-> h, active |-> TRUE] \in Member
  BY <1>1 DEF TokenRow, Enrolling, Member
<1>5. member' \in [Identity -> Member \cup {None}] /\ spent' \in SUBSET Identity
  BY <1>4 DEF EnrollmentInv, EnrollmentTypeOK
<1>6. EnrollmentTypeOK'
  BY <1>2, <1>3, <1>5 DEF EnrollmentInv, EnrollmentTypeOK
<1>7. AnswerHasId'
  BY <1>2 DEF EnrollmentInv, AnswerHasId
<1>8. ASSUME NEW g \in Host, NEW u \in Token, Locks(g, u)'
      PROVE  Locks(g, u) /\ u # t
  <2>1. g # h
    BY <1>2, <1>8 DEF Locks, Enrolls
  <2>2. Locks(g, u)
    BY <1>2, <1>8, <2>1 DEF Locks, Enrolls
  <2> QED BY <2>1, <2>2 DEF EnrollmentInv, LockIsHeld
<1>9. LockIsHeld'
  BY <1>3, <1>8 DEF EnrollmentInv, LockIsHeld
<1>10. Paid(t)' \subseteq Paid(t) \cup {h}
  BY <1>2 DEF Paid, Holders, Answers, Enrolls
<1>11. \A u \in Token : u # t => Paid(u)' \subseteq Paid(u)
  BY <1>2 DEF Paid, Holders, Answers, Enrolls
<1>12. UsesAreCounted'
  <2> SUFFICES ASSUME NEW u \in Token
               PROVE  /\ IsFiniteSet(Paid(u)')
                      /\ token'[u] = None => Paid(u)' = {}
                      /\ token'[u] # None => /\ Cardinality(Paid(u)') <= token'[u].used
                                             /\ token'[u].used <= token'[u].maxUses
    BY DEF UsesAreCounted
  <2>1. /\ IsFiniteSet(Paid(u)) /\ Cardinality(Paid(u)) \in Nat
        /\ token[u] = None => Paid(u) = {}
        /\ token[u] # None => /\ Cardinality(Paid(u)) <= token[u].used
                              /\ token[u].used <= token[u].maxUses
    BY FS_CardinalityType DEF EnrollmentInv, UsesAreCounted
  <2>2. CASE u = t
    <3> DEFINE some == Paid(t)  more == some \cup {h}
    <3>0. /\ IsFiniteSet(some) /\ Cardinality(some) \in Nat
      BY <2>1, <2>2
    <3>1. /\ IsFiniteSet(more) /\ Cardinality(more) \in Nat
          /\ Cardinality(more) <= Cardinality(some) + 1
      <4> HIDE DEF some
      <4>1. /\ IsFiniteSet(more)
            /\ Cardinality(more) = IF h \in some THEN Cardinality(some)
                                   ELSE Cardinality(some) + 1
        BY <3>0, FS_AddElement
      <4> HIDE DEF more
      <4> QED BY <3>0, <4>1
    <3>2. /\ IsFiniteSet(Paid(t)') /\ Cardinality(Paid(t)') \in Nat
          /\ Cardinality(Paid(t)') <= Cardinality(Paid(t)) + 1
      BY <1>10, <2>1, <2>2, <3>1, FS_Subset, FS_CardinalityType
    <3>3. token[t] # None /\ token'[t] # None
      BY <1>3, EnrollmentNoneAssumption
    <3> QED BY <1>3, <2>1, <2>2, <3>2, <3>3 DEF TokenRow
  <2>3. CASE u # t
    <3>1. token'[u] = token[u] /\ Paid(u)' \in SUBSET Paid(u)
      BY <1>3, <1>11, <2>3
    <3>2. /\ IsFiniteSet(Paid(u)') /\ Cardinality(Paid(u)') \in Nat
          /\ Cardinality(Paid(u)') <= Cardinality(Paid(u))
      BY <2>1, <3>1, FS_Subset, FS_CardinalityType
    <3>3. token[u] # None => token[u].used \in Nat
      BY DEF EnrollmentInv, EnrollmentTypeOK, TokenRow
    <3>4. token[u] = None => Paid(u)' = {}
      BY <2>1, <3>1
    <3>5. token[u] # None => /\ Cardinality(Paid(u)') <= token[u].used
                             /\ token[u].used <= token[u].maxUses
      BY <2>1, <3>2, <3>3
    <3> QED BY <3>1, <3>2, <3>4, <3>5
  <2> QED BY <2>2, <2>3
<1> QED BY <1>6, <1>7, <1>9, <1>12 DEF EnrollmentInv

\* The transaction, or the answer, is over: saved is what the host holds after.
LEMMA SettledInv ==
  ASSUME EnrollmentInv, NEW h \in Host,
         enrolling' = [enrolling EXCEPT ![h] = None],
         UNCHANGED <<token, member, spent>>,
         identity' \in [Host -> Saved \cup {None}],
         \A t \in Token : Paid(t)' \subseteq Paid(t)
  PROVE  EnrollmentInv'
<1>1. /\ enrolling'[h] = None
      /\ \A g \in Host : g # h => enrolling'[g] = enrolling[g]
  BY DEF EnrollmentInv, EnrollmentTypeOK
<1>2. EnrollmentTypeOK'
  BY DEF EnrollmentInv, EnrollmentTypeOK
<1>3. AnswerHasId'
  BY <1>1 DEF EnrollmentInv, AnswerHasId
<1>4. LockIsHeld'
  BY <1>1 DEF EnrollmentInv, LockIsHeld, Locks, Enrolls
<1>5. UsesAreCounted'
  BY NobodyPaid
<1> QED BY <1>2, <1>3, <1>4, <1>5 DEF EnrollmentInv

LEMMA AbandonEnrollmentInv ==
  ASSUME EnrollmentInv, NEW h \in Host, AbandonEnrollment(h) \/ LoseIdentity(h)
  PROVE  EnrollmentInv'
<1>1. /\ enrolling' = [enrolling EXCEPT ![h] = None]
      /\ UNCHANGED <<token, member, spent, identity>>
  BY DEF AbandonEnrollment, LoseIdentity
<1>2. \A t \in Token : Paid(t)' \subseteq Paid(t)
  BY <1>1 DEF Paid, Holders, Answers, Enrolls, EnrollmentInv, EnrollmentTypeOK
<1>3. identity' \in [Host -> Saved \cup {None}]
  BY <1>1 DEF EnrollmentInv, EnrollmentTypeOK
<1> QED BY <1>1, <1>2, <1>3, SettledInv

LEMMA SaveIdentityInv ==
  ASSUME EnrollmentInv, NEW h \in Host, SaveIdentity(h)
  PROVE  EnrollmentInv'
<1> DEFINE e == enrolling[h]
           saved == [id |-> e.id, name |-> e.name, via |-> e.token]
<1>1. /\ e # None /\ e.pc = "answering"
      /\ identity' = [identity EXCEPT ![h] = saved]
      /\ enrolling' = [enrolling EXCEPT ![h] = None]
      /\ UNCHANGED <<token, member, spent>>
  BY DEF SaveIdentity
<1>2. e \in Enrolling /\ e.id \in Identity
  BY <1>1 DEF EnrollmentInv, EnrollmentTypeOK, AnswerHasId
<1>3. saved \in Saved
  BY <1>2 DEF Saved, Enrolling
<1>4. identity' \in [Host -> Saved \cup {None}]
  BY <1>1, <1>3 DEF EnrollmentInv, EnrollmentTypeOK
<1>5. ASSUME NEW t \in Token, NEW g \in Paid(t)'
      PROVE  g \in Paid(t)
  <2>1. CASE g = h
    <3>1. enrolling'[h] = None /\ identity'[h] = saved
      BY <1>1 DEF EnrollmentInv, EnrollmentTypeOK
    <3>2. Answers(h, t)
      BY <1>1, <1>5, <2>1, <3>1 DEF Paid, Holders, Answers, Enrolls
    <3> QED BY <2>1, <3>2 DEF Paid
  <2>2. CASE g # h
    <3>1. g \in Host
      BY <1>5 DEF Paid, Holders
    <3>2. enrolling'[g] = enrolling[g] /\ identity'[g] = identity[g]
      BY <1>1, <2>2, <3>1 DEF EnrollmentInv, EnrollmentTypeOK
    <3> QED BY <1>5, <3>1, <3>2 DEF Paid, Holders, Answers, Enrolls
  <2> QED BY <2>1, <2>2
<1> QED BY <1>1, <1>4, <1>5, SettledInv

-----------------------------------------------------------------------------
(* Steps on a row. *)

\* Which rows there are, and what they say, is nobody's use of a token.
LEMMA MemberInv ==
  ASSUME EnrollmentInv, member' \in [Identity -> Member \cup {None}],
         UNCHANGED <<token, spent, enrolling, identity>>
  PROVE  EnrollmentInv'
BY SamePaid, NobodyPaid
DEF EnrollmentInv, EnrollmentTypeOK, AnswerHasId, LockIsHeld, Locks, Enrolls

LEMMA MemberStepInv ==
  ASSUME EnrollmentInv, NEW i \in Identity, MemberStep(i)
  PROVE  EnrollmentInv'
<1> USE DEF EnrollmentInv, EnrollmentTypeOK, Member
<1>1. CASE UpdateAgent(i)
  BY <1>1, MemberInv DEF UpdateAgent
<1>2. CASE DeleteAgent(i) \/ DeleteCollectorRow(i)
  BY <1>2, MemberInv DEF DeleteAgent, DeleteCollectorRow, DeleteMember
<1>3. CASE PatchCollectorRow(i)
  BY <1>3, MemberInv DEF PatchCollectorRow
<1> QED BY <1>1, <1>2, <1>3 DEF MemberStep

LEMMA CollectorHelloInv ==
  ASSUME EnrollmentInv, NEW h \in Host, CollectorHello(h)
  PROVE  EnrollmentInv'
<1>1. identity[h] \in Saved
  BY DEF CollectorHello, EnrollmentInv, EnrollmentTypeOK
<1>2. member' \in [Identity -> Member \cup {None}]
  BY <1>1 DEF CollectorHello, EnrollmentInv, EnrollmentTypeOK, Saved, Member
<1> QED BY <1>2, MemberInv DEF CollectorHello

-----------------------------------------------------------------------------
(* Theorems. *)

LEMMA EnrollmentStepInv ==
  EnrollmentInv /\ [EnrollmentNext]_enrollmentVars => EnrollmentInv'
<1> SUFFICES ASSUME EnrollmentInv, [EnrollmentNext]_enrollmentVars
             PROVE  EnrollmentInv'
  OBVIOUS
<1>1. ASSUME NEW t \in Token, TokenStep(t)
      PROVE  EnrollmentInv'
  BY <1>1, CreateTokenInv, RevokeTokenInv, ExpireInv
  DEF TokenStep, CreateEnrollmentToken, CreateCollectorEnrollmentToken,
      RevokeEnrollmentToken, RevokeCollectorEnrollmentToken, Kind
<1>2. ASSUME NEW h \in Host, HostStep(h)
      PROVE  EnrollmentInv'
  BY <1>2, LockTokenInv, AdmitInv, AbandonEnrollmentInv, SaveIdentityInv,
     CollectorHelloInv
  DEF HostStep, AgentEnroll, CollectorEnroll, Kind
<1>3. CASE UNCHANGED enrollmentVars
  BY <1>3, MemberInv DEF enrollmentVars, EnrollmentInv, EnrollmentTypeOK
<1> QED BY <1>1, <1>2, <1>3, MemberStepInv DEF EnrollmentNext
LEMMA EnrollmentInvBudget == EnrollmentInv => CredentialsWithinBudget
<1> SUFFICES ASSUME EnrollmentInv, NEW t \in Token
             PROVE  Cardinality(Holders(t)) <= IF token[t] = None THEN 0
                                               ELSE token[t].maxUses
  BY DEF CredentialsWithinBudget
<1>1. IsFiniteSet(Paid(t)) /\ Holders(t) \in SUBSET Paid(t)
  BY DEF EnrollmentInv, UsesAreCounted, Paid
<1>2. /\ IsFiniteSet(Holders(t)) /\ Cardinality(Holders(t)) \in Nat
      /\ Cardinality(Paid(t)) \in Nat
      /\ Cardinality(Holders(t)) <= Cardinality(Paid(t))
  BY <1>1, FS_Subset, FS_CardinalityType
<1>3. CASE token[t] = None
  <2>1. Holders(t) = {}
    BY <1>1, <1>3 DEF EnrollmentInv, UsesAreCounted
  <2> QED BY <1>3, <2>1, FS_EmptySet
<1>4. CASE token[t] # None
  <2>1. token[t].used \in Nat /\ token[t].maxUses \in Nat
    BY <1>4 DEF EnrollmentInv, EnrollmentTypeOK, TokenRow
  <2> QED BY <1>2, <1>4, <2>1 DEF EnrollmentInv, UsesAreCounted
<1> QED BY <1>3, <1>4

\* A step of the handlers is a step of the abstract token, or none.
LEMMA CreateTokenIssues ==
  ASSUME EnrollmentInv, NEW t \in Token, NEW kind \in Kind, CreateToken(t, kind)
  PROVE  B!Issue(t)
<1> PICK site \in Site, uses \in Uses(kind) :
      token' = [token EXCEPT ![t] =
        [kind |-> kind, site |-> site, maxUses |-> uses, used |-> 0,
         revoked |-> FALSE, expired |-> FALSE]]
  BY DEF CreateToken
<1>1. uses \in Nat \ {0}
  BY UsesAssumption DEF Uses, Kind
<1>2. /\ token[t] = None
      /\ token'[t] = [kind |-> kind, site |-> site, maxUses |-> uses, used |-> 0,
                      revoked |-> FALSE, expired |-> FALSE]
      /\ token'[t] \in TokenRow
      /\ \A u \in Token : u # t => token'[u] = token[u]
  BY <1>1 DEF CreateToken, EnrollmentInv, EnrollmentTypeOK, TokenRow
<1>3. token'[t] # None
  BY <1>2, EnrollmentNoneAssumption
<1>4. Left(t)' \in Nat \ {0} /\ \A u \in Token : u # t => Left(u)' = Left(u)
  BY <1>1, <1>2, <1>3 DEF Left
<1>5. t \notin Issued /\ Issued' = Issued \cup {t} /\ UNCHANGED Revoked
  BY <1>2, <1>3 DEF Issued, Revoked
<1> DEFINE left == [u \in Token |-> Left(u)]
<1>6. left'[t] \in Nat \ {0} /\ left' = [left EXCEPT ![t] = left'[t]]
  BY <1>4
<1> QED BY <1>5, <1>6 DEF B!Issue

LEMMA RevokeTokenShuts ==
  ASSUME EnrollmentInv, NEW t \in Token, NEW kind \in Kind, RevokeToken(t, kind)
  PROVE  B!Shut(t)
<1>1. /\ token[t] \in TokenRow /\ token[t] # None
      /\ token' = [token EXCEPT ![t] = [token[t] EXCEPT !.revoked = TRUE]]
  BY DEF RevokeToken, EnrollmentInv, EnrollmentTypeOK
<1>2. /\ token'[t] \in TokenRow /\ token'[t].revoked
      /\ \A u \in Token :
           /\ token'[u] = None <=> token[u] = None
           /\ token[u] # None => /\ token'[u].used = token[u].used
                                 /\ token'[u].maxUses = token[u].maxUses
           /\ u # t => token'[u] = token[u]
  BY <1>1, EnrollmentNoneAssumption DEF EnrollmentInv, EnrollmentTypeOK, TokenRow
<1>3. \A u \in Token : Left(u)' = Left(u)
  BY <1>2 DEF Left
<1>4. t \in Issued /\ Revoked' = Revoked \cup {t} /\ UNCHANGED Issued
  BY <1>1, <1>2 DEF Issued, Revoked
<1> QED BY <1>3, <1>4 DEF B!Shut

LEMMA AdmitAdmits ==
  ASSUME EnrollmentInv, NEW h \in Host, Admit(h)
  PROVE  \E t \in Token : B!Admit(t)
<1> PICK t \in Token :
      /\ token[t] \in TokenRow /\ ~token[t].revoked
      /\ token[t].used < token[t].maxUses
      /\ token' = [token EXCEPT ![t].used = @ + 1]
  BY AdmitEffect
<1>1. /\ token'[t] \in TokenRow /\ token'[t].used = token[t].used + 1
      /\ token'[t].maxUses = token[t].maxUses
      /\ token'[t].revoked = token[t].revoked
      /\ \A u \in Token : u # t => token'[u] = token[u]
  BY DEF EnrollmentInv, EnrollmentTypeOK, TokenRow
<1>2. token[t] # None /\ token'[t] # None
  BY <1>1, EnrollmentNoneAssumption
<1>3. /\ Left(t) > 0 /\ Left(t)' = Left(t) - 1
      /\ \A u \in Token : u # t => Left(u)' = Left(u)
  BY <1>1, <1>2 DEF Left, TokenRow
<1>4. t \notin Revoked /\ UNCHANGED <<Issued, Revoked>>
  BY <1>1, <1>2 DEF Issued, Revoked
<1>5. B!Admit(t)
  BY <1>3, <1>4 DEF B!Admit
<1> QED BY <1>5

LEMMA ExpireStutters ==
  ASSUME EnrollmentInv, NEW t \in Token, Expire(t)
  PROVE  UNCHANGED B!budget
<1>1. \A u \in Token :
        /\ token'[u] = None <=> token[u] = None
        /\ token[u] # None => /\ token'[u].used = token[u].used
                              /\ token'[u].maxUses = token[u].maxUses
                              /\ token'[u].revoked = token[u].revoked
  BY EnrollmentNoneAssumption
  DEF Expire, EnrollmentInv, EnrollmentTypeOK, TokenRow
<1>2. \A u \in Token : Left(u)' = Left(u)
  BY <1>1 DEF Left
<1>3. UNCHANGED <<Issued, Revoked>>
  BY <1>1 DEF Issued, Revoked
<1> QED BY <1>2, <1>3 DEF B!budget
\* The steps that leave the tables of tokens alone.
LEMMA TokenKeptStutters ==
  ASSUME UNCHANGED token
  PROVE  UNCHANGED B!budget
<1>1. UNCHANGED <<Issued, Revoked>> /\ \A u \in Token : Left(u)' = Left(u)
  BY DEF Issued, Revoked, Left
<1> QED BY <1>1 DEF B!budget

LEMMA EnrollmentInitBudget == EnrollmentInit => B!BudgetInit
<1> SUFFICES ASSUME EnrollmentInit PROVE B!BudgetInit
  OBVIOUS
<1>1. Issued = {} /\ Revoked = {} /\ \A t \in Token : Left(t) = 0
  BY DEF EnrollmentInit, Issued, Revoked, Left
<1> QED BY <1>1 DEF B!BudgetInit

LEMMA EnrollmentStepBudget ==
  EnrollmentInv /\ [EnrollmentNext]_enrollmentVars => [B!BudgetNext]_(B!budget)
<1> SUFFICES ASSUME EnrollmentInv, [EnrollmentNext]_enrollmentVars
             PROVE  B!BudgetNext \/ UNCHANGED B!budget
  OBVIOUS
<1>1. ASSUME NEW t \in Token, TokenStep(t)
      PROVE  B!Issue(t) \/ B!Shut(t) \/ UNCHANGED B!budget
  BY <1>1, CreateTokenIssues, RevokeTokenShuts, ExpireStutters
  DEF TokenStep, CreateEnrollmentToken, CreateCollectorEnrollmentToken,
      RevokeEnrollmentToken, RevokeCollectorEnrollmentToken, Kind
<1>2. ASSUME NEW h \in Host, HostStep(h)
      PROVE  (\E t \in Token : B!Admit(t)) \/ UNCHANGED token
  BY <1>2, AdmitAdmits
  DEF HostStep, AgentEnroll, CollectorEnroll, LockToken, LockToken_Unlocked,
      AbandonEnrollment, SaveIdentity, LoseIdentity, CollectorHello
<1>3. ASSUME NEW i \in Identity, MemberStep(i)
      PROVE  UNCHANGED token
  BY <1>3
  DEF MemberStep, UpdateAgent, PatchCollectorRow, DeleteAgent, DeleteCollectorRow,
      DeleteMember
<1>4. CASE UNCHANGED enrollmentVars
  BY <1>4, TokenKeptStutters DEF enrollmentVars
<1>5. CASE \E t \in Token : TokenStep(t)
  BY <1>1, <1>5 DEF B!BudgetNext
<1>6. CASE \E h \in Host : HostStep(h)
  BY <1>2, <1>6, TokenKeptStutters DEF B!BudgetNext
<1>7. CASE \E i \in Identity : MemberStep(i)
  BY <1>3, <1>7, TokenKeptStutters
<1> QED BY <1>4, <1>5, <1>6, <1>7 DEF EnrollmentNext

-----------------------------------------------------------------------------
(* Theorems, of the component alone: ServicesProofs states them of the whole. *)

EnrollmentAlone == EnrollmentInit /\ [][EnrollmentNext]_enrollmentVars

\* Types, and with them the inductive invariant of the two handlers.
THEOREM EnrollmentIsInvariant == EnrollmentAlone => []EnrollmentInv
<1>1. EnrollmentInit => EnrollmentInv
  BY EnrollmentInitInv
<1>2. EnrollmentInv /\ [EnrollmentNext]_enrollmentVars => EnrollmentInv'
  BY EnrollmentStepInv
<1> QED BY <1>1, <1>2, PTL DEF EnrollmentAlone

\* The hosts that hold credentials by way of a token are no more than its uses,
\* whatever answers are lost (handlers_agents.go, handlers_collectors.go).
THEOREM CredentialsAreWithinBudget == EnrollmentAlone => []CredentialsWithinBudget
<1>1. EnrollmentInv => CredentialsWithinBudget
  BY EnrollmentInvBudget
<1> QED BY <1>1, EnrollmentIsInvariant, PTL

\* The handlers implement the promise of the token: every step is a step of
\* TokenBudget or leaves it where it is.
THEOREM EnrollmentRefinesBudget == EnrollmentAlone => EnrollmentImplementsBudget
<1>1. EnrollmentInit => B!BudgetInit
  BY EnrollmentInitBudget
<1>2. EnrollmentInv /\ [EnrollmentNext]_enrollmentVars => [B!BudgetNext]_(B!budget)
  BY EnrollmentStepBudget
<1> QED
  BY <1>1, <1>2, EnrollmentIsInvariant, PTL
  DEF EnrollmentAlone, EnrollmentImplementsBudget, B!Budget
=============================================================================
