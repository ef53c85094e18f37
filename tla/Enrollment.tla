------------------------------ MODULE Enrollment ------------------------------
(***************************************************************************)
(* Enrollment of probes and collectors: an operator issues a token with a  *)
(* number of uses and a date of expiry (agent_enrollment_tokens,           *)
(* collector_enrollment_tokens); a host presents it, is given a row in     *)
(* agents or collectors and a JWT for that row, and saves both on disk     *)
(* (internal/api/handlers_agents.go, handlers_collectors.go,               *)
(* internal/probe/enroll.go, internal/collector/config_disk.go).           *)
(*                                                                         *)
(* The two handlers differ in their tables, in the column that is unique   *)
(* within a site (hostname, name) and in the caps; here a kind tells them  *)
(* apart.  Each is one transaction, which holds the token's row from its   *)
(* SELECT ... FOR UPDATE to its end; the host learns the outcome later, or *)
(* never.  A refused request changes nothing and is left out.              *)
(***************************************************************************)
EXTENDS Shared, Naturals, FiniteSets

CONSTANTS
  Token,       \* enrollment tokens, of both kinds
  Host,        \* machines that run a probe or a collector
  Name,        \* host names (agents), display names (collectors)
  Site,
  Identity,    \* ids of rows; a bound, as a UUID is never used twice
  AgentUses,   \* cap on max_uses of an agent token: 100
  CollectorUses \* cap on max_uses of a collector token: 50

Kind == {"agent", "collector"}

ASSUME UsesAssumption == AgentUses \in Nat \ {0} /\ CollectorUses \in Nat \ {0}

VARIABLES
  token,    \* the two token tables
  member,   \* agents and collectors, by id
  spent,    \* ids that have been given to a row
  enrolling,\* the host's request, from its row lock to its answer
  identity  \* what the host saved: the id its JWT is for, and the token used

enrollmentVars == <<token, member, spent, enrolling, identity>>

-----------------------------------------------------------------------------
(* State. *)

Uses(kind) == IF kind = "agent" THEN 1..AgentUses ELSE 1..CollectorUses

\* expired: expires_at has passed.
TokenRow == [kind : Kind, site : Site, maxUses : Nat \ {0}, used : Nat,
             revoked : BOOLEAN, expired : BOOLEAN]

Member == [kind : Kind, site : Site, name : Name, fingerprint : Host,
           active : BOOLEAN]

\* "locked": the token's row is locked and the checks have passed; "answering":
\* committed, the answer on its way.
Enrolling == [pc : {"locked", "answering"}, token : Token, name : Name,
              id : Identity \cup {None}]

Saved == [id : Identity, name : Name, via : Token]

ASSUME EnrollmentNoneAssumption ==
  None \notin TokenRow \cup Member \cup Enrolling \cup Saved \cup Identity

EnrollmentTypeOK ==
  /\ token \in [Token -> TokenRow \cup {None}]
  /\ member \in [Identity -> Member \cup {None}]
  /\ spent \in SUBSET Identity
  /\ enrolling \in [Host -> Enrolling \cup {None}]
  /\ identity \in [Host -> Saved \cup {None}]

\* The transaction that holds the token's row; UPDATEs of the row wait for it.
Locked(t) ==
  \E h \in Host : enrolling[h] # None /\ enrolling[h].pc = "locked"
                  /\ enrolling[h].token = t

Row(kind, site, name) ==
  {i \in Identity : member[i] # None /\ member[i].kind = kind
                    /\ member[i].site = site /\ member[i].name = name}

-----------------------------------------------------------------------------
(* Tokens. *)

\* maxUses left out or not positive becomes 1; one above the cap is refused.
CreateToken(t, kind) ==
  /\ token[t] = None
  /\ \E site \in Site, uses \in Uses(kind) :
       token' = [token EXCEPT ![t] =
         [kind |-> kind, site |-> site, maxUses |-> uses, used |-> 0,
          revoked |-> FALSE, expired |-> FALSE]]
  /\ UNCHANGED <<member, spent, enrolling, identity>>

CreateEnrollmentToken(t) == CreateToken(t, "agent")

CreateCollectorEnrollmentToken(t) == CreateToken(t, "collector")

RevokeToken(t, kind) ==
  /\ token[t] # None /\ token[t].kind = kind
  /\ ~token[t].revoked /\ ~Locked(t)
  /\ token' = [token EXCEPT ![t].revoked = TRUE]
  /\ UNCHANGED <<member, spent, enrolling, identity>>

RevokeEnrollmentToken(t) == RevokeToken(t, "agent")

RevokeCollectorEnrollmentToken(t) == RevokeToken(t, "collector")

\* expires_at passes: up to 30 days after the token was issued.
Expire(t) ==
  /\ token[t] # None /\ ~token[t].expired
  /\ token' = [token EXCEPT ![t].expired = TRUE]
  /\ UNCHANGED <<member, spent, enrolling, identity>>

\* What the lists of tokens call isValid; the checks of the handlers agree with it.
IsValid(t) ==
  /\ ~token[t].revoked /\ ~token[t].expired
  /\ token[t].used < token[t].maxUses

-----------------------------------------------------------------------------
(* The enrollment of a host. *)

\* Asking for the token without FOR UPDATE.
LockToken_Unlocked(h, t, kind, name) ==
  /\ enrolling[h] = None
  /\ token[t] # None /\ token[t].kind = kind
  /\ IsValid(t)
  /\ enrolling' = [enrolling EXCEPT ![h] =
       [pc |-> "locked", token |-> t, name |-> name, id |-> None]]
  /\ UNCHANGED <<token, member, spent, identity>>

\* BEGIN, SELECT ... FOR UPDATE and the three checks on what it returned.  The
\* clock is read here: the token may expire before the transaction commits.
LockToken(h, t, kind, name) ==
  /\ ~Locked(t)
  /\ LockToken_Unlocked(h, t, kind, name)

\* An UPDATE of used_count that forgets to add one.
Admit_Uncounted(h) ==
  LET e == enrolling[h] IN
  /\ e # None /\ e.pc = "locked"
  /\ \E i \in Identity \ spent :
       /\ spent' = spent \cup {i}
       /\ member' = [member EXCEPT ![i] =
            [kind |-> token[e.token].kind, site |-> token[e.token].site,
             name |-> e.name, fingerprint |-> h, active |-> TRUE]]
       /\ enrolling' = [enrolling EXCEPT ![h].pc = "answering", ![h].id = i]
  /\ UNCHANGED <<token, identity>>

\* used_count + 1, the upsert by (site, name), COMMIT.  A name that is taken keeps
\* its row and id, becomes active, and belongs to the newcomer's fingerprint.
Admit(h) ==
  LET e == enrolling[h]
      t == e.token
      taken == Row(token[t].kind, token[t].site, e.name) IN
  /\ e # None /\ e.pc = "locked"
  /\ token' = [token EXCEPT ![t].used = @ + 1]
  /\ \E i \in IF taken # {} THEN taken ELSE Identity \ spent :
       /\ spent' = spent \cup {i}
       /\ member' = [member EXCEPT ![i] =
            [kind |-> token[t].kind, site |-> token[t].site, name |-> e.name,
             fingerprint |-> h, active |-> TRUE]]
       /\ enrolling' = [enrolling EXCEPT ![h].pc = "answering", ![h].id = i]
  /\ UNCHANGED identity

\* The upsert or the commit fails, or the client has gone: ROLLBACK.
AbandonEnrollment(h) ==
  /\ enrolling[h] # None /\ enrolling[h].pc = "locked"
  /\ enrolling' = [enrolling EXCEPT ![h] = None]
  /\ UNCHANGED <<token, member, spent, identity>>

\* The answer arrives and is saved: a temporary file, then a rename.
SaveIdentity(h) ==
  LET e == enrolling[h] IN
  /\ e # None /\ e.pc = "answering"
  /\ identity' = [identity EXCEPT ![h] =
       [id |-> e.id, name |-> e.name, via |-> e.token]]
  /\ enrolling' = [enrolling EXCEPT ![h] = None]
  /\ UNCHANGED <<token, member, spent>>

\* The JWT could not be issued, the answer was lost or came after 30 s, or the
\* file could not be written.  The use of the token is spent.
LoseIdentity(h) ==
  /\ enrolling[h] # None /\ enrolling[h].pc = "answering"
  /\ enrolling' = [enrolling EXCEPT ![h] = None]
  /\ UNCHANGED <<token, member, spent, identity>>

\* The two commands and their handlers.
AgentEnroll(h) ==
  \E t \in Token, n \in Name : LockToken(h, t, "agent", n)

CollectorEnroll(h) ==
  \E t \in Token, n \in Name : LockToken(h, t, "collector", n)

-----------------------------------------------------------------------------
(* Rows. *)

\* Another row of the same kind has the site and name: the UPDATE fails.
Taken(i, site, name) == Row(member[i].kind, site, name) \ {i} # {}

\* A sparse PATCH of an agent: its site, or is_active.
UpdateAgent(i) ==
  /\ member[i] # None /\ member[i].kind = "agent"
  /\ \E site \in Site, active \in BOOLEAN :
       /\ ~Taken(i, site, member[i].name)
       /\ member' = [member EXCEPT ![i].site = site, ![i].active = active]
  /\ UNCHANGED <<token, spent, enrolling, identity>>

\* A sparse PATCH of a collector: its name, or is_active.
PatchCollectorRow(i) ==
  /\ member[i] # None /\ member[i].kind = "collector"
  /\ \E name \in Name, active \in BOOLEAN :
       /\ ~Taken(i, member[i].site, name)
       /\ member' = [member EXCEPT ![i].name = name, ![i].active = active]
  /\ UNCHANGED <<token, spent, enrolling, identity>>

DeleteMember(i, kind) ==
  /\ member[i] # None /\ member[i].kind = kind
  /\ member' = [member EXCEPT ![i] = None]
  /\ UNCHANGED <<token, spent, enrolling, identity>>

DeleteAgent(i) == DeleteMember(i, "agent")

DeleteCollectorRow(i) == DeleteMember(i, "collector")

\* A collector's hello: the row takes the name the host enrolled with.  Nothing
\* compares the host with the row's fingerprint, the JWT names the id alone.
CollectorHello(h) ==
  /\ identity[h] # None
  /\ LET i == identity[h].id IN
       /\ member[i] # None /\ member[i].kind = "collector"
       /\ ~Taken(i, member[i].site, identity[h].name)
       /\ member' = [member EXCEPT ![i].name = identity[h].name]
  /\ UNCHANGED <<token, spent, enrolling, identity>>

-----------------------------------------------------------------------------
EnrollmentInit ==
  /\ token = [t \in Token |-> None]
  /\ member = [i \in Identity |-> None]
  /\ spent = {}
  /\ enrolling = [h \in Host |-> None]
  /\ identity = [h \in Host |-> None]

TokenStep(t) ==
  \/ CreateEnrollmentToken(t) \/ CreateCollectorEnrollmentToken(t)
  \/ RevokeEnrollmentToken(t) \/ RevokeCollectorEnrollmentToken(t)
  \/ Expire(t)

HostStep(h) ==
  \/ AgentEnroll(h) \/ CollectorEnroll(h)
  \/ Admit(h) \/ AbandonEnrollment(h)
  \/ SaveIdentity(h) \/ LoseIdentity(h)
  \/ CollectorHello(h)

MemberStep(i) ==
  \/ UpdateAgent(i) \/ DeleteAgent(i)
  \/ PatchCollectorRow(i) \/ DeleteCollectorRow(i)

EnrollmentNext ==
  \/ \E t \in Token : TokenStep(t)
  \/ \E h \in Host : HostStep(h)
  \/ \E i \in Identity : MemberStep(i)

-----------------------------------------------------------------------------
(* Properties. *)

\* What a row says of the promises made with the token.
Left(t) == IF token[t] = None THEN 0 ELSE token[t].maxUses - token[t].used
Issued == {t \in Token : token[t] # None}
Revoked == {t \in Issued : token[t].revoked}

B == INSTANCE TokenBudget WITH
  issued <- Issued, left <- [t \in Token |-> Left(t)], shut <- Revoked

\* Whatever enrollments run at the same time, are abandoned or race a revocation,
\* a token admits at most maxUses and none after it was revoked: the row lock
\* makes the checks and the increment one step (handlers_agents.go:285).
EnrollmentImplementsBudget == B!Budget

\* Of the hosts that hold credentials, no more came by way of a token than it has
\* uses: with every lost answer a use is lost, never gained.
Holders(t) == {h \in Host : identity[h] # None /\ identity[h].via = t}
CredentialsWithinBudget ==
  \A t \in Token : Cardinality(Holders(t)) <= IF token[t] = None THEN 0
                                              ELSE token[t].maxUses
=============================================================================
