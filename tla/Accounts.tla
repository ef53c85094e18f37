------------------------------- MODULE Accounts -------------------------------
(***************************************************************************)
(* Users and sites (internal/api/handlers_resources.go).  A delete counts  *)
(* first - the other active superadmins, or what the site has - and        *)
(* deletes then.  The count takes no lock: between the two statements      *)
(* other requests have their way, though those of a user are in one        *)
(* transaction.                                                            *)
(*                                                                         *)
(* Names, passwords and the other columns are left out; the PATCH of a     *)
(* site changes nothing that matters here.                                 *)
(***************************************************************************)
EXTENDS Shared, FiniteSets

CONSTANTS
  User,    \* users, by id
  Place,   \* sites, by id
  Resident \* appliances, agents and collectors, by id

\* The ids of two tables.
ASSUME AccountsAssumption == User \cap Place = {}

VARIABLES
  user,     \* the users there are: role and is_active
  place,    \* the sites there are
  home,     \* site_id of each appliance, agent and collector
  deleting  \* a delete of each user or site, from its count on: overtaken or not

accountVars == <<user, place, home, deleting>>

-----------------------------------------------------------------------------
Account == [role : {"superadmin", "other"}, active : BOOLEAN]

ASSUME AccountsNoneAssumption ==
  None \notin Account /\ None \notin Place /\ None \notin {"counted", "overtaken"}

AccountsTypeOK ==
  /\ user \in [User -> Account \cup {None}]
  /\ place \in SUBSET Place
  /\ home \in [Resident -> Place \cup {None}]
  /\ deleting \in [User \cup Place -> {None, "counted", "overtaken"}]

Superadmin(u) == user[u] # None /\ user[u].role = "superadmin"
ActiveSuperadmins == {u \in User : Superadmin(u) /\ user[u].active}
Residents(p) == {r \in Resident : home[r] = p}

\* Another request has changed what those under way have counted.
Overtake(targets) ==
  deleting' = [t \in User \cup Place |->
    IF t \in targets /\ deleting[t] # None THEN "overtaken" ELSE deleting[t]]

-----------------------------------------------------------------------------
(* Users. *)

\* At the start of the API, when the table is empty.
BootstrapAdmin(u) ==
  /\ \A v \in User : user[v] = None
  /\ user' = [user EXCEPT ![u] = [role |-> "superadmin", active |-> TRUE]]
  /\ UNCHANGED <<place, home, deleting>>

CreateUser(u) ==
  /\ user[u] = None /\ \E v \in User : user[v] # None
  /\ \E role \in {"superadmin", "other"} :
       user' = [user EXCEPT ![u] = [role |-> role, active |-> TRUE]]
  /\ UNCHANGED <<place, home, deleting>>

\* A sparse PATCH.  The last superadmin may be given another role, or be deactivated.
UpdateUser(u) ==
  /\ user[u] # None
  /\ \E account \in Account : user' = [user EXCEPT ![u] = account]
  /\ Overtake(User)
  /\ UNCHANGED <<place, home>>

\* A count that takes in the deactivated.
OthersThan_Inactive(u) == {v \in User : Superadmin(v)} \ {u}

OthersThan(u) == ActiveSuperadmins \ {u}

\* One may not delete oneself; who the caller is does not matter otherwise.
CountSuperadmins(u) ==
  /\ user[u] # None /\ deleting[u] = None
  /\ Superadmin(u) => OthersThan(u) # {}
  /\ deleting' = [deleting EXCEPT ![u] = "counted"]
  /\ UNCHANGED <<user, place, home>>

\* A row that is gone already is a 404.
DeleteUser(u) ==
  /\ deleting[u] # None
  /\ user' = [user EXCEPT ![u] = None]
  /\ deleting' = [t \in User \cup Place |->
       IF t = u THEN None
       ELSE IF t \in User /\ deleting[t] # None THEN "overtaken" ELSE deleting[t]]
  /\ UNCHANGED <<place, home>>

-----------------------------------------------------------------------------
(* Sites. *)

CreateSite(p) ==
  /\ p \notin place /\ place' = place \cup {p}
  /\ UNCHANGED <<user, home, deleting>>

\* Created in a site, or moved to another.
Settle(r) ==
  /\ \E p \in place : home' = [home EXCEPT ![r] = p] /\ Overtake({p})
  /\ UNCHANGED <<user, place>>

Leave(r) ==
  /\ home' = [home EXCEPT ![r] = None]
  /\ UNCHANGED <<user, place, deleting>>

CountResidents(p) ==
  /\ p \in place /\ deleting[p] = None
  /\ Residents(p) = {}
  /\ deleting' = [deleting EXCEPT ![p] = "counted"]
  /\ UNCHANGED <<user, place, home>>

\* The foreign keys cascade.
DeleteSite(p) ==
  /\ deleting[p] # None
  /\ place' = place \ {p}
  /\ home' = [r \in Resident |-> IF home[r] = p THEN None ELSE home[r]]
  /\ deleting' = [deleting EXCEPT ![p] = None]
  /\ UNCHANGED user

\* The request ends without its DELETE: an error, or a caller who has gone.
DeleteFails(t) ==
  /\ deleting[t] # None /\ deleting' = [deleting EXCEPT ![t] = None]
  /\ UNCHANGED <<user, place, home>>

-----------------------------------------------------------------------------
AccountsInit ==
  /\ user = [u \in User |-> None]
  /\ place = {} /\ home = [r \in Resident |-> None]
  /\ deleting = [t \in User \cup Place |-> None]

AccountsNext ==
  \/ \E u \in User : BootstrapAdmin(u) \/ CreateUser(u) \/ UpdateUser(u) \/ CountSuperadmins(u) \/ DeleteUser(u)
  \/ \E p \in Place : CreateSite(p) \/ CountResidents(p) \/ DeleteSite(p)
  \/ \E r \in Resident : Settle(r) \/ Leave(r)
  \/ \E t \in User \cup Place : DeleteFails(t)

-----------------------------------------------------------------------------
(* Properties. *)

\* A delete takes the last active superadmin, or a site with something in it, only when
\* another request overtook its count (handlers_resources.go:431, 189).
LostOnlyWhenOvertaken ==
  [][/\ \A u \in ActiveSuperadmins :
          deleting[u] = "counted" /\ user'[u] = None => ActiveSuperadmins' # {}
     /\ \A p \in place : deleting[p] = "counted" /\ p \notin place' => Residents(p) = {}
    ]_accountVars
=============================================================================
