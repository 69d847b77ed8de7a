-------------------------- MODULE RepositoriesProofs --------------------------
(***************************************************************************)
(* Theorems about Repositories, for every value of its constants.  The     *)
(* inductive invariants of the memberships and of the users are proved     *)
(* here; those of the two kinds of tokens come from AcceptanceProofs and   *)
(* EmailResendsProofs, whose lemmas are about one call.  A call to one     *)
(* repository leaves the dicts of the others alone, but not the reply, so  *)
(* the invariants are carried over StoreNext call by call.                 *)
(***************************************************************************)
EXTENDS Repositories, SequenceTheorems, TLAPS

-----------------------------------------------------------------------------
(* Memberships *)

(* In the index agreement a missing pair and an id that is None look the   *)
(* same; the invariant says that the pair of every row is there.           *)
PairsIndexed ==
  \A i \in DOMAIN memberships_by_id :
    LET m == memberships_by_id[i] IN
      /\ <<m.user_id, m.tenant_id>> \in DOMAIN membership_id_by_user_tenant
      /\ membership_id_by_user_tenant[<<m.user_id, m.tenant_id>>] = i

PairsLead ==
  \A key \in DOMAIN membership_id_by_user_tenant :
    LET i == membership_id_by_user_tenant[key] IN
      /\ i \in DOMAIN memberships_by_id
      /\ <<memberships_by_id[i].user_id, memberships_by_id[i].tenant_id>> = key

ListsAgree ==
  \A u \in User :
    LET ids == IdsOfUser(u) IN
      /\ {ids[k] : k \in DOMAIN ids} =
           {i \in DOMAIN memberships_by_id : memberships_by_id[i].user_id = u}
      /\ \A k, l \in DOMAIN ids : ids[k] = ids[l] => k = l

MembershipsInv == TypeOK /\ PairsIndexed /\ PairsLead /\ ListsAgree

(* d[k] = v keeps the types of the keys and of the values of a dict.       *)
LEMMA PutType ==
  ASSUME NEW S, NEW V, NEW d, NEW k \in S, NEW v \in V,
         DOMAIN d \subseteq S, d \in [DOMAIN d -> V]
  PROVE  /\ DOMAIN Put(d, k, v) \subseteq S
         /\ Put(d, k, v) \in [DOMAIN Put(d, k, v) -> V]
  BY DEF Put

(* Appending a new element to a list without repetitions. *)
LEMMA AppendNew ==
  ASSUME NEW S, NEW s \in Seq(S), NEW e \in S
  PROVE  LET t == Append(s, e) IN
           /\ t \in Seq(S)
           /\ {t[k] : k \in DOMAIN t} = {s[k] : k \in DOMAIN s} \cup {e}
           /\ SubSeq(t, 1, Len(s)) = s
           /\ (\A k, l \in DOMAIN s : s[k] = s[l] => k = l)
                /\ e \notin {s[k] : k \in DOMAIN s}
                => \A k, l \in DOMAIN t : t[k] = t[l] => k = l
<1> DEFINE t == Append(s, e)
<1>1. /\ t \in Seq(S)
      /\ Len(t) = Len(s) + 1
      /\ \A k \in 1 .. Len(s) : t[k] = s[k]
      /\ t[Len(s) + 1] = e
  BY AppendProperties
<1> HIDE DEF t
<1>2. /\ Len(s) \in Nat
      /\ DOMAIN s = 1 .. Len(s)
      /\ DOMAIN t = 1 .. Len(s) + 1
  BY <1>1
<1>3. {t[k] : k \in DOMAIN t} = {s[k] : k \in DOMAIN s} \cup {e}
  BY <1>1, <1>2
<1>4. SubSeq(t, 1, Len(s)) = s
  BY <1>1, <1>2
<1>5. ASSUME \A k, l \in DOMAIN s : s[k] = s[l] => k = l,
             e \notin {s[k] : k \in DOMAIN s},
             NEW k \in DOMAIN t, NEW l \in DOMAIN t, t[k] = t[l]
      PROVE  k = l
  BY <1>1, <1>2, <1>5
<1> QED
  BY <1>1, <1>3, <1>4, <1>5 DEF t

(* The list of a user is a sequence of ids. *)
LEMMA IdsOfUserType ==
  ASSUME TypeOK, NEW u
  PROVE  IdsOfUser(u) \in Seq(Id)
  BY DEF TypeOK, IdsOfUser

(* A create() that returns adds the membership to all three dicts. *)
LEMMA CreateMembershipPreserves ==
  ASSUME MembershipsInv,
         NEW i \in Id, NEW u \in User, NEW n \in Tenant, NEW role \in Role,
         Create(i, u, n, role)
  PROVE  MembershipsInv'
<1> DEFINE rows == memberships_by_id
           pairs == membership_id_by_user_tenant
           lists == membership_ids_by_user
           m == NewMembership(u, n, role)
           ids == Append(IdsOfUser(u), i)
<1>1. /\ <<u, n>> \notin DOMAIN pairs
      /\ i \notin DOMAIN rows
      /\ rows' = Put(rows, i, m)
      /\ pairs' = Put(pairs, <<u, n>>, i)
      /\ lists' = Put(lists, u, ids)
      /\ reply' = Returned(1)
  BY DEF Create
<1>2. m \in Membership /\ m.user_id = u /\ m.tenant_id = n
  BY MaxVersionAssumption DEF NewMembership, Membership, Status
<1>3. /\ DOMAIN rows' = DOMAIN rows \cup {i}
      /\ rows'[i] = m
      /\ \A x \in DOMAIN rows : x # i /\ rows'[x] = rows[x]
  BY <1>1 DEF Put
<1>4. /\ DOMAIN pairs' = DOMAIN pairs \cup {<<u, n>>}
      /\ pairs'[<<u, n>>] = i
      /\ \A x \in DOMAIN pairs : x # <<u, n>> /\ pairs'[x] = pairs[x]
  BY <1>1 DEF Put
<1>5. /\ DOMAIN lists' = DOMAIN lists \cup {u}
      /\ lists'[u] = ids
      /\ \A x \in DOMAIN lists : x # u => lists'[x] = lists[x]
  BY <1>1 DEF Put
<1>6. IdsOfUser(u) \in Seq(Id)
  BY IdsOfUserType DEF MembershipsInv
<1>7. ids \in Seq(Id)
  BY <1>6, AppendNew
<1>8. TypeOK'
  <2>1. /\ DOMAIN rows' \subseteq Id
        /\ rows' \in [DOMAIN rows' -> Membership]
    <3> HIDE DEF rows, m
    <3>1. DOMAIN rows \subseteq Id /\ rows \in [DOMAIN rows -> Membership]
      BY DEF rows, MembershipsInv, TypeOK
    <3>2. /\ DOMAIN Put(rows, i, m) \subseteq Id
          /\ Put(rows, i, m) \in [DOMAIN Put(rows, i, m) -> Membership]
      BY <1>2, <3>1, PutType
    <3> QED
      BY <1>1, <3>2
  <2>2. /\ DOMAIN pairs' \subseteq User \X Tenant
        /\ pairs' \in [DOMAIN pairs' -> Id]
    <3> DEFINE key == <<u, n>>
    <3>1. /\ key \in User \X Tenant
          /\ DOMAIN pairs \subseteq User \X Tenant
          /\ pairs \in [DOMAIN pairs -> Id]
      BY DEF MembershipsInv, TypeOK
    <3>2. pairs' = Put(pairs, key, i)
      BY <1>1
    <3> HIDE DEF pairs, key
    <3>3. /\ DOMAIN Put(pairs, key, i) \subseteq User \X Tenant
          /\ Put(pairs, key, i) \in [DOMAIN Put(pairs, key, i) -> Id]
      BY <3>1, PutType
    <3> QED
      BY <3>2, <3>3
  <2>3. /\ DOMAIN lists' \subseteq User
        /\ lists' \in [DOMAIN lists' -> Seq(Id)]
    <3> HIDE DEF lists, ids
    <3>1. DOMAIN lists \subseteq User /\ lists \in [DOMAIN lists -> Seq(Id)]
      BY DEF lists, MembershipsInv, TypeOK
    <3>2. /\ DOMAIN Put(lists, u, ids) \subseteq User
          /\ Put(lists, u, ids) \in [DOMAIN Put(lists, u, ids) -> Seq(Id)]
      BY <1>7, <3>1, PutType
    <3> QED
      BY <1>1, <3>2
  <2>4. reply' \in Reply
    BY <1>1 DEF Returned, Reply
  <2> QED
    BY <2>1, <2>2, <2>3, <2>4 DEF TypeOK
<1>9. PairsIndexed'
  <2> SUFFICES ASSUME NEW x \in DOMAIN rows'
               PROVE  /\ <<rows'[x].user_id, rows'[x].tenant_id>>
                           \in DOMAIN pairs'
                      /\ pairs'[<<rows'[x].user_id, rows'[x].tenant_id>>] = x
    BY DEF PairsIndexed
  <2>1. CASE x = i
    BY <1>2, <1>3, <1>4, <2>1
  <2>2. CASE x # i
    BY <1>3, <1>4, <2>2 DEF MembershipsInv, PairsIndexed
  <2> QED
    BY <2>1, <2>2
<1>10. PairsLead'
  <2> SUFFICES ASSUME NEW key \in DOMAIN pairs'
               PROVE  /\ pairs'[key] \in DOMAIN rows'
                      /\ <<rows'[pairs'[key]].user_id,
                           rows'[pairs'[key]].tenant_id>> = key
    BY DEF PairsLead
  <2>1. CASE key = <<u, n>>
    BY <1>2, <1>3, <1>4, <2>1
  <2>2. CASE key # <<u, n>>
    BY <1>3, <1>4, <2>2 DEF MembershipsInv, PairsLead
  <2> QED
    BY <2>1, <2>2
<1>11. ListsAgree'
  <2> SUFFICES ASSUME NEW v \in User
               PROVE  LET l == IdsOfUser(v)' IN
                        /\ {l[k] : k \in DOMAIN l} =
                             {x \in DOMAIN rows' : rows'[x].user_id = v}
                        /\ \A j, k \in DOMAIN l : l[j] = l[k] => j = k
    BY DEF ListsAgree
  <2>1. /\ {IdsOfUser(v)[k] : k \in DOMAIN IdsOfUser(v)} =
             {x \in DOMAIN rows : rows[x].user_id = v}
        /\ \A j, k \in DOMAIN IdsOfUser(v) :
             IdsOfUser(v)[j] = IdsOfUser(v)[k] => j = k
    BY DEF MembershipsInv, ListsAgree
  <2>2. CASE v = u
    <3>1. IdsOfUser(v)' = ids
      BY <1>5, <2>2 DEF IdsOfUser
    <3>2. i \notin {IdsOfUser(u)[k] : k \in DOMAIN IdsOfUser(u)}
      BY <1>1, <2>1, <2>2
    <3>3. /\ {ids[k] : k \in DOMAIN ids} =
               {IdsOfUser(u)[k] : k \in DOMAIN IdsOfUser(u)} \cup {i}
          /\ \A j, k \in DOMAIN ids : ids[j] = ids[k] => j = k
      BY <1>6, <2>1, <2>2, <3>2, AppendNew
    <3>4. {x \in DOMAIN rows' : rows'[x].user_id = u} =
            {x \in DOMAIN rows : rows[x].user_id = u} \cup {i}
      BY <1>2, <1>3
    <3> HIDE DEF ids
    <3> QED
      BY <2>1, <2>2, <3>1, <3>3, <3>4
  <2>3. CASE v # u
    <3>1. IdsOfUser(v)' = IdsOfUser(v)
      BY <1>5, <2>3 DEF IdsOfUser
    <3>2. {x \in DOMAIN rows' : rows'[x].user_id = v} =
            {x \in DOMAIN rows : rows[x].user_id = v}
      BY <1>2, <1>3, <2>3
    <3> QED
      BY <2>1, <3>1, <3>2
  <2> QED
    BY <2>2, <2>3
<1> QED
  BY <1>8, <1>9, <1>10, <1>11 DEF MembershipsInv

(* An update() that returns leaves the pair of its row as it was. *)
LEMMA UpdateMembershipPreserves ==
  ASSUME MembershipsInv,
         NEW i \in Id, NEW membership \in Membership, Update(i, membership)
  PROVE  MembershipsInv'
<1> DEFINE rows == memberships_by_id
<1>1. /\ i \in DOMAIN rows
      /\ rows' = [rows EXCEPT ![i] = membership]
      /\ rows[i].user_id = membership.user_id
      /\ rows[i].tenant_id = membership.tenant_id
      /\ UNCHANGED indexes
      /\ reply' = Returned(1)
  BY DEF Update
<1>2. /\ DOMAIN rows' = DOMAIN rows
      /\ \A x \in DOMAIN rows : /\ rows'[x].user_id = rows[x].user_id
                                /\ rows'[x].tenant_id = rows[x].tenant_id
  BY <1>1
<1>3. TypeOK'
  <2>1. rows' \in [DOMAIN rows' -> Membership]
    BY <1>1 DEF MembershipsInv, TypeOK
  <2>2. reply' \in Reply
    BY <1>1 DEF Returned, Reply
  <2> QED
    BY <1>1, <1>2, <2>1, <2>2 DEF MembershipsInv, TypeOK, indexes
<1>4. PairsIndexed'
  BY <1>1, <1>2 DEF MembershipsInv, PairsIndexed, indexes
<1>5. PairsLead'
  BY <1>1, <1>2 DEF MembershipsInv, PairsLead, indexes
<1>6. ListsAgree'
  BY <1>1, <1>2 DEF MembershipsInv, ListsAgree, IdsOfUser, indexes
<1> QED
  BY <1>3, <1>4, <1>5, <1>6 DEF MembershipsInv

(* A step that leaves the memberships alone preserves their invariant. *)
LEMMA QuietKeepsMemberships ==
  ASSUME MembershipsInv, UNCHANGED store, reply' \in Reply
  PROVE  MembershipsInv'
  BY DEF MembershipsInv, TypeOK, PairsIndexed, PairsLead, ListsAgree,
         IdsOfUser, store, indexes

(* No membership yet. *)
LEMMA InitMemberships == Init => MembershipsInv
<1> SUFFICES ASSUME Init PROVE MembershipsInv
  OBVIOUS
<1>1. /\ DOMAIN memberships_by_id = {}
      /\ DOMAIN membership_id_by_user_tenant = {}
      /\ DOMAIN membership_ids_by_user = {}
      /\ memberships_by_id \in [{} -> Membership]
      /\ membership_id_by_user_tenant \in [{} -> Id]
      /\ membership_ids_by_user \in [{} -> Seq(Id)]
  BY DEF Init
<1>2. reply \in Reply
  BY DEF Init, Returned, Reply
<1>3. TypeOK
  BY <1>1, <1>2 DEF TypeOK
<1>4. \A u \in User : IdsOfUser(u) = <<>>
  BY <1>1 DEF IdsOfUser
<1>5. ListsAgree
  BY <1>1, <1>4 DEF ListsAgree
<1> QED
  BY <1>1, <1>3, <1>5 DEF MembershipsInv, PairsIndexed, PairsLead

(* Every call to the membership repository preserves the invariant. *)
LEMMA NextMemberships == MembershipsInv /\ Next => MembershipsInv'
<1> SUFFICES ASSUME MembershipsInv, Next PROVE MembershipsInv'
  OBVIOUS
<1>1. ASSUME NEW i \in Id, NEW u \in User, NEW n \in Tenant, NEW role \in Role,
             Create(i, u, n, role)
      PROVE  MembershipsInv'
  BY <1>1, CreateMembershipPreserves
<1>2. ASSUME NEW u \in User, NEW n \in Tenant, CreateRaises(u, n)
      PROVE  MembershipsInv'
  BY <1>2, QuietKeepsMemberships DEF CreateRaises, Raised, Error, Reply
<1>3. ASSUME NEW i \in Id, NEW membership \in Membership, Update(i, membership)
      PROVE  MembershipsInv'
  BY <1>3, UpdateMembershipPreserves
<1>4. ASSUME NEW i \in Id, NEW membership \in Membership,
             UpdateRaises(i, membership)
      PROVE  MembershipsInv'
  BY <1>4, QuietKeepsMemberships DEF UpdateRaises, Raised, Error, Reply
<1> QED
  BY <1>1, <1>2, <1>3, <1>4 DEF Next

(* The three parts of the invariant are the index agreement. *)
LEMMA MembershipIndexesAgree == MembershipsInv => IndexesAgree
  BY DEF MembershipsInv, PairsIndexed, PairsLead, ListsAgree, IndexesAgree,
         GetByUserAndTenant

(* A step that leaves the memberships alone grows nothing. *)
LEMMA QuietGrows ==
  ASSUME MembershipsInv, UNCHANGED store
  PROVE  Grows
<1>1. \A s \in Seq(Id) : SubSeq(s, 1, Len(s)) = s
  OBVIOUS
<1> QED
  BY <1>1 DEF Grows, MembershipsInv, TypeOK, store, indexes

(* create() puts the new id at the end of the user's list and of no other. *)
LEMMA CreateGrows ==
  ASSUME MembershipsInv,
         NEW i \in Id, NEW u \in User, NEW n \in Tenant, NEW role \in Role,
         Create(i, u, n, role)
  PROVE  Grows
<1> DEFINE pairs == membership_id_by_user_tenant
           lists == membership_ids_by_user
<1>1. /\ <<u, n>> \notin DOMAIN pairs
      /\ pairs' = Put(pairs, <<u, n>>, i)
      /\ lists' = Put(lists, u, Append(IdsOfUser(u), i))
  BY DEF Create
<1>2. \A key \in DOMAIN pairs :
        /\ key \in DOMAIN pairs'
        /\ pairs'[key] = pairs[key]
  BY <1>1 DEF Put
<1>3. ASSUME NEW v \in DOMAIN lists
      PROVE  /\ v \in DOMAIN lists'
             /\ SubSeq(lists'[v], 1, Len(lists[v])) = lists[v]
  <2>1. lists[v] \in Seq(Id)
    BY DEF MembershipsInv, TypeOK
  <2>2. v \in DOMAIN lists'
    BY <1>1 DEF Put
  <2>3. CASE v = u
    <3>1. lists'[v] = Append(lists[v], i)
      BY <1>1, <2>3 DEF IdsOfUser, Put
    <3> QED
      BY <2>1, <2>2, <3>1, AppendNew
  <2>4. CASE v # u
    <3>1. lists'[v] = lists[v]
      BY <1>1, <2>4 DEF Put
    <3> QED
      BY <2>1, <2>2, <3>1
  <2> QED
    BY <2>3, <2>4
<1> QED
  BY <1>2, <1>3 DEF Grows

(* Every call to the membership repository keeps the order of the lists. *)
LEMMA NextGrows == MembershipsInv /\ Next => Grows
<1> SUFFICES ASSUME MembershipsInv, Next PROVE Grows
  OBVIOUS
<1>1. ASSUME NEW i \in Id, NEW u \in User, NEW n \in Tenant, NEW role \in Role,
             Create(i, u, n, role)
      PROVE  Grows
  BY <1>1, CreateGrows
<1>2. ASSUME UNCHANGED indexes PROVE Grows
  <2>1. \A s \in Seq(Id) : SubSeq(s, 1, Len(s)) = s
    OBVIOUS
  <2> QED
    BY <1>2, <2>1 DEF Grows, MembershipsInv, TypeOK, indexes
<1> QED
  BY <1>1, <1>2 DEF Next, CreateRaises, Update, UpdateRaises, store

-----------------------------------------------------------------------------
(* Users *)

(* The key a user is stored under is the normal form of the spelling that  *)
(* user signed up with; it leads to that user, and no other key does.      *)
KeysAgree ==
  /\ \A k \in DOMAIN user_id_by_email :
       LET i == user_id_by_email[k] IN
         /\ i \in DOMAIN users_by_id
         /\ users_by_id[i].email = EmailStr[k]
         /\ k = U!normalise_email(signed_up[i])
  /\ \A i \in DOMAIN users_by_id :
       LET k == U!normalise_email(signed_up[i]) IN
         k \in DOMAIN user_id_by_email /\ user_id_by_email[k] = i

UsersInv == U!TypeOK /\ KeysAgree

(* A create() that returns adds the user under a key nobody had. *)
LEMMA CreateUserPreserves ==
  ASSUME UsersInv, NEW i \in Id, NEW e \in Spelling, NEW p \in Password,
         U!Create(i, e, p)
  PROVE  UsersInv'
<1> DEFINE rows == users_by_id
           keys == user_id_by_email
           k == U!normalise_email(e)
           u == U!NewUser(e, p)
<1>1. /\ k \notin DOMAIN keys
      /\ i \notin DOMAIN rows
      /\ EmailStr[k] # None
      /\ rows' = Put(rows, i, u)
      /\ keys' = Put(keys, k, i)
      /\ signed_up' = Put(signed_up, i, e)
      /\ reply' = Returned(1)
  BY DEF U!Create, U!Put, Put, U!Returned, Returned
<1>2. k \in Spelling
  BY AddressAssumption DEF U!normalise_email
<1>3. u \in U!UserRecord /\ u.email = EmailStr[k]
  BY <1>1, <1>2 DEF U!NewUser, U!UserRecord, U!Address
<1> HIDE DEF k, u
<1>4. /\ DOMAIN rows' = DOMAIN rows \cup {i}
      /\ rows'[i] = u
      /\ \A x \in DOMAIN rows : x # i /\ rows'[x] = rows[x]
  BY <1>1 DEF Put
<1>5. /\ DOMAIN keys' = DOMAIN keys \cup {k}
      /\ keys'[k] = i
      /\ \A x \in DOMAIN keys : x # k /\ keys'[x] = keys[x]
  BY <1>1 DEF Put
<1>6. DOMAIN signed_up = DOMAIN rows
  BY DEF UsersInv, U!TypeOK
<1>7. /\ signed_up'[i] = e
      /\ \A x \in DOMAIN rows : signed_up'[x] = signed_up[x]
  BY <1>1, <1>6 DEF Put
<1>8. U!TypeOK'
  <2>1. /\ DOMAIN rows' \subseteq Id
        /\ rows' \in [DOMAIN rows' -> U!UserRecord]
    <3> HIDE DEF rows
    <3>1. DOMAIN rows \subseteq Id /\ rows \in [DOMAIN rows -> U!UserRecord]
      BY DEF rows, UsersInv, U!TypeOK
    <3>2. /\ DOMAIN Put(rows, i, u) \subseteq Id
          /\ Put(rows, i, u) \in [DOMAIN Put(rows, i, u) -> U!UserRecord]
      BY <1>3, <3>1, PutType
    <3> QED
      BY <1>1, <3>2
  <2>2. /\ DOMAIN keys' \subseteq Spelling
        /\ keys' \in [DOMAIN keys' -> Id]
    BY <1>1, <1>2, PutType DEF UsersInv, U!TypeOK
  <2>3. signed_up' \in [DOMAIN rows' -> Spelling]
    BY <1>1, <1>4, <1>6 DEF UsersInv, U!TypeOK, Put
  <2>4. reply' \in U!Reply
    BY <1>1 DEF Returned, U!Reply
  <2> QED
    BY <2>1, <2>2, <2>3, <2>4 DEF U!TypeOK
<1>9. KeysAgree'
  <2>1. ASSUME NEW l \in DOMAIN keys'
        PROVE  /\ keys'[l] \in DOMAIN rows'
               /\ rows'[keys'[l]].email = EmailStr[l]
               /\ l = U!normalise_email(signed_up'[keys'[l]])
    BY <1>3, <1>4, <1>5, <1>7, <2>1 DEF UsersInv, KeysAgree, k
  <2>2. ASSUME NEW x \in DOMAIN rows'
        PROVE  /\ U!normalise_email(signed_up'[x]) \in DOMAIN keys'
               /\ keys'[U!normalise_email(signed_up'[x])] = x
    BY <1>4, <1>5, <1>7, <2>2 DEF UsersInv, KeysAgree, k
  <2> QED
    BY <2>1, <2>2 DEF KeysAgree, U!normalise_email
<1> QED
  BY <1>8, <1>9 DEF UsersInv

(* An update() that returns leaves the address of its row as it was. *)
LEMMA UpdateUserPreserves ==
  ASSUME UsersInv, NEW i \in Id, NEW user \in U!UserRecord, U!Update(i, user)
  PROVE  UsersInv'
<1> DEFINE rows == users_by_id
<1>1. /\ i \in DOMAIN rows
      /\ rows[i].email = user.email
      /\ rows' = [rows EXCEPT ![i] = user]
      /\ UNCHANGED <<user_id_by_email, signed_up>>
      /\ reply' = Returned(1)
  BY DEF U!Update, U!Returned, Returned
<1>2. /\ DOMAIN rows' = DOMAIN rows
      /\ \A x \in DOMAIN rows : rows'[x].email = rows[x].email
  BY <1>1
<1>3. U!TypeOK'
  <2>1. rows' \in [DOMAIN rows' -> U!UserRecord]
    BY <1>1 DEF UsersInv, U!TypeOK
  <2>2. reply' \in U!Reply
    BY <1>1 DEF Returned, U!Reply
  <2> QED
    BY <1>1, <1>2, <2>1, <2>2 DEF UsersInv, U!TypeOK
<1>4. KeysAgree'
  BY <1>1, <1>2 DEF UsersInv, KeysAgree, U!normalise_email
<1> QED
  BY <1>3, <1>4 DEF UsersInv

(* A step that leaves the users alone preserves their invariant. *)
LEMMA QuietKeepsUsers ==
  ASSUME UsersInv, UNCHANGED userVars, reply' \in Reply
  PROVE  UsersInv'
  BY DEF UsersInv, U!TypeOK, KeysAgree, U!normalise_email, userVars,
         Reply, U!Reply, Error, U!Error

(* No user yet. *)
LEMMA InitUsers == U!Init => UsersInv
<1> SUFFICES ASSUME U!Init PROVE UsersInv
  OBVIOUS
<1>1. /\ DOMAIN users_by_id = {}
      /\ DOMAIN user_id_by_email = {}
      /\ users_by_id \in [{} -> U!UserRecord]
      /\ user_id_by_email \in [{} -> Id]
      /\ signed_up \in [{} -> Spelling]
  BY DEF U!Init
<1>2. reply \in U!Reply
  BY DEF U!Init, U!Returned, U!Reply
<1> QED
  BY <1>1, <1>2 DEF UsersInv, U!TypeOK, KeysAgree

(* Every call to the user repository preserves the invariant. *)
LEMMA NextUsers == UsersInv /\ U!Next => UsersInv'
<1> SUFFICES ASSUME UsersInv, U!Next PROVE UsersInv'
  OBVIOUS
<1>1. ASSUME NEW i \in Id, NEW e \in Spelling, NEW p \in Password,
             U!Create(i, e, p)
      PROVE  UsersInv'
  BY <1>1, CreateUserPreserves
<1>2. ASSUME NEW e \in Spelling, U!CreateRaises(e) PROVE UsersInv'
  BY <1>2, QuietKeepsUsers
     DEF U!CreateRaises, U!Raised, U!store, userVars, Error, Reply
<1>3. ASSUME NEW i \in Id, NEW user \in U!UserRecord, U!Update(i, user)
      PROVE  UsersInv'
  BY <1>3, UpdateUserPreserves
<1>4. ASSUME NEW i \in Id, NEW user \in U!UserRecord, U!UpdateRaises(i, user)
      PROVE  UsersInv'
  BY <1>4, QuietKeepsUsers
     DEF U!UpdateRaises, U!Raised, U!store, userVars, Error, Reply
<1> QED
  BY <1>1, <1>2, <1>3, <1>4 DEF U!Next

(* Keys and records agree, and every user has one key. *)
LEMMA EmailIndexAgreesFromInv == UsersInv => EmailIndexAgrees
<1> SUFFICES ASSUME UsersInv PROVE U!EmailIndexAgrees
  BY DEF EmailIndexAgrees
<1>1. ASSUME NEW i \in DOMAIN users_by_id
      PROVE  \E k \in DOMAIN user_id_by_email :
               \A l \in DOMAIN user_id_by_email :
                 user_id_by_email[l] = i <=> l = k
  <2> DEFINE k == U!normalise_email(signed_up[i])
  <2>1. k \in DOMAIN user_id_by_email /\ user_id_by_email[k] = i
    BY DEF UsersInv, KeysAgree
  <2>2. \A l \in DOMAIN user_id_by_email : user_id_by_email[l] = i => l = k
    BY DEF UsersInv, KeysAgree
  <2> HIDE DEF k
  <2> QED
    BY <2>1, <2>2
<1> QED
  BY <1>1 DEF UsersInv, KeysAgree, U!EmailIndexAgrees

(* Every spelling with a user's key finds that user. *)
LEMMA SpellingsFindTheirUserFromInv == UsersInv => SpellingsFindTheirUser
  BY DEF UsersInv, KeysAgree, SpellingsFindTheirUser,
         U!SpellingsFindTheirUser, U!GetByEmail

-----------------------------------------------------------------------------
(* The four repositories together *)

(* The lemmas about one call to the token repositories.  Those modules     *)
(* also speak of requests, which are not cited here: what only requests    *)
(* mention is empty.                                                       *)
IP == INSTANCE AcceptanceProofs WITH
        MembershipId <- {}, Task <- {},
        acceptFirst <- None, now <- None, pc <- None, picked <- None,
        joining <- None, started <- None, admitted <- None, abandoned <- None
EP == INSTANCE EmailResendsProofs WITH
        Task <- {},
        pc <- None, picked <- None, user_copy <- None,
        newest <- None, overlapped <- None

StoreInv ==
  /\ MembershipsInv
  /\ UsersInv
  /\ IP!IInv
  /\ EP!IInv

(* The empty store satisfies the four invariants. *)
LEMMA InitStoreInv == StoreInit => StoreInv
<1> SUFFICES ASSUME StoreInit PROVE StoreInv
  OBVIOUS
<1>1. IP!Init
  BY DEF StoreInit, I!Init, IP!Init, I!Returned, IP!Returned
<1>2. EP!Init
  BY DEF StoreInit, E!Init, EP!Init, E!Returned, EP!Returned
<1>3. IP!IInv
  BY <1>1, InstantsAssumption, IP!InitImpliesIInv
<1>4. EP!IInv
  BY <1>2, InstantsAssumption, UuidAssumption, EP!InitImpliesIInv
<1> QED
  BY <1>3, <1>4, InitMemberships, InitUsers DEF StoreInit, StoreInv

(* A reply of one repository is a reply of any. *)
LEMMA OneReply ==
  /\ U!Reply = Reply
  /\ IP!Reply = Reply
  /\ EP!Reply = Reply
  BY DEF Reply, U!Reply, IP!Reply, EP!Reply,
         Error, U!Error, IP!Error, EP!Error

(* What a step that leaves the invitations alone leaves of them. *)
LEMMA QuietKeepsInvitations ==
  ASSUME IP!IInv, UNCHANGED invitationVars, reply' \in Reply
  PROVE  IP!IInv'
<1>1. UNCHANGED IP!store
  BY DEF invitationVars, IP!store
<1> QED
  BY <1>1, OneReply, InstantsAssumption, IP!StorePreservesIInv

(* What a step that leaves the email verifications alone leaves of them. *)
LEMMA QuietKeepsVerifications ==
  ASSUME EP!IInv, UNCHANGED emailVars, reply' \in Reply
  PROVE  EP!IInv'
<1>1. UNCHANGED EP!store
  BY DEF emailVars, EP!store
<1> QED
  BY <1>1, OneReply, InstantsAssumption, UuidAssumption, EP!StorePreservesIInv

(* The instances of a module in Repositories and in its proofs agree. *)
LEMMA SameInvitations ==
  /\ I!Next => IP!Next
  /\ IP!TypeOK => I!TypeOK
  /\ IP!TokenIndexAgrees => I!TokenIndexAgrees
  /\ IP!RowsStayValid => I!RowsStayValid
  /\ IP!AcceptedInTime => I!AcceptedInTime
<1>1. ASSUME NEW i \in Id, NEW n \in Tenant, NEW role \in Role,
             NEW h \in Hash, NEW created \in Time, NEW exp \in Time,
             I!Create(i, n, role, h, created, exp)
      PROVE  IP!Create(i, n, role, h, created, exp)
  BY <1>1
     DEF I!Create, IP!Create, I!Put, IP!Put, I!Returned, IP!Returned,
         I!NewInvitation, IP!NewInvitation,
         I!ValidInvitation, IP!ValidInvitation
<1>2. ASSUME NEW h \in Hash, I!CreateRaises(h) PROVE IP!CreateRaises(h)
  BY <1>2
     DEF I!CreateRaises, IP!CreateRaises, I!Raised, IP!Raised,
         I!store, IP!store
<1>3. ASSUME NEW i \in Id, NEW at \in Time, I!MarkAccepted(i, at)
      PROVE  IP!MarkAccepted(i, at)
  BY <1>3
     DEF I!MarkAccepted, IP!MarkAccepted, I!Accepted, IP!Accepted,
         I!Returned, IP!Returned, I!ValidInvitation, IP!ValidInvitation
<1>4. ASSUME NEW i \in Id, NEW at \in Time, I!MarkAcceptedRaises(i, at)
      PROVE  IP!MarkAcceptedRaises(i, at)
  BY <1>4
     DEF I!MarkAcceptedRaises, IP!MarkAcceptedRaises, I!Raised, IP!Raised,
         I!store, IP!store
<1>5. I!Next => IP!Next
  BY <1>1, <1>2, <1>3, <1>4 DEF I!Next, IP!Next
<1>6. IP!TypeOK => I!TypeOK
  BY DEF I!TypeOK, IP!TypeOK, I!Invitation, IP!Invitation,
         I!Status, IP!Status, I!Reply, IP!Reply, I!Error, IP!Error
<1>7. IP!TokenIndexAgrees => I!TokenIndexAgrees
  BY DEF I!TokenIndexAgrees, IP!TokenIndexAgrees
<1>8. IP!RowsStayValid => I!RowsStayValid
  BY DEF I!RowsStayValid, IP!RowsStayValid, I!ValidInvitation,
         IP!ValidInvitation, I!Accepted, IP!Accepted
<1>9. IP!AcceptedInTime => I!AcceptedInTime
  BY DEF I!AcceptedInTime, IP!AcceptedInTime
<1> QED
  BY <1>5, <1>6, <1>7, <1>8, <1>9

(* The same of the email verifications. *)
LEMMA SameVerifications ==
  /\ E!Next => EP!Next
  /\ EP!TypeOK => E!TypeOK
  /\ EP!TokenIndexAgrees => E!TokenIndexAgrees
  /\ EP!RowsStayValid => E!RowsStayValid
  /\ EP!RevocationStep => E!RevocationStep
<1>1. ASSUME NEW i \in Id, NEW u \in User, NEW h \in Hash,
             NEW created \in Time, NEW exp \in Time,
             E!Create(i, u, h, created, exp)
      PROVE  EP!Create(i, u, h, created, exp)
  BY <1>1
     DEF E!Create, EP!Create, E!Put, EP!Put, E!Returned, EP!Returned,
         E!NewVerification, EP!NewVerification,
         E!ValidVerification, EP!ValidVerification
<1>2. ASSUME NEW h \in Hash, E!CreateRaises(h) PROVE EP!CreateRaises(h)
  BY <1>2
     DEF E!CreateRaises, EP!CreateRaises, E!Raised, EP!Raised,
         E!store, EP!store
<1>3. ASSUME NEW i \in Id, NEW at \in Time, E!MarkConsumed(i, at)
      PROVE  EP!MarkConsumed(i, at)
  BY <1>3
     DEF E!MarkConsumed, EP!MarkConsumed, E!Consumed, EP!Consumed,
         E!Returned, EP!Returned, E!ValidVerification, EP!ValidVerification
<1>4. ASSUME NEW i \in Id, E!MarkConsumedRaises(i)
      PROVE  EP!MarkConsumedRaises(i)
  BY <1>4
     DEF E!MarkConsumedRaises, EP!MarkConsumedRaises, E!Raised, EP!Raised,
         E!store, EP!store
<1>5. /\ \A u : E!PendingOf(u) = EP!PendingOf(u)
      /\ \A u : E!PendingOf(u)' = EP!PendingOf(u)'
      /\ \A S : E!Cardinality(S) = EP!Cardinality(S)
      /\ \A n : E!Returned(n) = EP!Returned(n)
  BY DEF E!PendingOf, EP!PendingOf, E!Cardinality, EP!Cardinality,
         E!Returned, EP!Returned
<1>6. ASSUME NEW u, NEW at
      PROVE  E!RevokePendingForUser(u, at) <=> EP!RevokePendingForUser(u, at)
  <2>1. \A r : E!Revoked(r, at) = EP!Revoked(r, at)
    BY DEF E!Revoked, EP!Revoked
  <2>2. \A r : E!ValidVerification(r) <=> EP!ValidVerification(r)
    BY DEF E!ValidVerification, EP!ValidVerification
  <2> QED
    BY <1>5, <2>1, <2>2
       DEF E!RevokePendingForUser, EP!RevokePendingForUser,
           E!Raised, EP!Raised
<1>7. E!Next => EP!Next
  BY <1>1, <1>2, <1>3, <1>4, <1>6 DEF E!Next, EP!Next
<1>8. EP!TypeOK => E!TypeOK
  BY DEF E!TypeOK, EP!TypeOK, E!Verification, EP!Verification,
         E!Status, EP!Status, E!Reply, EP!Reply, E!Error, EP!Error
<1>9. EP!TokenIndexAgrees => E!TokenIndexAgrees
  BY DEF E!TokenIndexAgrees, EP!TokenIndexAgrees
<1>10. EP!RowsStayValid => E!RowsStayValid
  BY DEF E!RowsStayValid, EP!RowsStayValid, E!ValidVerification,
         EP!ValidVerification, E!Consumed, EP!Consumed, E!Revoked, EP!Revoked
<1>11. EP!RevocationStep => E!RevocationStep
  BY <1>6, <1>5 DEF E!RevocationStep, EP!RevocationStep
<1> QED
  BY <1>7, <1>8, <1>9, <1>10, <1>11

(* The two ledgers of the invitations are one. *)
LEMMA SameInvitationLedger ==
  /\ IP!Ledger!Init => I!Ledger!Init
  /\ [IP!Ledger!Next]_IP!Ledger!vars => [I!Ledger!Next]_I!Ledger!vars
<1>1. /\ \A s : I!HashesThatAre(s) = IP!HashesThatAre(s)
      /\ \A s : I!HashesThatAre(s)' = IP!HashesThatAre(s)'
  BY DEF I!HashesThatAre, IP!HashesThatAre
<1>2. IP!Ledger!Init => I!Ledger!Init
  BY <1>1 DEF I!Ledger!Init, IP!Ledger!Init
<1>3. IP!Ledger!Next => I!Ledger!Next
  BY <1>1
     DEF I!Ledger!Next, IP!Ledger!Next, I!Ledger!Issue, IP!Ledger!Issue,
         I!Ledger!Redeem, IP!Ledger!Redeem, I!Ledger!Withdraw,
         IP!Ledger!Withdraw, I!Ledger!Dead, IP!Ledger!Dead
<1>4. UNCHANGED IP!Ledger!vars => UNCHANGED I!Ledger!vars
  BY <1>1 DEF I!Ledger!vars, IP!Ledger!vars
<1> QED
  BY <1>2, <1>3, <1>4

(* The two ledgers of the email verifications are one. *)
LEMMA SameVerificationLedger ==
  /\ EP!Ledger!Init => E!Ledger!Init
  /\ [EP!Ledger!Next]_EP!Ledger!vars => [E!Ledger!Next]_E!Ledger!vars
<1>1. /\ \A s : E!HashesThatAre(s) = EP!HashesThatAre(s)
      /\ \A s : E!HashesThatAre(s)' = EP!HashesThatAre(s)'
      /\ \A h, f : E!EndOf(h, f) = EP!EndOf(h, f)
      /\ \A h, f : E!EndOf(h, f)' = EP!EndOf(h, f)'
  BY DEF E!HashesThatAre, EP!HashesThatAre, E!EndOf, EP!EndOf
<1>2. EP!Ledger!Init => E!Ledger!Init
  BY <1>1 DEF E!Ledger!Init, EP!Ledger!Init
<1>3. EP!Ledger!Next => E!Ledger!Next
  BY <1>1
     DEF E!Ledger!Next, EP!Ledger!Next, E!Ledger!Issue, EP!Ledger!Issue,
         E!Ledger!Redeem, EP!Ledger!Redeem, E!Ledger!Withdraw,
         EP!Ledger!Withdraw, E!Ledger!Dead, EP!Ledger!Dead
<1>4. UNCHANGED EP!Ledger!vars => UNCHANGED E!Ledger!vars
  BY <1>1 DEF E!Ledger!vars, EP!Ledger!vars
<1> QED
  BY <1>2, <1>3, <1>4

-----------------------------------------------------------------------------
(* One call to one of the four repositories *)

(* Every call preserves the four invariants. *)
LEMMA NextStoreInv == StoreInv /\ [StoreNext]_storeVars => StoreInv'
<1> SUFFICES ASSUME StoreInv, [StoreNext]_storeVars PROVE StoreInv'
  OBVIOUS
<1>1. CASE CallUsers
  <2>1. UsersInv'
    BY <1>1, NextUsers DEF CallUsers, StoreInv
  <2>2. reply' \in Reply
    BY <2>1, OneReply DEF UsersInv, U!TypeOK
  <2> QED
    BY <1>1, <2>1, <2>2, QuietKeepsMemberships, QuietKeepsInvitations,
       QuietKeepsVerifications DEF CallUsers, StoreInv
<1>2. CASE CallMemberships
  <2>1. MembershipsInv'
    BY <1>2, NextMemberships DEF CallMemberships, StoreInv
  <2>2. reply' \in Reply
    BY <2>1 DEF MembershipsInv, TypeOK
  <2> QED
    BY <1>2, <2>1, <2>2, QuietKeepsUsers, QuietKeepsInvitations,
       QuietKeepsVerifications DEF CallMemberships, StoreInv
<1>3. CASE CallInvitations
  <2>1. IP!IInv'
    BY <1>3, SameInvitations, InstantsAssumption, IP!NextPreservesIInv
       DEF CallInvitations, StoreInv
  <2>2. reply' \in Reply
    BY <2>1, OneReply DEF IP!IInv, IP!TypeOK
  <2> QED
    BY <1>3, <2>1, <2>2, QuietKeepsMemberships, QuietKeepsUsers,
       QuietKeepsVerifications DEF CallInvitations, StoreInv
<1>4. CASE CallVerifications
  <2>1. EP!IInv'
    BY <1>4, SameVerifications, InstantsAssumption, UuidAssumption,
       EP!NextPreservesIInv
       DEF CallVerifications, StoreInv
  <2>2. reply' \in Reply
    BY <2>1, OneReply DEF EP!IInv, EP!TypeOK
  <2> QED
    BY <1>4, <2>1, <2>2, QuietKeepsMemberships, QuietKeepsUsers,
       QuietKeepsInvitations DEF CallVerifications, StoreInv
<1>5. CASE UNCHANGED storeVars
  <2>1. reply' \in Reply
    BY <1>5 DEF storeVars, vars, StoreInv, MembershipsInv, TypeOK
  <2> QED
    BY <1>5, <2>1, QuietKeepsMemberships, QuietKeepsUsers,
       QuietKeepsInvitations, QuietKeepsVerifications
       DEF storeVars, vars, StoreInv
<1> QED
  BY <1>1, <1>2, <1>3, <1>4, <1>5 DEF StoreNext

(* The four invariants hold in every reachable state. *)
LEMMA StoreInvariance == StoreSpec => []StoreInv
  BY InitStoreInv, NextStoreInv, PTL DEF StoreSpec

-----------------------------------------------------------------------------
(* Theorems *)

(* Every dict of the four repositories always holds what its annotation in *)
(* store.py says.                                                          *)
THEOREM StoreTypeCorrect == StoreSpec => []StoreTypeOK
<1>1. StoreInv => StoreTypeOK
  BY SameInvitations, SameVerifications
     DEF StoreInv, MembershipsInv, UsersInv, IP!IInv, EP!IInv, StoreTypeOK
<1> QED
  BY <1>1, StoreInvariance, PTL

(* The pair index and the users' lists never drift from the memberships. *)
THEOREM MembershipIndexesAlwaysAgree == StoreSpec => []IndexesAgree
<1>1. StoreInv => IndexesAgree
  BY MembershipIndexesAgree DEF StoreInv
<1> QED
  BY <1>1, StoreInvariance, PTL

(* The order in which a user joined is never rewritten, and no membership  *)
(* drops out of an index.                                                  *)
THEOREM JoinOrderAlwaysStable == StoreSpec => JoinOrderIsStable
<1>1. StoreInv /\ [StoreNext]_storeVars => Grows
  <2> SUFFICES ASSUME StoreInv, [StoreNext]_storeVars PROVE Grows
    OBVIOUS
  <2>1. CASE CallMemberships
    BY <2>1, NextGrows DEF CallMemberships, StoreInv
  <2>2. CASE UNCHANGED store
    BY <2>2, QuietGrows DEF StoreInv
  <2> QED
    BY <2>1, <2>2
       DEF StoreNext, CallUsers, CallInvitations, CallVerifications,
           storeVars, vars
<1> QED
  BY <1>1, StoreInvariance, PTL DEF StoreSpec, JoinOrderIsStable

(* The email index never drifts from the users, whatever update() is       *)
(* passed.                                                                 *)
THEOREM EmailIndexAlwaysAgrees == StoreSpec => []EmailIndexAgrees
<1>1. StoreInv => EmailIndexAgrees
  BY EmailIndexAgreesFromInv DEF StoreInv
<1> QED
  BY <1>1, StoreInvariance, PTL

(* Every spelling of a user's address always finds that user. *)
THEOREM SpellingsAlwaysFindTheirUser == StoreSpec => []SpellingsFindTheirUser
<1>1. StoreInv => SpellingsFindTheirUser
  BY SpellingsFindTheirUserFromInv DEF StoreInv
<1> QED
  BY <1>1, StoreInvariance, PTL

(* The token indexes of the invitations and of the email verifications     *)
(* never drift from their tables.                                          *)
THEOREM TokenIndexesAlwaysAgree == StoreSpec => []TokenIndexAgrees
<1>1. StoreInv => TokenIndexAgrees
  BY SameInvitations, SameVerifications
     DEF StoreInv, IP!IInv, EP!IInv, TokenIndexAgrees
<1> QED
  BY <1>1, StoreInvariance, PTL

(* No stored token violates its validators, and no rebuild of one would.   *)
THEOREM TokenRowsAlwaysValid == StoreSpec => []RowsStayValid
<1>1. StoreInv => RowsStayValid
  BY SameInvitations, SameVerifications, InstantsAssumption, UuidAssumption,
     IP!RowsStayValidFromIInv, EP!RowsStayValidFromIInv
     DEF StoreInv, RowsStayValid
<1> QED
  BY <1>1, StoreInvariance, PTL

(* No invitation is accepted at or after its expiry. *)
THEOREM InvitationsAcceptedInTime == StoreSpec => []AcceptedInTime
<1>1. StoreInv => AcceptedInTime
  BY SameInvitations, InstantsAssumption, IP!AcceptedInTimeFromIInv
     DEF StoreInv, AcceptedInTime
<1> QED
  BY <1>1, StoreInvariance, PTL

(* A revocation for one user is exact. *)
THEOREM RevocationsAlwaysExact == StoreSpec => RevocationIsExact
<1>1. StoreInv => E!RevocationStep
  BY SameVerifications, InstantsAssumption, UuidAssumption,
     EP!RevocationStepFromIInv
     DEF StoreInv
<1> QED
  BY <1>1, StoreInvariance, PTL
     DEF StoreSpec, RevocationIsExact, E!RevocationIsExact

(* Told by its hash, an invitation is accepted at most once. *)
THEOREM InvitationsAreOneTime == StoreSpec => InvitationsImplementLedger
<1>1. StoreInit => I!Ledger!Init
  BY SameInvitationLedger, InstantsAssumption, IP!InitRefinesLedger
     DEF StoreInit, I!Init, IP!Init, I!Returned, IP!Returned
<1>2. StoreInv /\ [StoreNext]_storeVars => [I!Ledger!Next]_I!Ledger!vars
  <2> SUFFICES ASSUME StoreInv, [StoreNext]_storeVars
               PROVE  [IP!Ledger!Next]_IP!Ledger!vars
    BY SameInvitationLedger
  <2>1. CASE CallInvitations
    BY <2>1, SameInvitations, InstantsAssumption, IP!NextRefinesLedger
       DEF CallInvitations, StoreInv
  <2>2. CASE UNCHANGED invitationVars
    <3>1. UNCHANGED IP!store
      BY <2>2 DEF invitationVars, IP!store
    <3> QED
      BY <3>1, InstantsAssumption, IP!QuietKeepsLedger
  <2> QED
    BY <2>1, <2>2
       DEF StoreNext, CallUsers, CallMemberships, CallVerifications, storeVars
<1> QED
  BY <1>1, <1>2, StoreInvariance, PTL
     DEF StoreSpec, InvitationsImplementLedger, I!ImplementsLedger,
         I!Ledger!Spec

(* Told by its hash, an email verification is consumed at most once, and   *)
(* never after a resend has revoked it.                                    *)
THEOREM VerificationsAreOneTime == StoreSpec => VerificationsImplementLedger
<1>1. StoreInit => E!Ledger!Init
  BY SameVerificationLedger, InstantsAssumption, UuidAssumption,
     EP!InitRefinesLedger
     DEF StoreInit, E!Init, EP!Init, E!Returned, EP!Returned
<1>2. StoreInv /\ [StoreNext]_storeVars => [E!Ledger!Next]_E!Ledger!vars
  <2> SUFFICES ASSUME StoreInv, [StoreNext]_storeVars
               PROVE  [EP!Ledger!Next]_EP!Ledger!vars
    BY SameVerificationLedger
  <2>1. CASE CallVerifications
    BY <2>1, SameVerifications, InstantsAssumption, UuidAssumption,
       EP!NextRefinesLedger
       DEF CallVerifications, StoreInv
  <2>2. CASE UNCHANGED emailVars
    <3>1. UNCHANGED EP!store
      BY <2>2 DEF emailVars, EP!store
    <3> QED
      BY <3>1, InstantsAssumption, UuidAssumption, EP!QuietKeepsLedger
  <2> QED
    BY <2>1, <2>2
       DEF StoreNext, CallUsers, CallMemberships, CallInvitations, storeVars
<1> QED
  BY <1>1, <1>2, StoreInvariance, PTL
     DEF StoreSpec, VerificationsImplementLedger, E!ImplementsLedger,
         E!Ledger!Spec
=============================================================================
