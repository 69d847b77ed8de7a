--------------------------- MODULE AccountsProofs ---------------------------
(***************************************************************************)
(* Theorems about Accounts, for every value of its constants, and so for   *)
(* any number of requests, users and memberships.  They rest on what a     *)
(* copy is worth: it equals the stored record unless an update overtook    *)
(* it; and as long as only one of the two records of a request has changed *)
(* since its first lookup, what the copy it has and the other record as it *)
(* is now would permit was held at some moment since then.                 *)
(***************************************************************************)
EXTENDS Accounts, FiniteSetTheorems, TLAPS

(* Every record is what its annotation says, and every membership found by *)
(* its pair or in its user's list exists, its user too.                    *)
StoreTyped ==
  /\ DOMAIN users_by_id \subseteq User
  /\ users_by_id \in [DOMAIN users_by_id -> U!UserRecord]
  /\ DOMAIN memberships_by_id \subseteq MembershipId
  /\ memberships_by_id \in [DOMAIN memberships_by_id -> M!Membership]

PairsLead ==
  \A key \in DOMAIN membership_id_by_user_tenant :
    LET i == membership_id_by_user_tenant[key] IN
      /\ i \in DOMAIN memberships_by_id
      /\ memberships_by_id[i].user_id = key[1]
      /\ key[1] \in DOMAIN users_by_id

ListsLead ==
  membership_ids_by_user \in
    [DOMAIN membership_ids_by_user -> Seq(DOMAIN memberships_by_id)]

StoreInv == StoreTyped /\ PairsLead /\ ListsLead

Label == {"idle", "user", "membership", "user first", "membership first",
          "verified", "counting"}

LocalsTyped ==
  /\ pc \in [Task -> Label]
  /\ about = [t \in Task |-> about[t]]
  /\ user_copy = [t \in Task |-> user_copy[t]]
  /\ copies = [t \in Task |-> copies[t]]

(* What a user and a set of memberships permit, by the two decisions. *)
Granted(verified, memberships) ==
  {p \in Permission :
     \E m \in memberships :
       /\ m.status = "active"
       /\ p \in ROLE_PERMISSIONS[m.role]
       /\ p \in SOFT_GATED_PERMISSIONS => verified}

OneKept(t) == ~({"user", "membership"} \subseteq between[t])

(* A request that has looked its user up. *)
UserLooked(t) ==
  pc[t] = "user" =>
    LET u == about[t][1]
        n == about[t][2]
    IN /\ u \in DOMAIN users_by_id
       /\ user_copy[t] \in U!UserRecord
       /\ <<t, u>> \notin overtaken => user_copy[t] = users_by_id[u]
       /\ "user" \notin between[t] => user_copy[t] = users_by_id[u]
       /\ "taken back" \notin between[t] /\ user_copy[t].email_verified =>
            users_by_id[u].email_verified
       /\ Held(u, n) \in moments[t]
       /\ OneKept(t) =>
            Granted(user_copy[t].email_verified, MembershipOf(u, n))
              \in moments[t]

(* A request that has looked the membership up. *)
MembershipLooked(t) ==
  pc[t] = "membership" =>
    LET u == about[t][1]
        n == about[t][2]
        i == M!GetByUserAndTenant(u, n)
        m == copies[t][i]
    IN /\ <<u, n>> \in DOMAIN membership_id_by_user_tenant
       /\ i # None
       /\ DOMAIN copies[t] = {i}
       /\ m \in M!Membership
       /\ m.user_id = u
       /\ <<t, i>> \notin overtaken => m = memberships_by_id[i]
       /\ "membership" \notin between[t] => m = memberships_by_id[i]
       /\ Held(u, n) \in moments[t]
       /\ OneKept(t) => Granted(users_by_id[u].email_verified, {m})
                          \in moments[t]

(* A request that has both can be told what was held.                      *)
BothLooked(t) ==
  /\ pc[t] \in Both /\ OneKept(t) => Answer(t) \in moments[t]
  /\ pc[t] = "user first" /\ "taken back" \notin between[t] =>
       \E held \in moments[t] : Answer(t) \subseteq held

(* A request that counts a verification. *)
Counting(t) ==
  pc[t] = "counting" => \A i \in DOMAIN copies[t] :
    /\ i \in DOMAIN memberships_by_id
    /\ copies[t][i] \in M!Membership
    /\ <<t, i>> \notin overtaken => copies[t][i] = memberships_by_id[i]

Knows(t) ==
  /\ UserLooked(t)
  /\ MembershipLooked(t)
  /\ BothLooked(t)
  /\ Counting(t)

AccountsInv ==
  /\ StoreInv
  /\ LocalsTyped
  /\ \A t \in Task : Knows(t)

-----------------------------------------------------------------------------
(* What the requests that do not act know *)

(* No call removes a record, or leads a pair to another membership. *)
StoreGrows ==
  /\ DOMAIN users_by_id \subseteq DOMAIN users_by_id'
  /\ DOMAIN memberships_by_id \subseteq DOMAIN memberships_by_id'
  /\ \A key \in DOMAIN membership_id_by_user_tenant :
       /\ key \in DOMAIN membership_id_by_user_tenant'
       /\ membership_id_by_user_tenant'[key] = membership_id_by_user_tenant[key]

Rests(t) ==
  /\ pc'[t] = pc[t] /\ about'[t] = about[t]
  /\ user_copy'[t] = user_copy[t] /\ copies'[t] = copies[t]

(* The two halves of what a request is about. *)
LEMMA PairHalves ==
  ASSUME NEW pair, NEW u, NEW n, pair = <<u, n>>
  PROVE  pair[1] = u /\ pair[2] = n
  OBVIOUS

(* What is held is what the stored records permit. *)
LEMMA HeldIsGranted ==
  ASSUME NEW u, NEW n
  PROVE  Held(u, n) = Granted(users_by_id[u].email_verified, MembershipOf(u, n))
  BY DEF Held, Granted

(* And so it is after the step. *)
LEMMA HeldIsGrantedNext ==
  ASSUME NEW u, NEW n
  PROVE  Held(u, n)' =
           Granted(users_by_id'[u].email_verified, MembershipOf(u, n)')
  BY DEF Held, Granted

(* A record of which nothing is remembered has not changed. *)
LEMMA WhatIsRemembered ==
  ASSUME AccountsInv, Remember, NEW t \in Task, Rests(t),
         NEW u, NEW n, u = about[t][1], n = about[t][2]
  PROVE  /\ \A id \in User \cup MembershipId :
              id \in Holdings(t) /\ pc[t] \notin Both
                /\ <<t, id>> \notin overtaken' =>
                <<t, id>> \notin overtaken /\ id \notin Overwritten
         /\ pc[t] \in Waiting =>
              /\ moments'[t] = moments[t] \cup {Held(u, n)'}
              /\ between'[t] = between[t] \cup Changes(u, n)
         /\ pc[t] \in Both => /\ moments'[t] = moments[t]
                              /\ between'[t] = between[t]
<1>1. Holdings(t)' = Holdings(t)
  BY DEF Rests, Holdings
<1>2. \A id \in User \cup MembershipId : <<t, id>>[1] = t /\ <<t, id>>[2] = id
  OBVIOUS
<1>3. ASSUME NEW id \in User \cup MembershipId, id \in Holdings(t),
             pc[t] \notin Both, <<t, id>> \notin overtaken'
      PROVE  <<t, id>> \notin overtaken /\ id \notin Overwritten
  <2> DEFINE p == <<t, id>>
  <2>1. p \in Task \X (User \cup MembershipId) /\ p[1] = t /\ p[2] = id
    OBVIOUS
  <2>2. pc'[t] \notin Both
    BY <1>3 DEF Rests
  <2> HIDE DEF p
  <2>3. ~(p \in overtaken \/ p[2] \in Overwritten)
    BY <1>1, <1>3, <2>1, <2>2 DEF Remember, p
  <2> QED
    BY <2>1, <2>3 DEF p
<1>4. /\ moments'[t] = IF pc'[t] \in Waiting
                       THEN moments[t] \cup {Held(u, n)'}
                       ELSE IF pc'[t] \in Both THEN moments[t] ELSE {}
      /\ between'[t] = IF pc[t] \in Waiting /\ pc'[t] = pc[t]
                       THEN between[t] \cup Changes(u, n)
                       ELSE IF pc'[t] \in Both THEN between[t] ELSE {}
  <2>1. Held(about[t][1], about[t][2])' = Held(u, n)'
    BY DEF Rests, Held, MembershipOf, M!GetByUserAndTenant
  <2> QED
    BY <2>1 DEF Remember
<1>5. Waiting \cap Both = {}
  BY DEF Waiting, Both
<1>6. pc[t] \in Waiting =>
        /\ moments'[t] = moments[t] \cup {Held(u, n)'}
        /\ between'[t] = between[t] \cup Changes(u, n)
  BY <1>4 DEF Rests
<1>7. pc[t] \in Both => moments'[t] = moments[t] /\ between'[t] = between[t]
  BY <1>4, <1>5 DEF Rests
<1> QED
  BY <1>3, <1>6, <1>7

(* A user that is not among the changes is the same. *)
LEMMA UserUnchanged ==
  ASSUME StoreGrows, NEW u \in DOMAIN users_by_id, NEW n
  PROVE  /\ "user" \notin Changes(u, n) => users_by_id'[u] = users_by_id[u]
         /\ "taken back" \notin Changes(u, n) /\ users_by_id[u].email_verified
              => users_by_id'[u].email_verified
<1>1. UserOf(u) = {users_by_id[u]} /\ UserOf(u)' = {users_by_id'[u]}
  BY DEF UserOf, StoreGrows
<1> QED
  BY <1>1 DEF Changes

(* Nor is a membership. *)
LEMMA MembershipUnchanged ==
  ASSUME StoreGrows, NEW u, NEW n
  PROVE  /\ "membership" \notin Changes(u, n) =>
              MembershipOf(u, n)' = MembershipOf(u, n)
         /\ <<u, n>> \in DOMAIN membership_id_by_user_tenant =>
              /\ M!GetByUserAndTenant(u, n)' = M!GetByUserAndTenant(u, n)
              /\ M!GetByUserAndTenant(u, n) # None =>
                   /\ MembershipOf(u, n) =
                        {memberships_by_id[M!GetByUserAndTenant(u, n)]}
                   /\ MembershipOf(u, n)' =
                        {memberships_by_id'[M!GetByUserAndTenant(u, n)]}
<1>1. "membership" \notin Changes(u, n) =>
        MembershipOf(u, n)' = MembershipOf(u, n)
  BY DEF Changes
<1>2. <<u, n>> \in DOMAIN membership_id_by_user_tenant =>
        M!GetByUserAndTenant(u, n)' = M!GetByUserAndTenant(u, n)
  BY DEF StoreGrows, M!GetByUserAndTenant
<1> QED
  BY <1>1, <1>2 DEF MembershipOf

(* A request that rests after the first lookup, of the user. *)
LEMMA UserLookedStill ==
  ASSUME AccountsInv, StoreGrows, Remember, NEW t \in Task, Rests(t)
  PROVE  UserLooked(t)'
<1> SUFFICES ASSUME pc'[t] = "user" PROVE UserLooked(t)'
  BY DEF UserLooked
<1>1. PICK u, n : u = about[t][1] /\ n = about[t][2]
  OBVIOUS
<1>2. /\ pc[t] = "user" /\ about'[t] = about[t]
      /\ user_copy'[t] = user_copy[t]
  BY DEF Rests
<1>3. /\ u \in DOMAIN users_by_id
      /\ user_copy[t] \in U!UserRecord
      /\ <<t, u>> \notin overtaken => user_copy[t] = users_by_id[u]
      /\ "user" \notin between[t] => user_copy[t] = users_by_id[u]
      /\ "taken back" \notin between[t] /\ user_copy[t].email_verified =>
           users_by_id[u].email_verified
      /\ OneKept(t) =>
           Granted(user_copy[t].email_verified, MembershipOf(u, n))
             \in moments[t]
  BY <1>1, <1>2 DEF AccountsInv, Knows, UserLooked
<1>4. /\ moments'[t] = moments[t] \cup {Held(u, n)'}
      /\ between'[t] = between[t] \cup Changes(u, n)
      /\ <<t, u>> \notin overtaken' =>
           <<t, u>> \notin overtaken /\ u \notin Overwritten
  <2>1. u \in Holdings(t) /\ pc[t] \notin Both /\ pc[t] \in Waiting
    BY <1>1, <1>2 DEF Holdings, HoldsUser, Both, Waiting
  <2>2. u \in User \cup MembershipId
    BY <1>3 DEF AccountsInv, StoreInv, StoreTyped
  <2> QED
    BY <1>1, <2>1, <2>2, WhatIsRemembered
<1>5. /\ "user" \notin Changes(u, n) => users_by_id'[u] = users_by_id[u]
      /\ "taken back" \notin Changes(u, n) /\ users_by_id[u].email_verified
           => users_by_id'[u].email_verified
  BY <1>3, UserUnchanged
<1>6. u \in DOMAIN users_by_id'
  BY <1>3 DEF StoreGrows
<1>7. <<t, u>> \notin overtaken' => user_copy[t] = users_by_id'[u]
  BY <1>3, <1>4 DEF Overwritten
<1>8. "user" \notin between'[t] => user_copy[t] = users_by_id'[u]
  BY <1>3, <1>4, <1>5
<1>9. "taken back" \notin between'[t] /\ user_copy[t].email_verified =>
        users_by_id'[u].email_verified
  BY <1>3, <1>4, <1>5
<1>10. OneKept(t)' =>
         Granted(user_copy[t].email_verified, MembershipOf(u, n)')
           \in moments'[t]
  <2>1. CASE "user" \notin between'[t]
    BY <1>4, <1>8, <2>1, HeldIsGrantedNext
  <2>2. CASE "membership" \notin between'[t]
    <3>1. MembershipOf(u, n)' = MembershipOf(u, n)
      BY <1>4, <2>2, MembershipUnchanged
    <3>2. OneKept(t)
      BY <1>4, <2>2 DEF OneKept
    <3> QED
      BY <1>3, <1>4, <3>1, <3>2
  <2> QED
    BY <2>1, <2>2 DEF OneKept
<1>11. Held(u, n)' \in moments'[t]
  BY <1>4
<1>12. /\ Granted(user_copy[t].email_verified, MembershipOf(u, n))' =
            Granted(user_copy'[t].email_verified, MembershipOf(u, n)')
  BY DEF Granted
<1> QED
  BY <1>1, <1>2, <1>3, <1>6, <1>7, <1>8, <1>9, <1>10, <1>11
     DEF UserLooked, Granted

(* A request that rests after the first lookup, of the membership. *)
LEMMA MembershipLookedStill ==
  ASSUME AccountsInv, StoreGrows, Remember, NEW t \in Task, Rests(t)
  PROVE  MembershipLooked(t)'
<1> SUFFICES ASSUME pc'[t] = "membership" PROVE MembershipLooked(t)'
  BY DEF MembershipLooked
<1>1. PICK u, n : u = about[t][1] /\ n = about[t][2]
  OBVIOUS
<1> DEFINE i == M!GetByUserAndTenant(u, n)
           m == copies[t][i]
<1>2. pc[t] = "membership" /\ about'[t] = about[t] /\ copies'[t] = copies[t]
  BY DEF Rests
<1>3. /\ <<u, n>> \in DOMAIN membership_id_by_user_tenant
      /\ i # None
      /\ DOMAIN copies[t] = {i}
      /\ m \in M!Membership
      /\ m.user_id = u
      /\ <<t, i>> \notin overtaken => m = memberships_by_id[i]
      /\ "membership" \notin between[t] => m = memberships_by_id[i]
      /\ OneKept(t) => Granted(users_by_id[u].email_verified, {m})
                         \in moments[t]
  BY <1>1, <1>2 DEF AccountsInv, Knows, MembershipLooked
<1>4. i \in DOMAIN memberships_by_id /\ u \in DOMAIN users_by_id
  BY <1>3 DEF AccountsInv, StoreInv, PairsLead, M!GetByUserAndTenant
<1>5. /\ i' = i
      /\ MembershipOf(u, n) = {memberships_by_id[i]}
      /\ MembershipOf(u, n)' = {memberships_by_id'[i]}
      /\ "membership" \notin Changes(u, n) =>
           MembershipOf(u, n)' = MembershipOf(u, n)
  BY <1>3, MembershipUnchanged
<1> HIDE DEF i
<1>6. /\ moments'[t] = moments[t] \cup {Held(u, n)'}
      /\ between'[t] = between[t] \cup Changes(u, n)
      /\ <<t, i>> \notin overtaken' =>
           <<t, i>> \notin overtaken /\ i \notin Overwritten
  <2>1. i \in Holdings(t) /\ pc[t] \notin Both /\ pc[t] \in Waiting
    BY <1>2, <1>3 DEF Holdings, Both, Waiting
  <2>2. i \in User \cup MembershipId
    BY <1>4 DEF AccountsInv, StoreInv, StoreTyped
  <2> QED
    BY <1>1, <2>1, <2>2, WhatIsRemembered
<1>7. <<t, i>> \notin overtaken' => m = memberships_by_id'[i]
  BY <1>3, <1>4, <1>6 DEF Overwritten
<1>8. "membership" \notin between'[t] => m = memberships_by_id'[i]
  BY <1>3, <1>5, <1>6
<1>9. OneKept(t)' => Granted(users_by_id'[u].email_verified, {m})
                       \in moments'[t]
  <2>1. CASE "membership" \notin between'[t]
    BY <1>5, <1>6, <1>8, <2>1, HeldIsGrantedNext
  <2>2. CASE "user" \notin between'[t]
    <3>1. users_by_id'[u] = users_by_id[u]
      BY <1>4, <1>6, <2>2, UserUnchanged
    <3>2. OneKept(t)
      BY <1>6, <2>2 DEF OneKept
    <3> QED
      BY <1>3, <1>6, <3>1, <3>2
  <2> QED
    BY <2>1, <2>2 DEF OneKept
<1>10. Held(u, n)' \in moments'[t]
  BY <1>6
<1>11. <<u, n>> \in DOMAIN membership_id_by_user_tenant'
  BY <1>3 DEF StoreGrows
<1>12. /\ i' = M!GetByUserAndTenant(u, n)'
       /\ M!GetByUserAndTenant(u, n)' = i
  BY <1>5 DEF i
<1>13. Held(about[t][1], about[t][2])' = Held(u, n)'
  BY <1>1, <1>2 DEF Held, MembershipOf, M!GetByUserAndTenant
<1>14. M!GetByUserAndTenant(about[t][1], about[t][2])' = i
  BY <1>1, <1>2, <1>12 DEF M!GetByUserAndTenant
<1> QED
  BY <1>1, <1>2, <1>3, <1>7, <1>8, <1>9, <1>10, <1>11, <1>13, <1>14
     DEF MembershipLooked, Granted, m

(* A request that rests with both copies is told what it would be before. *)
LEMMA BothLookedStill ==
  ASSUME AccountsInv, Remember, NEW t \in Task, Rests(t)
  PROVE  BothLooked(t)'
<1> SUFFICES ASSUME pc'[t] \in Both PROVE BothLooked(t)'
  BY DEF BothLooked, Both
<1>1. pc[t] \in Both /\ pc'[t] = pc[t]
  BY DEF Rests
<1>2. moments'[t] = moments[t] /\ between'[t] = between[t]
  BY <1>1, WhatIsRemembered
<1>3. Answer(t)' = Answer(t)
  BY DEF Rests, Answer
<1>4. BothLooked(t)
  BY DEF AccountsInv, Knows
<1> QED
  BY <1>1, <1>2, <1>3, <1>4 DEF BothLooked, OneKept

(* A request that rests while it counts. *)
LEMMA CountingStill ==
  ASSUME AccountsInv, StoreGrows, Remember, NEW t \in Task, Rests(t)
  PROVE  Counting(t)'
<1> SUFFICES ASSUME pc'[t] = "counting", NEW i \in DOMAIN copies'[t]
             PROVE  /\ i \in DOMAIN memberships_by_id'
                    /\ copies'[t][i] \in M!Membership
                    /\ <<t, i>> \notin overtaken' =>
                         copies'[t][i] = memberships_by_id'[i]
  BY DEF Counting
<1>1. pc[t] = "counting" /\ copies'[t] = copies[t] /\ i \in DOMAIN copies[t]
  BY DEF Rests
<1>2. /\ i \in DOMAIN memberships_by_id
      /\ copies[t][i] \in M!Membership
      /\ <<t, i>> \notin overtaken => copies[t][i] = memberships_by_id[i]
  BY <1>1 DEF AccountsInv, Knows, Counting
<1>3. <<t, i>> \notin overtaken' =>
        <<t, i>> \notin overtaken /\ i \notin Overwritten
  <2>1. i \in Holdings(t) /\ pc[t] \notin Both
    BY <1>1 DEF Holdings, Both
  <2>2. i \in User \cup MembershipId
    BY <1>2 DEF AccountsInv, StoreInv, StoreTyped
  <2> QED
    BY <2>1, <2>2, WhatIsRemembered
<1> QED
  BY <1>1, <1>2, <1>3 DEF StoreGrows, Overwritten

(* What a request knows that rests. *)
LEMMA KnowsStill ==
  ASSUME AccountsInv, StoreGrows, Remember, NEW t \in Task, Rests(t)
  PROVE  Knows(t)'
  BY UserLookedStill, MembershipLookedStill, BothLookedStill, CountingStill
     DEF Knows

(* A request that has forgotten its copies, or marked its user verified,   *)
(* has nothing to know.                                                    *)
LEMMA NothingToKnow ==
  ASSUME NEW t \in Task, pc'[t] \in {"idle", "verified"}
  PROVE  Knows(t)'
  BY DEF Knows, UserLooked, MembershipLooked, BothLooked, Counting, Both

(* An action of one request as the others see it. *)
LEMMA AccountsGoto ==
  ASSUME LocalsTyped, NEW t \in Task, NEW label \in Label, NEW pair, NEW user,
         NEW members, Goto(t, label, pair, user, members)
  PROVE  /\ pc'[t] = label /\ about'[t] = pair
         /\ user_copy'[t] = user /\ copies'[t] = members
         /\ \A s \in Task \ {t} : Rests(s)
         /\ LocalsTyped'
<1>1. /\ pc' = [pc EXCEPT ![t] = label]
      /\ about' = [about EXCEPT ![t] = pair]
      /\ user_copy' = [user_copy EXCEPT ![t] = user]
      /\ copies' = [copies EXCEPT ![t] = members]
  BY DEF Goto
<1>2. pc' \in [Task -> Label] /\ pc'[t] = label
  BY <1>1 DEF LocalsTyped
<1>3. /\ about'[t] = pair /\ about' = [s \in Task |-> about'[s]]
      /\ user_copy'[t] = user /\ user_copy' = [s \in Task |-> user_copy'[s]]
      /\ copies'[t] = members /\ copies' = [s \in Task |-> copies'[s]]
  BY <1>1 DEF LocalsTyped
<1>4. \A s \in Task \ {t} : Rests(s)
  BY <1>1 DEF LocalsTyped, Rests
<1> QED
  BY <1>2, <1>3, <1>4 DEF LocalsTyped

(* The invariant after a step of one request. *)
LEMMA OneRequestMoves ==
  ASSUME AccountsInv, StoreInv', StoreGrows, Remember, LocalsTyped',
         NEW t \in Task, \A s \in Task \ {t} : Rests(s), Knows(t)'
  PROVE  AccountsInv'
<1>1. ASSUME NEW s \in Task PROVE Knows(s)'
  BY <1>1, KnowsStill
<1> QED
  BY <1>1 DEF AccountsInv

(* A step that leaves the store alone. *)
LEMMA StoreStays ==
  ASSUME AccountsInv, UNCHANGED <<userVars, memberVars>>
  PROVE  StoreInv' /\ StoreGrows
<1>1. UNCHANGED <<users_by_id, memberships_by_id, membership_id_by_user_tenant,
                  membership_ids_by_user>>
  BY DEF userVars, memberVars
<1>2. StoreGrows
  BY <1>1 DEF StoreGrows
<1>3. StoreTyped' /\ PairsLead' /\ ListsLead'
  BY <1>1 DEF AccountsInv, StoreInv, StoreTyped, PairsLead, ListsLead
<1> QED
  BY <1>2, <1>3 DEF StoreInv

(* The first request finds an empty store and nobody holding a copy. *)
LEMMA InitAccountsInv == AccountsInit => AccountsInv
<1> SUFFICES ASSUME AccountsInit PROVE AccountsInv
  OBVIOUS
<1>1. /\ users_by_id = <<>> /\ DOMAIN users_by_id = {}
      /\ memberships_by_id = <<>> /\ DOMAIN memberships_by_id = {}
      /\ DOMAIN membership_id_by_user_tenant = {}
      /\ membership_ids_by_user = <<>> /\ DOMAIN membership_ids_by_user = {}
      /\ pc = [t \in Task |-> "idle"]
      /\ about = [t \in Task |-> <<None, None>>]
      /\ user_copy = [t \in Task |-> None]
      /\ copies = [t \in Task |-> <<>>]
  BY DEF AccountsInit, U!Init, M!Init
<1>2. StoreInv
  BY <1>1 DEF StoreInv, StoreTyped, PairsLead, ListsLead
<1>3. LocalsTyped
  BY <1>1 DEF LocalsTyped, Label
<1>4. \A t \in Task : Knows(t)
  BY <1>1 DEF Knows, UserLooked, MembershipLooked, BothLooked, Counting, Both
<1> QED
  BY <1>2, <1>3, <1>4 DEF AccountsInv

-----------------------------------------------------------------------------
(* Requests of one call *)

(* A new user, whose record EmailStr has validated. *)
LEMMA SignUpKeepsAccountsInv ==
  ASSUME AccountsInv, NEW u \in User, NEW e \in Spelling, NEW p \in Password,
         SignUp(u, e, p), Remember
  PROVE  AccountsInv'
<1> DEFINE user == U!NewUser(e, p)
<1>1. /\ u \notin DOMAIN users_by_id
      /\ EmailStr[NormalForm[e]] # None
      /\ users_by_id' = U!Put(users_by_id, u, user)
      /\ UNCHANGED <<memberships_by_id, membership_id_by_user_tenant,
                     membership_ids_by_user, pc, about, user_copy, copies>>
  BY DEF SignUp, U!Create, U!normalise_email, memberVars, locals
<1>2. user \in U!UserRecord
  <2>1. EmailStr[NormalForm[e]] \in U!Address
    BY <1>1, NormalFormAssumption DEF U!Address
  <2> QED
    BY <2>1 DEF U!NewUser, U!UserRecord, U!normalise_email
<1> HIDE DEF user
<1>3. /\ DOMAIN users_by_id' = DOMAIN users_by_id \cup {u}
      /\ users_by_id' \in [DOMAIN users_by_id' -> U!UserRecord]
  BY <1>1, <1>2 DEF U!Put, AccountsInv, StoreInv, StoreTyped
<1>4. StoreInv'
  BY <1>1, <1>3 DEF AccountsInv, StoreInv, StoreTyped, PairsLead, ListsLead
<1>5. StoreGrows
  BY <1>1, <1>3 DEF StoreGrows
<1>6. LocalsTyped' /\ \A t \in Task : Rests(t)
  BY <1>1 DEF AccountsInv, LocalsTyped, Rests
<1>7. \A t \in Task : Knows(t)'
  BY <1>5, <1>6, KnowsStill
<1> QED
  BY <1>4, <1>6, <1>7 DEF AccountsInv

(* A new membership, its pair, and its place in its user's list. *)
LEMMA JoinKeepsAccountsInv ==
  ASSUME AccountsInv, NEW i \in MembershipId, NEW u \in User, NEW n \in Tenant,
         NEW role \in Role, Join(i, u, n, role), Remember
  PROVE  AccountsInv'
<1> DEFINE m == M!NewMembership(u, n, role)
<1>1. /\ u \in DOMAIN users_by_id
      /\ i \notin DOMAIN memberships_by_id
      /\ <<u, n>> \notin DOMAIN membership_id_by_user_tenant
      /\ memberships_by_id' = M!Put(memberships_by_id, i, m)
      /\ membership_id_by_user_tenant' =
           M!Put(membership_id_by_user_tenant, <<u, n>>, i)
      /\ membership_ids_by_user' =
           M!Put(membership_ids_by_user, u, Append(M!IdsOfUser(u), i))
      /\ UNCHANGED <<users_by_id, pc, about, user_copy, copies>>
  BY DEF Join, M!Create, userVars, locals
<1>2. m \in M!Membership /\ m.user_id = u
  BY MaxVersionAssumption DEF M!NewMembership, M!Membership, M!Status
<1> HIDE DEF m
<1>3. /\ DOMAIN memberships_by_id' = DOMAIN memberships_by_id \cup {i}
      /\ \A j \in DOMAIN memberships_by_id :
           memberships_by_id'[j] = memberships_by_id[j]
      /\ memberships_by_id'[i] = m
      /\ memberships_by_id' \in [DOMAIN memberships_by_id' -> M!Membership]
  BY <1>1, <1>2 DEF M!Put, AccountsInv, StoreInv, StoreTyped
<1>4. StoreTyped'
  BY <1>1, <1>3 DEF AccountsInv, StoreInv, StoreTyped
<1>5. PairsLead'
  BY <1>1, <1>2, <1>3 DEF AccountsInv, StoreInv, PairsLead, M!Put
<1>6. ListsLead'
  <2> DEFINE S == DOMAIN memberships_by_id
             list == Append(M!IdsOfUser(u), i)
  <2>1. M!IdsOfUser(u) \in Seq(S)
    <3>1. CASE u \in DOMAIN membership_ids_by_user
      BY <3>1 DEF M!IdsOfUser, AccountsInv, StoreInv, ListsLead
    <3>2. CASE u \notin DOMAIN membership_ids_by_user
      <4>1. M!IdsOfUser(u) = <<>>
        BY <3>2 DEF M!IdsOfUser
      <4> QED
        BY <4>1
    <3> QED
      BY <3>1, <3>2
  <2>2. \A q \in Seq(S) : q \in Seq(S \cup {i}) /\ Append(q, i) \in Seq(S \cup {i})
    OBVIOUS
  <2>3. list \in Seq(S \cup {i})
    BY <2>1, <2>2
  <2>4. \A v \in DOMAIN membership_ids_by_user :
          membership_ids_by_user[v] \in Seq(S \cup {i})
    BY <2>2 DEF AccountsInv, StoreInv, ListsLead
  <2> HIDE DEF list
  <2>5. membership_ids_by_user' \in
          [DOMAIN membership_ids_by_user' -> Seq(S \cup {i})]
    BY <1>1, <2>3, <2>4 DEF M!Put, list
  <2> QED
    BY <1>3, <2>5 DEF ListsLead
<1>7. StoreGrows
  BY <1>1, <1>3 DEF StoreGrows, M!Put
<1>8. LocalsTyped' /\ \A t \in Task : Rests(t)
  BY <1>1 DEF AccountsInv, LocalsTyped, Rests
<1>9. \A t \in Task : Knows(t)'
  BY <1>7, <1>8, KnowsStill
<1> QED
  BY <1>4, <1>5, <1>6, <1>8, <1>9 DEF AccountsInv, StoreInv

-----------------------------------------------------------------------------
(* Lookups *)

(* The answer is what the two copies permit. *)
LEMMA AnswerIsGranted ==
  ASSUME NEW t \in Task, NEW i, NEW m, NEW user,
         DOMAIN copies'[t] = {i}, copies'[t][i] = m, user_copy'[t] = user,
         m.user_id = about'[t][1]
  PROVE  Answer(t)' = Granted(user.email_verified, {m})
<1>1. ~Mismatched(about'[t][1], m)
  BY DEF Mismatched
<1>2. \A p : has_permission(about'[t][1], user, m, p) <=>
               /\ m.status = "active"
               /\ p \in ROLE_PERMISSIONS[m.role]
               /\ p \in SOFT_GATED_PERMISSIONS => user.email_verified
  BY <1>1 DEF has_permission, effective_permissions, permissions_for_role
<1>3. Answer(t)' = {p \in Permission :
                      \E j \in DOMAIN copies'[t] :
                        has_permission(about'[t][1], user_copy'[t],
                                       copies'[t][j], p)}
  BY DEF Answer, has_permission, Mismatched, effective_permissions
<1>4. Answer(t)' = {p \in Permission : has_permission(about'[t][1], user, m, p)}
  BY <1>3
<1> QED
  BY <1>2, <1>4 DEF Granted

(* Nothing is held that was not, in a step that leaves the store alone. *)
LEMMA HeldStays ==
  ASSUME UNCHANGED <<userVars, memberVars>>, NEW u, NEW n
  PROVE  /\ Held(u, n)' = Held(u, n)
         /\ MembershipOf(u, n)' = MembershipOf(u, n)
         /\ M!GetByUserAndTenant(u, n)' = M!GetByUserAndTenant(u, n)
  BY DEF userVars, memberVars, Held, MembershipOf, M!GetByUserAndTenant

(* What is remembered of a request in the step that is its first lookup,   *)
(* and in the one that is its second.                                      *)
LEMMA LookupRemembers ==
  ASSUME Remember, NEW t \in Task, NEW u, NEW n, about'[t] = <<u, n>>
  PROVE  /\ pc[t] = "idle" /\ pc'[t] \in Waiting =>
              Held(u, n)' \in moments'[t] /\ between'[t] = {}
         /\ pc[t] \in Waiting /\ pc'[t] \in Both =>
              moments'[t] = moments[t] /\ between'[t] = between[t]
<1>1. /\ moments'[t] = IF pc'[t] \in Waiting
                       THEN moments[t] \cup {Held(about[t][1], about[t][2])'}
                       ELSE IF pc'[t] \in Both THEN moments[t] ELSE {}
      /\ between'[t] = IF pc[t] \in Waiting /\ pc'[t] = pc[t]
                       THEN between[t] \cup Changes(about[t][1], about[t][2])
                       ELSE IF pc'[t] \in Both THEN between[t] ELSE {}
  BY DEF Remember
<1>2. Held(about[t][1], about[t][2])' = Held(u, n)'
  BY DEF Held, MembershipOf, M!GetByUserAndTenant
<1> QED
  BY <1>1, <1>2 DEF Waiting, Both

(* get_by_id(), before or after the lookup of the membership. *)
LEMMA LookupUserKeepsAccountsInv ==
  ASSUME AccountsInv, NEW t \in Task, NEW u \in User, NEW n \in Tenant,
         LookupUser(t, u, n), Remember
  PROVE  AccountsInv'
<1>1. /\ u \in DOMAIN users_by_id
      /\ UNCHANGED <<userVars, memberVars>>
  BY DEF LookupUser
<1>2. users_by_id' = users_by_id /\ users_by_id[u] \in U!UserRecord
  BY <1>1 DEF userVars, AccountsInv, StoreInv, StoreTyped
<1>3. StoreInv' /\ StoreGrows
  BY <1>1, StoreStays
<1>4. CASE /\ pc[t] = "idle"
           /\ Goto(t, "user", <<u, n>>, users_by_id[u], <<>>)
  <2>1. /\ pc'[t] = "user" /\ about'[t] = <<u, n>>
        /\ user_copy'[t] = users_by_id[u]
        /\ \A s \in Task \ {t} : Rests(s)
        /\ LocalsTyped'
    BY <1>4, AccountsGoto DEF AccountsInv, Label
  <2>2. Held(u, n)' \in moments'[t] /\ between'[t] = {}
    BY <1>4, <2>1, LookupRemembers DEF Waiting
  <2>3. Granted(users_by_id'[u].email_verified, MembershipOf(u, n)')
          \in moments'[t]
    BY <2>2, HeldIsGrantedNext
  <2>4. Held(about[t][1], about[t][2])' = Held(u, n)'
    BY <2>1 DEF Held, MembershipOf, M!GetByUserAndTenant
  <2>5. MembershipOf(about[t][1], about[t][2])' = MembershipOf(u, n)'
    BY <2>1 DEF MembershipOf, M!GetByUserAndTenant
  <2>6. Granted(user_copy[t].email_verified,
                MembershipOf(about[t][1], about[t][2]))' =
          Granted(users_by_id'[u].email_verified, MembershipOf(u, n)')
    BY <1>2, <2>1, <2>5 DEF Granted
  <2>7. UserLooked(t)'
    BY <1>1, <1>2, <2>1, <2>2, <2>3, <2>4, <2>6 DEF UserLooked
  <2>8. Knows(t)'
    BY <2>1, <2>7 DEF Knows, MembershipLooked, BothLooked, Counting, Both
  <2> QED
    BY <1>3, <2>1, <2>8, OneRequestMoves
<1>5. CASE /\ pc[t] = "membership" /\ about[t] = <<u, n>>
           /\ Goto(t, "membership first", <<u, n>>, users_by_id[u], copies[t])
  <2> DEFINE i == M!GetByUserAndTenant(u, n)
             m == copies[t][i]
  <2>1. /\ pc'[t] = "membership first" /\ about'[t] = <<u, n>>
        /\ user_copy'[t] = users_by_id[u] /\ copies'[t] = copies[t]
        /\ \A s \in Task \ {t} : Rests(s)
        /\ LocalsTyped'
    BY <1>5, AccountsGoto DEF AccountsInv, Label
  <2>2. /\ DOMAIN copies[t] = {i} /\ m.user_id = u
        /\ OneKept(t) => Granted(users_by_id[u].email_verified, {m})
                           \in moments[t]
    <3>1. about[t][1] = u /\ about[t][2] = n
      BY <1>5, PairHalves
    <3>2. MembershipLooked(t) /\ pc[t] = "membership"
      BY <1>5 DEF AccountsInv, Knows
    <3> QED
      BY <3>1, <3>2 DEF MembershipLooked
  <2>3. Answer(t)' = Granted(users_by_id[u].email_verified, {m})
    <3>1. about'[t][1] = u
      BY <2>1, PairHalves
    <3>2. PICK j, row, user : j = i /\ row = m /\ user = users_by_id[u]
      OBVIOUS
    <3>3. /\ DOMAIN copies'[t] = {j} /\ copies'[t][j] = row
          /\ user_copy'[t] = user /\ row.user_id = about'[t][1]
      BY <2>1, <2>2, <3>1, <3>2
    <3> HIDE DEF i, m
    <3>4. Answer(t)' = Granted(user.email_verified, {row})
      BY <3>3, AnswerIsGranted
    <3> QED
      BY <3>2, <3>4
  <2>4. moments'[t] = moments[t] /\ between'[t] = between[t]
    BY <1>5, <2>1, LookupRemembers DEF Waiting, Both
  <2>5. BothLooked(t)'
    BY <2>1, <2>2, <2>3, <2>4 DEF BothLooked, OneKept
  <2>6. Knows(t)'
    BY <2>1, <2>5 DEF Knows, UserLooked, MembershipLooked, Counting
  <2> QED
    BY <1>3, <2>1, <2>6, OneRequestMoves
<1> QED
  BY <1>4, <1>5 DEF LookupUser

(* get_by_user_and_tenant(), before or after the lookup of the user. *)
LEMMA LookupMembershipKeepsAccountsInv ==
  ASSUME AccountsInv, NEW t \in Task, NEW u \in User, NEW n \in Tenant,
         LookupMembership(t, u, n), Remember
  PROVE  AccountsInv'
<1> DEFINE i == M!GetByUserAndTenant(u, n)
           m == memberships_by_id[i]
           found == Only(i, m)
<1>1. i # None /\ UNCHANGED <<userVars, memberVars>>
  BY DEF LookupMembership
<1>2. /\ <<u, n>> \in DOMAIN membership_id_by_user_tenant
      /\ i = membership_id_by_user_tenant[<<u, n>>]
  BY <1>1 DEF M!GetByUserAndTenant
<1>3. /\ i \in DOMAIN memberships_by_id /\ m.user_id = u
      /\ m \in M!Membership
  BY <1>2 DEF AccountsInv, StoreInv, PairsLead, StoreTyped
<1>4. /\ DOMAIN found = {i} /\ found[i] = m
      /\ MembershipOf(u, n) = {m}
  BY <1>1 DEF Only, MembershipOf
<1>5. StoreInv' /\ StoreGrows
  BY <1>1, StoreStays
<1>6. /\ memberships_by_id' = memberships_by_id /\ users_by_id' = users_by_id
      /\ membership_id_by_user_tenant' = membership_id_by_user_tenant
      /\ i' = i
  BY <1>1, HeldStays DEF memberVars, userVars
<1>7. \/ pc[t] = "idle" /\ Goto(t, "membership", <<u, n>>, None, found)
      \/ /\ pc[t] = "user" /\ about[t] = <<u, n>>
         /\ Goto(t, "user first", <<u, n>>, user_copy[t], found)
  BY DEF LookupMembership
<1> HIDE DEF i, found
<1>8. CASE pc[t] = "idle" /\ Goto(t, "membership", <<u, n>>, None, found)
  <2>1. /\ pc'[t] = "membership" /\ about'[t] = <<u, n>>
        /\ copies'[t] = found
        /\ \A s \in Task \ {t} : Rests(s)
        /\ LocalsTyped'
    BY <1>8, AccountsGoto DEF AccountsInv, Label
  <2>2. Held(u, n)' \in moments'[t] /\ between'[t] = {}
    BY <1>8, <2>1, LookupRemembers DEF Waiting
  <2>3. MembershipOf(u, n)' = {m}
    BY <1>1, <1>4, HeldStays
  <2>4. Granted(users_by_id'[u].email_verified, {m}) \in moments'[t]
    BY <2>2, <2>3, HeldIsGrantedNext
  <2>5. Held(about[t][1], about[t][2])' = Held(u, n)'
    BY <2>1 DEF Held, MembershipOf, M!GetByUserAndTenant
  <2>6. M!GetByUserAndTenant(about[t][1], about[t][2])' = i
    BY <1>6, <2>1 DEF M!GetByUserAndTenant, i
  <2>7. Granted(users_by_id[about[t][1]].email_verified,
                {copies[t][M!GetByUserAndTenant(about[t][1],
                                                about[t][2])]})' =
          Granted(users_by_id'[u].email_verified, {m})
    BY <1>4, <2>1, <2>6 DEF Granted
  <2>8. MembershipLooked(t)'
    BY <1>1, <1>2, <1>3, <1>4, <1>6, <2>1, <2>2, <2>4, <2>5, <2>6, <2>7
       DEF MembershipLooked
  <2>9. Knows(t)'
    BY <2>1, <2>8 DEF Knows, UserLooked, BothLooked, Counting, Both
  <2> QED
    BY <1>5, <2>1, <2>9, OneRequestMoves
<1>9. CASE /\ pc[t] = "user" /\ about[t] = <<u, n>>
           /\ Goto(t, "user first", <<u, n>>, user_copy[t], found)
  <2> DEFINE verified == user_copy[t].email_verified
  <2>1. /\ pc'[t] = "user first" /\ about'[t] = <<u, n>>
        /\ user_copy'[t] = user_copy[t] /\ copies'[t] = found
        /\ \A s \in Task \ {t} : Rests(s)
        /\ LocalsTyped'
    BY <1>9, AccountsGoto DEF AccountsInv, Label
  <2>2. /\ "taken back" \notin between[t] /\ verified =>
             users_by_id[u].email_verified
        /\ Held(u, n) \in moments[t]
        /\ OneKept(t) => Granted(verified, {m}) \in moments[t]
    <3>1. about[t][1] = u /\ about[t][2] = n
      BY <1>9, PairHalves
    <3>2. UserLooked(t) /\ pc[t] = "user"
      BY <1>9 DEF AccountsInv, Knows
    <3> QED
      BY <1>4, <3>1, <3>2 DEF UserLooked
  <2>3. Answer(t)' = Granted(verified, {m})
    <3>1. about'[t][1] = u
      BY <2>1, PairHalves
    <3>2. PICK j, row, user : j = i /\ row = m /\ user = user_copy[t]
      OBVIOUS
    <3>3. /\ DOMAIN copies'[t] = {j} /\ copies'[t][j] = row
          /\ user_copy'[t] = user /\ row.user_id = about'[t][1]
      BY <1>3, <1>4, <2>1, <3>1, <3>2
    <3> HIDE DEF m
    <3>4. Answer(t)' = Granted(user.email_verified, {row})
      BY <3>3, AnswerIsGranted
    <3> QED
      BY <3>2, <3>4
  <2>4. moments'[t] = moments[t] /\ between'[t] = between[t]
    BY <1>9, <2>1, LookupRemembers DEF Waiting, Both
  <2>5. Held(u, n) = Granted(users_by_id[u].email_verified, {m})
    BY <1>4, HeldIsGranted
  <2>6. "taken back" \notin between[t] => Answer(t)' \subseteq Held(u, n)
    BY <2>2, <2>3, <2>5 DEF Granted
  <2>7. BothLooked(t)'
    BY <2>1, <2>2, <2>3, <2>4, <2>6 DEF BothLooked, OneKept
  <2>8. Knows(t)'
    BY <2>1, <2>7 DEF Knows, UserLooked, MembershipLooked, Counting
  <2> QED
    BY <1>5, <2>1, <2>8, OneRequestMoves
<1> QED
  BY <1>7, <1>8, <1>9

(* get_memberships_for_user(), after the user has been marked verified. *)
LEMMA LookupMembershipsKeepsAccountsInv ==
  ASSUME AccountsInv, NEW t \in Task, LookupMemberships(t), Remember
  PROVE  AccountsInv'
<1> DEFINE ids == M!IdsOfUser(about[t][1])
           found == {ids[k] : k \in DOMAIN ids}
           taken == [i \in found |-> memberships_by_id[i]]
<1>1. /\ UNCHANGED <<userVars, memberVars>>
      /\ \/ Forget(t)
         \/ Goto(t, "counting", about[t], None, taken)
  BY DEF LookupMemberships
<1>2. StoreInv' /\ StoreGrows /\ memberships_by_id' = memberships_by_id
  BY <1>1, StoreStays DEF memberVars
<1>3. found \subseteq DOMAIN memberships_by_id
  <2> SUFFICES ASSUME NEW k \in DOMAIN ids
               PROVE  ids[k] \in DOMAIN memberships_by_id
    OBVIOUS
  <2>1. CASE about[t][1] \in DOMAIN membership_ids_by_user
    <3>1. ids \in Seq(DOMAIN memberships_by_id)
      BY <2>1 DEF M!IdsOfUser, AccountsInv, StoreInv, ListsLead
    <3> HIDE DEF ids
    <3> QED
      BY <3>1
  <2>2. CASE about[t][1] \notin DOMAIN membership_ids_by_user
    <3>1. ids = <<>>
      BY <2>2 DEF M!IdsOfUser
    <3> QED
      BY <3>1
  <2> QED
    BY <2>1, <2>2
<1>4. \A i \in DOMAIN taken : /\ i \in DOMAIN memberships_by_id
                              /\ taken[i] = memberships_by_id[i]
                              /\ taken[i] \in M!Membership
  BY <1>3 DEF AccountsInv, StoreInv, StoreTyped
<1> HIDE DEF taken
<1>5. CASE Forget(t)
  <2>1. /\ pc'[t] = "idle" /\ LocalsTyped'
        /\ \A s \in Task \ {t} : Rests(s)
    BY <1>5, AccountsGoto DEF Forget, AccountsInv, Label
  <2> QED
    BY <1>2, <2>1, NothingToKnow, OneRequestMoves
<1>6. CASE Goto(t, "counting", about[t], None, taken)
  <2>1. /\ pc'[t] = "counting" /\ copies'[t] = taken /\ LocalsTyped'
        /\ \A s \in Task \ {t} : Rests(s)
    BY <1>6, AccountsGoto DEF AccountsInv, Label
  <2>2. Knows(t)'
    BY <1>2, <1>4, <2>1
       DEF Knows, UserLooked, MembershipLooked, BothLooked, Counting, Both
  <2> QED
    BY <1>2, <2>1, <2>2, OneRequestMoves
<1> QED
  BY <1>1, <1>5, <1>6

-----------------------------------------------------------------------------
(* Updates *)

(* A request that answers, or is cancelled, forgets its copies. *)
LEMMA ForgetKeepsAccountsInv ==
  ASSUME AccountsInv, NEW t \in Task, Forget(t),
         UNCHANGED <<userVars, memberVars>>, Remember
  PROVE  AccountsInv'
<1>1. /\ pc'[t] = "idle" /\ LocalsTyped'
      /\ \A s \in Task \ {t} : Rests(s)
  BY AccountsGoto DEF Forget, AccountsInv, Label
<1>2. StoreInv' /\ StoreGrows
  BY StoreStays
<1> QED
  BY <1>1, <1>2, NothingToKnow, OneRequestMoves

(* The update of one user. *)
LEMMA UserUpdateKeepsStore ==
  ASSUME AccountsInv, NEW u, NEW user \in U!UserRecord,
         U!Update(u, user), UNCHANGED memberVars
  PROVE  StoreInv' /\ StoreGrows
<1>1. /\ u \in DOMAIN users_by_id
      /\ users_by_id' = [users_by_id EXCEPT ![u] = user]
      /\ UNCHANGED <<memberships_by_id, membership_id_by_user_tenant,
                     membership_ids_by_user>>
  BY DEF U!Update, memberVars
<1>2. /\ DOMAIN users_by_id' = DOMAIN users_by_id
      /\ users_by_id' \in [DOMAIN users_by_id' -> U!UserRecord]
  BY <1>1 DEF AccountsInv, StoreInv, StoreTyped
<1>3. StoreTyped' /\ PairsLead' /\ ListsLead'
  BY <1>1, <1>2 DEF AccountsInv, StoreInv, StoreTyped, PairsLead, ListsLead
<1> QED
  BY <1>1, <1>2, <1>3 DEF StoreInv, StoreGrows

(* The update of one membership. *)
LEMMA MembershipUpdateKeepsStore ==
  ASSUME AccountsInv, NEW i, NEW m \in M!Membership,
         M!Update(i, m), UNCHANGED userVars
  PROVE  StoreInv' /\ StoreGrows
<1>1. /\ i \in DOMAIN memberships_by_id
      /\ memberships_by_id[i].user_id = m.user_id
      /\ memberships_by_id' = [memberships_by_id EXCEPT ![i] = m]
      /\ UNCHANGED <<users_by_id, membership_id_by_user_tenant,
                     membership_ids_by_user>>
  BY DEF M!Update, M!indexes, userVars
<1>2. /\ DOMAIN memberships_by_id' = DOMAIN memberships_by_id
      /\ \A j \in DOMAIN memberships_by_id :
           memberships_by_id'[j].user_id = memberships_by_id[j].user_id
      /\ memberships_by_id' \in [DOMAIN memberships_by_id' -> M!Membership]
  BY <1>1 DEF AccountsInv, StoreInv, StoreTyped
<1>3. StoreTyped' /\ ListsLead'
  BY <1>1, <1>2 DEF AccountsInv, StoreInv, StoreTyped, ListsLead
<1>4. PairsLead'
  BY <1>1, <1>2 DEF AccountsInv, StoreInv, PairsLead
<1> QED
  BY <1>1, <1>2, <1>3, <1>4 DEF StoreInv, StoreGrows

(* The two updates of a user there are. *)
LEMMA UserUpdatesTyped ==
  ASSUME NEW user \in U!UserRecord
  PROVE  /\ [user EXCEPT !.email_verified = TRUE] \in U!UserRecord
         /\ \A p \in Password :
              [user EXCEPT !.password_hash = p] \in U!UserRecord
  BY DEF U!UserRecord

(* A change of the password of a user. *)
LEMMA ChangePasswordKeepsAccountsInv ==
  ASSUME AccountsInv, NEW t \in Task, NEW p \in Password,
         ChangePassword(t, p), Remember
  PROVE  AccountsInv'
<1>1. user_copy[t] \in U!UserRecord
  BY DEF ChangePassword, AccountsInv, Knows, UserLooked
<1>2. PICK user : user = [user_copy[t] EXCEPT !.password_hash = p]
  OBVIOUS
<1>3. StoreInv' /\ StoreGrows
  BY <1>1, <1>2, UserUpdatesTyped, UserUpdateKeepsStore DEF ChangePassword
<1>4. /\ pc'[t] = "idle" /\ LocalsTyped'
      /\ \A s \in Task \ {t} : Rests(s)
  BY AccountsGoto DEF ChangePassword, Forget, AccountsInv, Label
<1> QED
  BY <1>3, <1>4, NothingToKnow, OneRequestMoves

(* The flip of email_verified. *)
LEMMA VerifyKeepsAccountsInv ==
  ASSUME AccountsInv, NEW t \in Task, Verify(t), Remember
  PROVE  AccountsInv'
<1>1. user_copy[t] \in U!UserRecord
  BY DEF Verify, AccountsInv, Knows, UserLooked
<1>2. PICK user : user = [user_copy[t] EXCEPT !.email_verified = TRUE]
  OBVIOUS
<1>3. StoreInv' /\ StoreGrows
  BY <1>1, <1>2, UserUpdatesTyped, UserUpdateKeepsStore DEF Verify
<1>4. \/ Goto(t, "idle", <<None, None>>, None, <<>>)
      \/ Goto(t, "verified", about[t], None, <<>>)
  BY DEF Verify, Forget
<1>5. /\ pc'[t] \in {"idle", "verified"} /\ LocalsTyped'
      /\ \A s \in Task \ {t} : Rests(s)
  <2>1. LocalsTyped /\ "idle" \in Label /\ "verified" \in Label
    BY DEF AccountsInv, Label
  <2> QED
    BY <1>4, <2>1, AccountsGoto
<1> QED
  BY <1>3, <1>5, NothingToKnow, OneRequestMoves

(* What a change of a membership stores. *)
LEMMA ChangedMembership ==
  ASSUME NEW c \in M!Membership, NEW role \in Role,
         NEW status \in M!Status, c.permissions_version < MaxVersion
  PROVE  LET m == [c EXCEPT !.role = role, !.status = status,
                            !.permissions_version = @ + 1]
         IN  /\ m \in M!Membership
             /\ m.permissions_version = c.permissions_version + 1
<1>1. PICK m : m = [c EXCEPT !.role = role, !.status = status,
                             !.permissions_version = @ + 1]
  OBVIOUS
<1>2. PICK a : a = [c EXCEPT !.role = role]
  OBVIOUS
<1>3. PICK b : b = [a EXCEPT !.status = status]
  OBVIOUS
<1>4. PICK v : v = c.permissions_version + 1
  OBVIOUS
<1>5. a \in M!Membership
  BY <1>2 DEF M!Membership
<1>6. b \in M!Membership
  BY <1>3, <1>5 DEF M!Membership
<1>7. v \in 0 .. MaxVersion
  BY <1>4, MaxVersionAssumption DEF M!Membership
<1>8. /\ [b EXCEPT !.permissions_version = v] \in M!Membership
      /\ [b EXCEPT !.permissions_version = v].permissions_version = v
  BY <1>6, <1>7 DEF M!Membership
<1>9. m = [b EXCEPT !.permissions_version = v]
  BY <1>1, <1>2, <1>3, <1>4, Zenon
<1>10. m \in M!Membership /\ m.permissions_version = v
  BY <1>8, <1>9
<1> QED
  BY <1>1, <1>4, <1>10, Zenon

(* And what the count of a verification stores. *)
LEMMA CountedMembership ==
  ASSUME NEW c \in M!Membership, c.permissions_version < MaxVersion
  PROVE  LET m == [c EXCEPT !.permissions_version = @ + 1]
         IN  /\ m \in M!Membership
             /\ m.permissions_version = c.permissions_version + 1
<1>1. PICK v : v = c.permissions_version + 1
  OBVIOUS
<1>2. v \in 0 .. MaxVersion
  BY <1>1, MaxVersionAssumption DEF M!Membership
<1>3. /\ [c EXCEPT !.permissions_version = v] \in M!Membership
      /\ [c EXCEPT !.permissions_version = v].permissions_version = v
  BY <1>2 DEF M!Membership
<1> QED
  BY <1>1, <1>3

(* A change of role or status. *)
LEMMA ChangeMembershipKeepsAccountsInv ==
  ASSUME AccountsInv, NEW t \in Task, NEW i \in MembershipId, NEW role \in Role,
         NEW status \in M!Status, ChangeMembership(t, i, role, status), Remember
  PROVE  AccountsInv'
<1>1. PICK m : m = [copies[t][i] EXCEPT !.role = role, !.status = status,
                                        !.permissions_version = @ + 1]
  OBVIOUS
<1>2. copies[t][i] \in M!Membership
  BY DEF ChangeMembership, AccountsInv, Knows, MembershipLooked
<1>3. m \in M!Membership
  BY <1>1, <1>2, ChangedMembership DEF ChangeMembership
<1>4. StoreInv' /\ StoreGrows
  BY <1>1, <1>3, MembershipUpdateKeepsStore DEF ChangeMembership
<1>5. /\ pc'[t] = "idle" /\ LocalsTyped'
      /\ \A s \in Task \ {t} : Rests(s)
  BY AccountsGoto DEF ChangeMembership, Forget, AccountsInv, Label
<1> QED
  BY <1>4, <1>5, NothingToKnow, OneRequestMoves

(* The count of a verification in one membership, and those that are left. *)
LEMMA CountKeepsAccountsInv ==
  ASSUME AccountsInv, NEW t \in Task, NEW i \in MembershipId,
         Count(t, i), Remember
  PROVE  AccountsInv'
<1> DEFINE left == DOMAIN copies[t] \ {i}
           rest == [j \in left |-> copies[t][j]]
<1>1. PICK m : m = [copies[t][i] EXCEPT !.permissions_version = @ + 1]
  OBVIOUS
<1>2. /\ pc[t] = "counting" /\ i \in DOMAIN copies[t]
      /\ copies[t][i].permissions_version < MaxVersion
      /\ M!Update(i, m) /\ UNCHANGED userVars
      /\ Forget(t) \/ Goto(t, "counting", about[t], None, rest)
  BY <1>1 DEF Count
<1>3. \A j \in DOMAIN copies[t] :
        /\ j \in DOMAIN memberships_by_id
        /\ copies[t][j] \in M!Membership
        /\ <<t, j>> \notin overtaken => copies[t][j] = memberships_by_id[j]
  BY <1>2 DEF AccountsInv, Knows, Counting
<1>4. m \in M!Membership
  BY <1>1, <1>2, <1>3, CountedMembership
<1>5. StoreInv' /\ StoreGrows
  BY <1>2, <1>4, MembershipUpdateKeepsStore
<1>6. CASE Forget(t)
  <2>1. /\ pc'[t] = "idle" /\ LocalsTyped'
        /\ \A s \in Task \ {t} : Rests(s)
    BY <1>6, AccountsGoto DEF Forget, AccountsInv, Label
  <2> QED
    BY <1>5, <2>1, NothingToKnow, OneRequestMoves
<1>7. CASE Goto(t, "counting", about[t], None, rest)
  <2> HIDE DEF rest
  <2>1. /\ pc'[t] = "counting" /\ copies'[t] = rest /\ LocalsTyped'
        /\ \A s \in Task \ {t} : Rests(s)
    BY <1>7, AccountsGoto DEF AccountsInv, Label
  <2>2. ASSUME NEW j \in DOMAIN rest
        PROVE  /\ j \in DOMAIN memberships_by_id'
               /\ rest[j] \in M!Membership
               /\ <<t, j>> \notin overtaken' => rest[j] = memberships_by_id'[j]
    <3>1. j \in DOMAIN copies[t] /\ j # i /\ rest[j] = copies[t][j]
      BY <2>2 DEF rest
    <3>2. memberships_by_id'[j] = memberships_by_id[j]
      BY <1>2, <1>3, <3>1 DEF M!Update, AccountsInv, StoreInv, StoreTyped
    <3>3. <<t, j>> \notin overtaken' => <<t, j>> \notin overtaken
      <4>1. PICK p : p = <<t, j>>
        OBVIOUS
      <4>2. p[1] = t /\ p[2] = j
        BY <4>1, PairHalves
      <4>3. p \in Task \X (User \cup MembershipId)
        BY <1>3, <3>1, <4>1 DEF AccountsInv, StoreInv, StoreTyped
      <4>4. j \in Holdings(t) /\ j \in Holdings(t)'
        BY <2>1, <2>2, <3>1 DEF Holdings
      <4>5. pc'[p[1]] \notin Both
        BY <2>1, <4>2 DEF Both
      <4>6. p[2] \in Holdings(p[1]) /\ p[2] \in Holdings(p[1])'
        BY <4>2, <4>4 DEF Holdings
      <4>7. p \in overtaken => p \in overtaken'
        BY <4>3, <4>5, <4>6 DEF Remember
      <4> QED
        BY <4>1, <4>7
    <3> QED
      BY <1>3, <1>5, <3>1, <3>2, <3>3 DEF StoreGrows
  <2>3. Knows(t)'
    BY <2>1, <2>2
       DEF Knows, UserLooked, MembershipLooked, BothLooked, Counting, Both
  <2> QED
    BY <1>5, <2>1, <2>3, OneRequestMoves
<1> QED
  BY <1>2, <1>6, <1>7

(* Every step of every request keeps the invariant of the copies. *)
LEMMA NextAccountsInv ==
  AccountsInv /\ [AccountsNext]_(accountVars) => AccountsInv'
<1> SUFFICES ASSUME AccountsInv, [AccountsNext]_(accountVars)
             PROVE  AccountsInv'
  OBVIOUS
<1>1. CASE AccountsNext
  <2> USE <1>1 DEF AccountsNext
  <2>1. ASSUME NEW u \in User, NEW e \in Spelling, NEW p \in Password,
               SignUp(u, e, p)
        PROVE  AccountsInv'
    BY <2>1, SignUpKeepsAccountsInv
  <2>2. ASSUME NEW i \in MembershipId, NEW u \in User, NEW n \in Tenant,
               NEW role \in Role, Join(i, u, n, role)
        PROVE  AccountsInv'
    BY <2>2, JoinKeepsAccountsInv
  <2>3. ASSUME NEW t \in Task, NEW u \in User, NEW n \in Tenant,
               LookupUser(t, u, n) \/ LookupMembership(t, u, n)
        PROVE  AccountsInv'
    BY <2>3, LookupUserKeepsAccountsInv, LookupMembershipKeepsAccountsInv
  <2>4. ASSUME NEW t \in Task, Ask(t) PROVE AccountsInv'
    BY <2>4, ForgetKeepsAccountsInv DEF Ask
  <2>5. ASSUME NEW t \in Task, NEW p \in Password, ChangePassword(t, p)
        PROVE  AccountsInv'
    BY <2>5, ChangePasswordKeepsAccountsInv
  <2>6. ASSUME NEW t \in Task, Verify(t) PROVE AccountsInv'
    BY <2>6, VerifyKeepsAccountsInv
  <2>7. ASSUME NEW t \in Task, LookupMemberships(t) PROVE AccountsInv'
    BY <2>7, LookupMembershipsKeepsAccountsInv
  <2>8. ASSUME NEW t \in Task, NEW i \in MembershipId, Count(t, i)
        PROVE  AccountsInv'
    BY <2>8, CountKeepsAccountsInv
  <2>9. ASSUME NEW t \in Task, NEW i \in MembershipId, NEW role \in Role,
               NEW status \in M!Status, ChangeMembership(t, i, role, status)
        PROVE  AccountsInv'
    BY <2>9, ChangeMembershipKeepsAccountsInv
  <2>10. ASSUME NEW t \in Task, Abandon(t) PROVE AccountsInv'
    BY <2>10, ForgetKeepsAccountsInv DEF Abandon
  <2> QED
    BY <2>1, <2>2, <2>3, <2>4, <2>5, <2>6, <2>7, <2>8, <2>9, <2>10 DEF Step
<1>2. CASE UNCHANGED accountVars
  <2>1. StoreInv'
    BY <1>2, StoreStays DEF accountVars
  <2>2. LocalsTyped'
    BY <1>2 DEF accountVars, locals, AccountsInv, LocalsTyped
  <2>3. ASSUME NEW t \in Task PROVE Knows(t)'
    <3>1. Knows(t)
      BY DEF AccountsInv
    <3>2. UNCHANGED <<users_by_id, memberships_by_id, pc, about, user_copy,
                      copies, overtaken, moments, between,
                      membership_id_by_user_tenant>>
      BY <1>2 DEF accountVars, userVars, memberVars, locals, history
    <3>3. UserLooked(t)'
      <4>1. Granted(user_copy[t].email_verified,
                    MembershipOf(about[t][1], about[t][2]))' =
              Granted(user_copy[t].email_verified,
                      MembershipOf(about[t][1], about[t][2]))
        BY <3>2 DEF Granted, MembershipOf, M!GetByUserAndTenant
      <4>2. Held(about[t][1], about[t][2])' = Held(about[t][1], about[t][2])
        BY <3>2 DEF Held, MembershipOf, M!GetByUserAndTenant
      <4> QED
        BY <3>1, <3>2, <4>1, <4>2 DEF Knows, UserLooked, OneKept
    <3>4. MembershipLooked(t)'
      BY <3>1, <3>2 DEF Knows, MembershipLooked, Held, OneKept, Granted,
                        MembershipOf, M!GetByUserAndTenant
    <3>5. BothLooked(t)' /\ Counting(t)'
      BY <3>1, <3>2 DEF Knows, BothLooked, Counting, OneKept, Answer
    <3> QED
      BY <3>3, <3>4, <3>5 DEF Knows
  <2> QED
    BY <2>1, <2>2, <2>3 DEF AccountsInv
<1> QED
  BY <1>1, <1>2

(* The invariant of the copies holds for ever. *)
LEMMA AccountsInvariance == AccountsSpec => []AccountsInv
  BY InitAccountsInv, NextAccountsInv, PTL DEF AccountsSpec

-----------------------------------------------------------------------------
(* What an update takes back *)

(* Two records that differ in one field at most. *)
LEMMA OneFieldChanged ==
  ASSUME NEW r, NEW s, NEW field,
         \A x \in DOMAIN r : x # field => r[x] = s[x]
  PROVE  Cardinality(Changed(r, s)) <= 1
<1>1. Changed(r, s) \in SUBSET {field}
  BY DEF Changed
<1>2. IsFiniteSet({field}) /\ Cardinality({field}) = 1
  BY FS_Singleton
<1>3. Cardinality(Changed(r, s)) <= Cardinality({field})
  BY <1>1, <1>2, FS_Subset
<1> QED
  BY <1>2, <1>3

(* The two updates of a user write one field each. *)
LEMMA UserUpdatesChangeOneField ==
  ASSUME NEW r \in U!UserRecord
  PROVE  /\ Cardinality(Changed(r, [r EXCEPT !.email_verified = TRUE])) <= 1
         /\ \A p \in Password :
              Cardinality(Changed(r, [r EXCEPT !.password_hash = p])) <= 1
<1>1. \A x \in DOMAIN r :
        x # "email_verified" => r[x] = [r EXCEPT !.email_verified = TRUE][x]
  OBVIOUS
<1>2. \A p \in Password : \A x \in DOMAIN r :
        x # "password_hash" => r[x] = [r EXCEPT !.password_hash = p][x]
  OBVIOUS
<1> QED
  BY <1>1, <1>2, OneFieldChanged

(* What a step keeps of a user that it does not update. *)
LEMMA NothingChanged ==
  ASSUME NEW r PROVE Cardinality(Changed(r, r)) <= 1
  BY OneFieldChanged

UsersKept ==
  \A u \in DOMAIN users_by_id :
    Undisturbed(u) =>
      Cardinality(Changed(users_by_id[u], users_by_id'[u])) <= 1

MembersKept ==
  \A i \in DOMAIN memberships_by_id :
    Undisturbed(i) =>
      \/ memberships_by_id'[i] = memberships_by_id[i]
      \/ memberships_by_id'[i].permissions_version =
           memberships_by_id[i].permissions_version + 1

(* A step that leaves the users, or the memberships, as they are. *)
LEMMA NothingLost ==
  /\ (\A u \in DOMAIN users_by_id : users_by_id'[u] = users_by_id[u])
       => UsersKept
  /\ (\A i \in DOMAIN memberships_by_id :
        memberships_by_id'[i] = memberships_by_id[i]) => MembersKept
  BY NothingChanged DEF UsersKept, MembersKept

(* A request that stores its copy of a user, with one field changed. *)
LEMMA UserUpdateLosesNothing ==
  ASSUME AccountsInv, NEW t \in Task, pc[t] = "user",
         NEW user, U!Update(about[t][1], user), UNCHANGED memberVars,
         \/ user = [user_copy[t] EXCEPT !.email_verified = TRUE]
         \/ \E p \in Password :
              user = [user_copy[t] EXCEPT !.password_hash = p],
         pc'[t] \in {"idle", "verified"}, copies'[t] = <<>>
  PROVE  UsersKept /\ MembersKept
<1>1. PICK u : u = about[t][1]
  OBVIOUS
<1>2. /\ u \in DOMAIN users_by_id
      /\ <<t, u>> \notin overtaken => user_copy[t] = users_by_id[u]
  BY <1>1 DEF AccountsInv, Knows, UserLooked
<1>3. /\ users_by_id' = [users_by_id EXCEPT ![u] = user]
      /\ memberships_by_id' = memberships_by_id
  BY <1>1 DEF U!Update, memberVars
<1>4. u \notin Holdings(t)'
  <2>1. u \notin DOMAIN copies'[t]
    OBVIOUS
  <2>2. pc'[t] \notin HoldsUser
    BY DEF HoldsUser, Both
  <2> QED
    BY <2>1, <2>2 DEF Holdings
<1>5. ASSUME NEW v \in DOMAIN users_by_id, Undisturbed(v)
      PROVE  Cardinality(Changed(users_by_id[v], users_by_id'[v])) <= 1
  <2>1. CASE v # u
    <3>1. users_by_id'[v] = users_by_id[v]
      BY <1>3, <2>1 DEF AccountsInv, StoreInv, StoreTyped
    <3> QED
      BY <3>1, NothingChanged
  <2>2. CASE v = u
    <3>1. <<t, u>> \notin overtaken
      BY <1>4, <1>5, <2>2 DEF Undisturbed
    <3>2. users_by_id'[u] = user
      BY <1>2, <1>3 DEF AccountsInv, StoreInv, StoreTyped
    <3>3. users_by_id[u] \in U!UserRecord
      BY <1>2 DEF AccountsInv, StoreInv, StoreTyped
    <3> QED
      BY <1>2, <2>2, <3>1, <3>2, <3>3, UserUpdatesChangeOneField
  <2> QED
    BY <2>1, <2>2
<1> QED
  BY <1>3, <1>5, NothingLost DEF UsersKept

(* A request that stores its copy of a membership, counted. *)
LEMMA MembershipUpdateLosesNothing ==
  ASSUME AccountsInv, NEW t \in Task, NEW i, NEW m, M!Update(i, m),
         UNCHANGED userVars,
         m.permissions_version = copies[t][i].permissions_version + 1,
         <<t, i>> \notin overtaken => copies[t][i] = memberships_by_id[i],
         i \notin Holdings(t)'
  PROVE  UsersKept /\ MembersKept
<1>1. /\ i \in DOMAIN memberships_by_id
      /\ memberships_by_id' = [memberships_by_id EXCEPT ![i] = m]
      /\ users_by_id' = users_by_id
  BY DEF M!Update, userVars
<1>2. ASSUME NEW j \in DOMAIN memberships_by_id, Undisturbed(j)
      PROVE  \/ memberships_by_id'[j] = memberships_by_id[j]
             \/ memberships_by_id'[j].permissions_version =
                  memberships_by_id[j].permissions_version + 1
  <2>1. CASE j # i
    BY <1>1, <2>1 DEF AccountsInv, StoreInv, StoreTyped
  <2>2. CASE j = i
    <3>1. <<t, i>> \notin overtaken
      BY <1>2, <2>2 DEF Undisturbed
    <3>2. memberships_by_id'[i] = m
      BY <1>1 DEF AccountsInv, StoreInv, StoreTyped
    <3> QED
      BY <2>2, <3>1, <3>2
  <2> QED
    BY <2>1, <2>2
<1> QED
  BY <1>1, <1>2, NothingLost DEF MembersKept

(* The count of a verification takes nothing back. *)
LEMMA CountLosesNothing ==
  ASSUME AccountsInv, NEW t \in Task, NEW i \in MembershipId, Count(t, i)
  PROVE  UsersKept /\ MembersKept
<1> DEFINE rest == [j \in DOMAIN copies[t] \ {i} |-> copies[t][j]]
<1>1. PICK m : m = [copies[t][i] EXCEPT !.permissions_version = @ + 1]
  OBVIOUS
<1>2. /\ pc[t] = "counting" /\ i \in DOMAIN copies[t]
      /\ copies[t][i].permissions_version < MaxVersion
      /\ M!Update(i, m) /\ UNCHANGED userVars
      /\ Forget(t) \/ Goto(t, "counting", about[t], None, rest)
  BY <1>1 DEF Count
<1>3. /\ copies[t][i] \in M!Membership
      /\ <<t, i>> \notin overtaken => copies[t][i] = memberships_by_id[i]
  BY <1>2 DEF AccountsInv, Knows, Counting
<1>4. m.permissions_version = copies[t][i].permissions_version + 1
  BY <1>1, <1>2, <1>3, CountedMembership
<1>5. i \notin Holdings(t)'
  <2>1. i \notin DOMAIN rest /\ i \notin DOMAIN <<>>
    OBVIOUS
  <2> HIDE DEF rest
  <2>2. LocalsTyped /\ "idle" \in Label /\ "counting" \in Label
    BY DEF AccountsInv, Label
  <2>3. \/ pc'[t] = "idle" /\ copies'[t] = <<>>
        \/ pc'[t] = "counting" /\ copies'[t] = rest
    BY <1>2, <2>2, AccountsGoto DEF Forget
  <2> QED
    BY <2>1, <2>3 DEF Holdings, HoldsUser, Both
<1> QED
  BY <1>2, <1>3, <1>4, <1>5, MembershipUpdateLosesNothing

(* Nor does a change of role or status. *)
LEMMA ChangeMembershipLosesNothing ==
  ASSUME AccountsInv, NEW t \in Task, NEW i \in MembershipId, NEW role \in Role,
         NEW status \in M!Status, ChangeMembership(t, i, role, status)
  PROVE  UsersKept /\ MembersKept
<1>1. PICK m : m = [copies[t][i] EXCEPT !.role = role, !.status = status,
                                        !.permissions_version = @ + 1]
  OBVIOUS
<1>2. /\ pc[t] = "membership" /\ i \in DOMAIN copies[t]
      /\ copies[t][i].permissions_version < MaxVersion
      /\ M!Update(i, m) /\ UNCHANGED userVars
      /\ Forget(t)
  BY <1>1 DEF ChangeMembership
<1>3. /\ copies[t][i] \in M!Membership
      /\ <<t, i>> \notin overtaken => copies[t][i] = memberships_by_id[i]
  BY <1>2 DEF AccountsInv, Knows, MembershipLooked
<1>4. m.permissions_version = copies[t][i].permissions_version + 1
  BY <1>1, <1>2, <1>3, ChangedMembership
<1>5. i \notin Holdings(t)'
  <2>1. pc'[t] = "idle" /\ copies'[t] = <<>>
    BY <1>2, AccountsGoto DEF Forget, AccountsInv, Label
  <2> QED
    BY <2>1 DEF Holdings, HoldsUser, Both
<1> QED
  BY <1>2, <1>3, <1>4, <1>5, MembershipUpdateLosesNothing

(* A step that stores a copy not overtaken changes one field of a user, or *)
(* counts one change of a membership; any other step changes neither.      *)
LEMMA StepsLoseNothing ==
  ASSUME AccountsInv, [AccountsNext]_(accountVars)
  PROVE  UpdateStep
<1>1. ASSUME NEW u \in User, NEW e, NEW p, SignUp(u, e, p)
      PROVE  UsersKept /\ MembersKept
  BY <1>1, NothingLost DEF SignUp, U!Create, U!Put, memberVars
<1>2. ASSUME NEW i, NEW u, NEW n, NEW role, Join(i, u, n, role)
      PROVE  UsersKept /\ MembersKept
  BY <1>2, NothingLost DEF Join, M!Create, M!Put, userVars
<1>3. ASSUME NEW t \in Task, NEW p \in Password, ChangePassword(t, p)
      PROVE  UsersKept /\ MembersKept
  <2>1. pc'[t] = "idle" /\ copies'[t] = <<>>
    BY <1>3, AccountsGoto DEF ChangePassword, Forget, AccountsInv, Label
  <2> QED
    BY <1>3, <2>1, UserUpdateLosesNothing DEF ChangePassword
<1>4. ASSUME NEW t \in Task, Verify(t) PROVE UsersKept /\ MembersKept
  <2>1. LocalsTyped /\ "idle" \in Label /\ "verified" \in Label
    BY DEF AccountsInv, Label
  <2>2. pc'[t] \in {"idle", "verified"} /\ copies'[t] = <<>>
    BY <1>4, <2>1, AccountsGoto DEF Verify, Forget
  <2> QED
    BY <1>4, <2>2, UserUpdateLosesNothing DEF Verify
<1>5. ASSUME UNCHANGED <<users_by_id, memberships_by_id>>
      PROVE  UsersKept /\ MembersKept
  BY <1>5, NothingLost
<1>6. UsersKept /\ MembersKept
  BY <1>1, <1>2, <1>3, <1>4, <1>5, CountLosesNothing,
     ChangeMembershipLosesNothing
     DEF AccountsNext, Step, LookupUser, LookupMembership, Ask, Abandon,
         LookupMemberships, accountVars, userVars, memberVars
<1> QED
  BY <1>6 DEF UpdateStep, UsersKept, MembersKept

-----------------------------------------------------------------------------
(* Theorems *)

(* An update that no other overtook takes nothing back, of a user or of a  *)
(* membership, however many requests hold copies.                          *)
THEOREM LoneUpdatesNeverLoseAnything ==
  AccountsSpec => LoneUpdatesLoseNothing
<1>1. AccountsInv /\ [AccountsNext]_(accountVars) => UpdateStep
  BY StepsLoseNothing
<1> QED
  BY <1>1, AccountsInvariance, PTL DEF AccountsSpec, LoneUpdatesLoseNothing

(* Permissions decided on copies of two ages were held at one moment, for  *)
(* any requests and any number of changes of one of the two records.       *)
THEOREM AnswersAlwaysWereHeld == AccountsSpec => []AnswersWereHeld
<1>1. AccountsInv => AnswersWereHeld
  BY DEF AccountsInv, Knows, BothLooked, OneKept, AnswersWereHeld
<1> QED
  BY <1>1, AccountsInvariance, PTL

(* And with the user looked up first they never exceed what was held at    *)
(* one moment, whatever changed in between.                                *)
THEOREM UserFirstIsAlwaysSafe == AccountsSpec => []UserFirstNeverGrantsMore
<1>1. AccountsInv => UserFirstNeverGrantsMore
  BY DEF AccountsInv, Knows, BothLooked, UserFirstNeverGrantsMore
<1> QED
  BY <1>1, AccountsInvariance, PTL
=============================================================================
