-------------------------- MODULE LiveResourcesProofs --------------------------
(***************************************************************************)
(* Machine-checked facts about LiveResources: the foreign keys of the live *)
(* tables and of the history, the owner of a request, the local half of a  *)
(* credential and the merge, for any machines and any number of edits,     *)
(* requests and failures.                                                  *)
(***************************************************************************)
EXTENDS LiveResources, TLAPS, FiniteSetTheorems, SequenceTheorems

-----------------------------------------------------------------------------
(* Finite sets of numbers.                                                 *)

(* A finite set of naturals has a bound: a smallest subset without one     *)
(* would be empty or lose one element.                                     *)
LEMMA FiniteIsBounded ==
  ASSUME NEW S \in SUBSET Nat, IsFiniteSet(S)
  PROVE  \E b \in Nat : \A x \in S : x <= b
  <1> DEFINE HasBound(T) == \E b \in Nat : \A x \in T : x <= b
             Bad == {T \in SUBSET S : ~ HasBound(T)}
  <1>1. SUFFICES Bad = {}
    BY <1>1
  <1>2. SUFFICES ASSUME Bad # {} PROVE FALSE
    OBVIOUS
  <1>3. IsWellFoundedOn(StrictSubsetOrdering(S), SUBSET S)
    BY FS_StrictSubsetOrderingWellFounded, FS_FiniteSubsetsOfFinite
  <1>4. PICK T \in Bad : \A U \in Bad : ~ (<<U, T>> \in StrictSubsetOrdering(S))
    <2>1. Bad \subseteq SUBSET S
      OBVIOUS
    <2> HIDE DEF Bad
    <2> QED BY <1>2, <1>3, <2>1, WFMin
  <1>5. T \in SUBSET S /\ ~ HasBound(T)
    OBVIOUS
  <1>6. T # {}
    <2>1. HasBound({})
      <3>1. 0 \in Nat /\ \A x \in {} : x <= 0
        OBVIOUS
      <3> QED BY <3>1
    <2> QED BY <1>5, <2>1
  <1>7. PICK y \in T : TRUE
    BY <1>6
  <1>8. <<T \ {y}, T>> \in StrictSubsetOrdering(S)
    <2>1. T \ {y} \in SUBSET S /\ T \ {y} \subseteq T /\ T \ {y} # T
      BY <1>5, <1>7
    <2> QED BY <1>5, <2>1 DEF StrictSubsetOrdering
  <1>9. HasBound(T \ {y})
    <2>1. T \ {y} \in SUBSET S
      BY <1>5
    <2> QED BY <1>4, <1>8, <2>1
  <1>10. PICK b \in Nat : \A x \in T \ {y} : x <= b
    BY <1>9
  <1>11. HasBound(T)
    <2>1. y \in Nat /\ \A x \in T : x \in Nat
      BY <1>5, <1>7
    <2>2. CASE b <= y
      <3>1. \A x \in T : x <= y
        BY <1>10, <2>1, <2>2
      <3> QED BY <2>1, <3>1
    <2>3. CASE ~ (b <= y)
      <3>1. \A x \in T : x <= b
        BY <1>10, <2>1, <2>3
      <3> QED BY <3>1
    <2> QED BY <2>2, <2>3
  <1> QED BY <1>5, <1>11

(* The greatest element of a bounded, non-empty set of naturals.           *)
LEMMA MaxOfBounded ==
  ASSUME NEW S \in SUBSET Nat, S # {}, NEW b \in Nat, \A x \in S : x <= b
  PROVE  Max(S) \in S /\ \A x \in S : x <= Max(S)
  <1> DEFINE T == {n \in Nat : \A x \in S : x <= n}
  <1>1. PICK n \in T : \A m \in T : ~ (<<m, n>> \in OpToRel(<, Nat))
    <2>1. T \subseteq Nat /\ T # {}
      OBVIOUS
    <2> HIDE DEF T
    <2> QED BY <2>1, NatLessThanWellFounded, WFMin
  <1>2. \A m \in T : ~ (m < n)
    <2> SUFFICES ASSUME NEW m \in T, m < n PROVE FALSE
      OBVIOUS
    <2>1. <<m, n>> \in Nat \X Nat /\ <<m, n>>[1] < <<m, n>>[2]
      OBVIOUS
    <2>2. <<m, n>> \in OpToRel(<, Nat)
      BY <2>1 DEF OpToRel
    <2> QED BY <1>1, <2>2
  <1>3. n \in S
    <2> SUFFICES ASSUME n \notin S PROVE FALSE
      OBVIOUS
    <2>1. n > 0
      <3>1. PICK x \in S : TRUE
        OBVIOUS
      <3>2. x \in Nat /\ x <= n /\ x # n
        BY <3>1
      <3> QED BY <3>2
    <2>2. \A x \in S : x \in Nat /\ x <= n /\ x # n
      OBVIOUS
    <2>3. n - 1 \in Nat /\ \A x \in S : x <= n - 1
      BY <2>1, <2>2
    <2>4. n - 1 \in T
      BY <2>3
    <2> QED BY <1>2, <2>4
  <1>4. \A x \in S : n >= x
    OBVIOUS
  <1>5. Max(S) \in S /\ \A x \in S : Max(S) >= x
    BY <1>3, <1>4 DEF Max
  <1> QED BY <1>5

(* Greatest(S) is at or above every member of a finite set.                *)
LEMMA GreatestBounds ==
  ASSUME NEW S \in SUBSET Nat, IsFiniteSet(S)
  PROVE  /\ Greatest(S) \in Nat /\ \A x \in S : x <= Greatest(S)
         /\ \A k \in Nat : Max({k} \cup S) \in Nat
  <1>1. PICK b \in Nat : \A x \in S : x <= b
    BY FiniteIsBounded
  <1>2. \A k \in Nat : /\ Max(S \cup {k}) \in Nat
                       /\ \A x \in S : x <= Max(S \cup {k})
    <2> SUFFICES ASSUME NEW k \in Nat
                 PROVE  /\ Max(S \cup {k}) \in Nat
                        /\ \A x \in S : x <= Max(S \cup {k})
      OBVIOUS
    <2>1. PICK c \in Nat : b <= c /\ k <= c
      <3>1. b <= b + k /\ k <= b + k /\ b + k \in Nat
        OBVIOUS
      <3> QED BY <3>1
    <2>2. \A x \in S \cup {k} : x <= c
      BY <1>1, <2>1
    <2>3. S \cup {k} \in SUBSET Nat /\ S \cup {k} # {}
      OBVIOUS
    <2> QED BY <2>2, <2>3, MaxOfBounded
  <1>3. \A k \in Nat : {k} \cup S = S \cup {k}
    OBVIOUS
  <1> QED BY <1>2, <1>3 DEF Greatest

(* The image of a finite set under a function is finite.                   *)
LEMMA ImageFinite ==
  ASSUME NEW S, IsFiniteSet(S), NEW f, f = [x \in S |-> f[x]]
  PROVE  IsFiniteSet({f[x] : x \in S})
  <1> DEFINE T == {f[x] : x \in S}
  <1>1. f \in Surjection(S, T)
    BY DEF Surjection
  <1> HIDE DEF T
  <1>2. IsFiniteSet(T)
    BY <1>1, FS_Surjection
  <1> QED BY <1>2 DEF T
-----------------------------------------------------------------------------
(* What the tables and the history hold.                                   *)

IdOrNull == Nat \cup {None}
Identities == [id : Nat, uuid : Nat]
Upstreams == [id : Nat, account : Nat]
RouteSets == [id : Nat, account : IdOrNull]
Rules == [id : Nat, route : Nat, priority : Nat, upstream : Nat]
Keys == [id : Nat, route : Nat]
Credentials == [id : Nat, runtime : Nat, upstream : Nat]
Sequence == [upstreams : Nat, rules : Nat, keys : Nat]
Tables == [accounts : SUBSET Identities, identities : SUBSET Identities,
           upstreams : SUBSET Upstreams, routes : SUBSET RouteSets, rules : SUBSET Rules,
           keys : SUBSET Keys, credentials : SUBSET Credentials, secrets : SUBSET Nat,
           sequence : Sequence]

History == [event : Nat, account : IdOrNull, identity : Nat, key : IdOrNull,
            route : IdOrNull, credential : IdOrNull, owner : Nat]
Flights == [event : Nat, account : Nat, key : Nat, runtime : Nat, owner : Nat]
States == [db : Tables, log : SUBSET History]

(* A history cut by a deletion: every row of it stands for an old one, of   *)
(* the same identity and owner, without its links to what was deleted.     *)
Link(new, old, S) == (new = old /\ old \notin S) \/ new = None
Cut(l, old, A, R, K, C) ==
    \A r \in l : \E q \in old :
        /\ r.identity = q.identity /\ r.owner = q.owner
        /\ Link(r.account, q.account, A) /\ Link(r.route, q.route, R)
        /\ Link(r.key, q.key, K) /\ Link(r.credential, q.credential, C)

(* The foreign keys of the tables and those of the history.                *)
Attached(d, l) ==
    \A r \in l : /\ r.account \in Ids(d.accounts) \cup {None}
                 /\ r.route \in Ids(d.routes) \cup {None}
                 /\ r.key \in Ids(d.keys) \cup {None}
                 /\ r.credential \in Ids(d.credentials) \cup {None}

LEMMA ReferencesSplit ==
  ASSUME NEW d, NEW l
  PROVE  References(d, l) <=> References(d, {}) /\ Attached(d, l)
  BY DEF References, Attached

LEMMA CutTwice ==
  ASSUME NEW l, NEW m, NEW n, NEW A, NEW R, NEW K, NEW C, NEW A2, NEW R2, NEW K2, NEW C2,
         Cut(m, n, A, R, K, C), Cut(l, m, A2, R2, K2, C2)
  PROVE  Cut(l, n, A \cup A2, R \cup R2, K \cup K2, C \cup C2)
  <1> SUFFICES ASSUME NEW r \in l
               PROVE  \E q \in n :
                        /\ r.identity = q.identity /\ r.owner = q.owner
                        /\ Link(r.account, q.account, A \cup A2) /\ Link(r.route, q.route, R \cup R2)
                        /\ Link(r.key, q.key, K \cup K2)
                        /\ Link(r.credential, q.credential, C \cup C2)
    BY DEF Cut
  <1>1. PICK p \in m : /\ r.identity = p.identity /\ r.owner = p.owner
                       /\ Link(r.account, p.account, A2) /\ Link(r.route, p.route, R2)
                       /\ Link(r.key, p.key, K2) /\ Link(r.credential, p.credential, C2)
    BY DEF Cut
  <1>2. PICK q \in n : /\ p.identity = q.identity /\ p.owner = q.owner
                       /\ Link(p.account, q.account, A) /\ Link(p.route, q.route, R)
                       /\ Link(p.key, q.key, K) /\ Link(p.credential, q.credential, C)
    BY DEF Cut
  <1> QED BY <1>1, <1>2 DEF Link

(* A cut history hangs on whatever kept the rows that were not deleted.    *)
LEMMA CutAttached ==
  ASSUME NEW d, NEW e, NEW l, NEW old, NEW A, NEW R, NEW K, NEW C,
         Attached(d, old), Cut(l, old, A, R, K, C),
         Ids(d.accounts) \ A \subseteq Ids(e.accounts),
         Ids(d.routes) \ R \subseteq Ids(e.routes),
         Ids(d.keys) \ K \subseteq Ids(e.keys),
         Ids(d.credentials) \ C \subseteq Ids(e.credentials)
  PROVE  Attached(e, l)
  <1> SUFFICES ASSUME NEW r \in l
               PROVE  /\ r.account \in Ids(e.accounts) \cup {None}
                      /\ r.route \in Ids(e.routes) \cup {None}
                      /\ r.key \in Ids(e.keys) \cup {None}
                      /\ r.credential \in Ids(e.credentials) \cup {None}
    BY DEF Attached
  <1>1. PICK q \in old :
          /\ Link(r.account, q.account, A) /\ Link(r.route, q.route, R)
          /\ Link(r.key, q.key, K) /\ Link(r.credential, q.credential, C)
    BY DEF Cut
  <1>2. /\ q.account \in Ids(d.accounts) \cup {None}
        /\ q.route \in Ids(d.routes) \cup {None}
        /\ q.key \in Ids(d.keys) \cup {None}
        /\ q.credential \in Ids(d.credentials) \cup {None}
    BY DEF Attached
  <1> QED BY <1>1, <1>2 DEF Link
-----------------------------------------------------------------------------
(* What each deletion leaves.                                              *)

(* Detach cuts one link of the rows it names.                              *)
LEMMA DetachRoute ==
  ASSUME NEW l \in SUBSET History, NEW S
  PROVE  /\ Detach(l, "route", S) \in SUBSET History
         /\ Cut(Detach(l, "route", S), l, {}, S, {}, {})
  <1>1. Detach(l, "route", S) =
          {IF r.route \in S THEN [r EXCEPT !.route = None] ELSE r : r \in l}
    BY DEF Detach
  <1>2. \A r \in l :
            /\ [r EXCEPT !.route = None] \in History
            /\ [r EXCEPT !.route = None].route = None
            /\ [r EXCEPT !.route = None].account = r.account
            /\ [r EXCEPT !.route = None].key = r.key
            /\ [r EXCEPT !.route = None].credential = r.credential
            /\ [r EXCEPT !.route = None].identity = r.identity
            /\ [r EXCEPT !.route = None].owner = r.owner
    BY DEF History, IdOrNull
  <1>3. ASSUME NEW r \in Detach(l, "route", S)
        PROVE  /\ r \in History
               /\ \E q \in l :
                    /\ r.identity = q.identity /\ r.owner = q.owner
                    /\ Link(r.account, q.account, {})
                    /\ Link(r.route, q.route, S)
                    /\ Link(r.key, q.key, {})
                    /\ Link(r.credential, q.credential, {})
    <2>1. PICK q \in l : r = IF q.route \in S THEN [q EXCEPT !.route = None] ELSE q
      BY <1>1, <1>3
    <2> QED BY <1>2, <2>1 DEF Link
  <1> QED BY <1>3 DEF Cut

LEMMA DetachKey ==
  ASSUME NEW l \in SUBSET History, NEW S
  PROVE  /\ Detach(l, "key", S) \in SUBSET History
         /\ Cut(Detach(l, "key", S), l, {}, {}, S, {})
  <1>1. Detach(l, "key", S) =
          {IF r.key \in S THEN [r EXCEPT !.key = None] ELSE r : r \in l}
    BY DEF Detach
  <1>2. \A r \in l :
            /\ [r EXCEPT !.key = None] \in History
            /\ [r EXCEPT !.key = None].key = None
            /\ [r EXCEPT !.key = None].account = r.account
            /\ [r EXCEPT !.key = None].route = r.route
            /\ [r EXCEPT !.key = None].credential = r.credential
            /\ [r EXCEPT !.key = None].identity = r.identity
            /\ [r EXCEPT !.key = None].owner = r.owner
    BY DEF History, IdOrNull
  <1>3. ASSUME NEW r \in Detach(l, "key", S)
        PROVE  /\ r \in History
               /\ \E q \in l :
                    /\ r.identity = q.identity /\ r.owner = q.owner
                    /\ Link(r.account, q.account, {})
                    /\ Link(r.route, q.route, {})
                    /\ Link(r.key, q.key, S)
                    /\ Link(r.credential, q.credential, {})
    <2>1. PICK q \in l : r = IF q.key \in S THEN [q EXCEPT !.key = None] ELSE q
      BY <1>1, <1>3
    <2> QED BY <1>2, <2>1 DEF Link
  <1> QED BY <1>3 DEF Cut

LEMMA DetachCredential ==
  ASSUME NEW l \in SUBSET History, NEW S
  PROVE  /\ Detach(l, "credential", S) \in SUBSET History
         /\ Cut(Detach(l, "credential", S), l, {}, {}, {}, S)
  <1>1. Detach(l, "credential", S) =
          {IF r.credential \in S THEN [r EXCEPT !.credential = None] ELSE r : r \in l}
    BY DEF Detach
  <1>2. \A r \in l :
            /\ [r EXCEPT !.credential = None] \in History
            /\ [r EXCEPT !.credential = None].credential = None
            /\ [r EXCEPT !.credential = None].account = r.account
            /\ [r EXCEPT !.credential = None].route = r.route
            /\ [r EXCEPT !.credential = None].key = r.key
            /\ [r EXCEPT !.credential = None].identity = r.identity
            /\ [r EXCEPT !.credential = None].owner = r.owner
    BY DEF History, IdOrNull
  <1>3. ASSUME NEW r \in Detach(l, "credential", S)
        PROVE  /\ r \in History
               /\ \E q \in l :
                    /\ r.identity = q.identity /\ r.owner = q.owner
                    /\ Link(r.account, q.account, {})
                    /\ Link(r.route, q.route, {})
                    /\ Link(r.key, q.key, {})
                    /\ Link(r.credential, q.credential, S)
    <2>1. PICK q \in l : r = IF q.credential \in S THEN [q EXCEPT !.credential = None] ELSE q
      BY <1>1, <1>3
    <2> QED BY <1>2, <2>1 DEF Link
  <1> QED BY <1>3 DEF Cut

LEMMA PurgeClientKeysIs ==
  ASSUME NEW s \in States, NEW S
  PROVE  LET t == PurgeClientKeys(s, S) IN
         /\ t \in States
         /\ t.db = [s.db EXCEPT !.keys = {k \in s.db.keys : k.id \notin S}]
         /\ Cut(t.log, s.log, {}, {}, S, {})
  <1>1. PurgeClientKeys(s, S) = [db |-> [s.db EXCEPT !.keys = {k \in s.db.keys : k.id \notin S}],
                                 log |-> Detach(s.log, "key", S)]
    BY DEF PurgeClientKeys
  <1>2. [s.db EXCEPT !.keys = {k \in s.db.keys : k.id \notin S}] \in Tables
    BY DEF States, Tables
  <1>3. s.log \in SUBSET History
    BY DEF States
  <1>4. Detach(s.log, "key", S) \in SUBSET History /\ Cut(Detach(s.log, "key", S), s.log, {}, {}, S, {})
    BY <1>3, DetachKey
  <1> QED BY <1>1, <1>2, <1>4 DEF States

LEMMA PurgeCredentialsIs ==
  ASSUME NEW s \in States, NEW S
  PROVE  LET t == PurgeCredentials(s, S) IN
         /\ t \in States
         /\ t.db = [s.db EXCEPT !.credentials = {c \in s.db.credentials : c.id \notin S},
                                !.secrets = s.db.secrets \ S]
         /\ Cut(t.log, s.log, {}, {}, {}, S)
  <1> DEFINE d == [s.db EXCEPT !.credentials = {c \in s.db.credentials : c.id \notin S},
                               !.secrets = s.db.secrets \ S]
  <1>1. PurgeCredentials(s, S) = [db |-> d, log |-> Detach(s.log, "credential", S)]
    BY DEF PurgeCredentials
  <1>2. d \in Tables
    BY DEF States, Tables
  <1>3. s.log \in SUBSET History
    BY DEF States
  <1>4. /\ Detach(s.log, "credential", S) \in SUBSET History
        /\ Cut(Detach(s.log, "credential", S), s.log, {}, {}, {}, S)
    BY <1>3, DetachCredential
  <1> HIDE DEF d
  <1> QED BY <1>1, <1>2, <1>4 DEF States, d

KeysOn(d, S) == {k.id : k \in {k \in d.keys : k.route \in S}}

LEMMA PurgeRouteSetsIs ==
  ASSUME NEW s \in States, NEW S
  PROVE  LET t == PurgeRouteSets(s, S) IN
         /\ t \in States
         /\ t.db = [s.db EXCEPT !.keys = {k \in s.db.keys : k.id \notin KeysOn(s.db, S)},
                                !.rules = {r \in s.db.rules : r.route \notin S},
                                !.routes = {r \in s.db.routes : r.id \notin S}]
         /\ Cut(t.log, s.log, {}, S, KeysOn(s.db, S), {})
  <1> DEFINE u == [s EXCEPT !.log = Detach(s.log, "route", S)]
             K == KeysOn(s.db, S)
             t == PurgeClientKeys(u, K)
             v == PurgeRouteSets(s, S)
  <1>1. s.log \in SUBSET History /\ s.db \in Tables
    BY DEF States
  <1>2. Detach(s.log, "route", S) \in SUBSET History /\ Cut(Detach(s.log, "route", S), s.log, {}, S, {}, {})
    BY <1>1, DetachRoute
  <1>3. u \in States /\ u.db = s.db /\ u.log = Detach(s.log, "route", S)
    BY <1>1, <1>2 DEF States
  <1>4. /\ t \in States /\ t.db = [s.db EXCEPT !.keys = {k \in s.db.keys : k.id \notin K}]
        /\ Cut(t.log, u.log, {}, {}, K, {})
    <2> HIDE DEF u, K
    <2> QED BY <1>3, PurgeClientKeysIs
  <1>5. v = [t EXCEPT !.db.rules = {r \in @ : r.route \notin S},
                      !.db.routes = {r \in @ : r.id \notin S}]
    BY DEF PurgeRouteSets, KeysOn
  <1>6. Cut(t.log, s.log, {}, S, K, {})
    <2>1. Cut(t.log, s.log, {} \cup {}, S \cup {}, {} \cup K, {} \cup {})
      <3> HIDE DEF t, u, K
      <3> QED BY <1>2, <1>3, <1>4, CutTwice
    <2>2. {} \cup {} = {} /\ S \cup {} = S /\ {} \cup K = K
      OBVIOUS
    <2> HIDE DEF t, K
    <2> QED BY <2>1, <2>2
  <1>7. /\ v.log = t.log
        /\ v.db = [s.db EXCEPT !.keys = {k \in s.db.keys : k.id \notin K},
                               !.rules = {r \in s.db.rules : r.route \notin S},
                               !.routes = {r \in s.db.routes : r.id \notin S}]
        /\ v \in States
    <2> HIDE DEF t, u, K, v
    <2>1. v = [db |-> [t.db EXCEPT !.rules = {r \in t.db.rules : r.route \notin S},
                                   !.routes = {r \in t.db.routes : r.id \notin S}],
               log |-> t.log]
      BY <1>4, <1>5 DEF States, Tables
    <2>2. [t.db EXCEPT !.rules = {r \in t.db.rules : r.route \notin S},
                       !.routes = {r \in t.db.routes : r.id \notin S}]
          = [s.db EXCEPT !.keys = {k \in s.db.keys : k.id \notin K},
                         !.rules = {r \in s.db.rules : r.route \notin S},
                         !.routes = {r \in s.db.routes : r.id \notin S}]
      BY <1>1, <1>4 DEF Tables
    <2>3. [s.db EXCEPT !.keys = {k \in s.db.keys : k.id \notin K},
                       !.rules = {r \in s.db.rules : r.route \notin S},
                       !.routes = {r \in s.db.routes : r.id \notin S}] \in Tables
      BY <1>1 DEF Tables
    <2>4. v.db \in Tables
      BY <2>1, <2>2, <2>3
    <2> QED BY <1>4, <2>1, <2>2, <2>4 DEF States
  <1> HIDE DEF t, u, K, v
  <1> QED BY <1>6, <1>7 DEF v, K

(* A deleted account leaves its identity in the rows that were its own.     *)
LEMMA DropIdentityIs ==
  ASSUME NEW l \in SUBSET History, NEW S
  PROVE  /\ DropIdentity(l, S) \in SUBSET History
         /\ Cut(DropIdentity(l, S), l, S, {}, {}, {})
  <1> DEFINE Dropped(r) == [r EXCEPT !.identity = IF r.identity = None THEN r.account ELSE r.identity,
                                     !.account = None, !.route = None, !.key = None,
                                     !.credential = None]
  <1>1. DropIdentity(l, S) = {IF r.account \in S THEN Dropped(r) ELSE r : r \in l}
    BY DEF DropIdentity
  <1>2. ASSUME NEW r \in l
        PROVE  /\ Dropped(r) \in History
               /\ Dropped(r).account = None /\ Dropped(r).route = None
               /\ Dropped(r).key = None /\ Dropped(r).credential = None
               /\ Dropped(r).identity = r.identity /\ Dropped(r).owner = r.owner
    <2>1. r.identity # None
      BY NoneAssumption DEF History
    <2> QED BY <2>1 DEF History, IdOrNull
  <1> HIDE DEF Dropped
  <1>3. ASSUME NEW r \in DropIdentity(l, S)
        PROVE  /\ r \in History
               /\ \E q \in l :
                    /\ r.identity = q.identity /\ r.owner = q.owner
                    /\ Link(r.account, q.account, S) /\ Link(r.route, q.route, {})
                    /\ Link(r.key, q.key, {}) /\ Link(r.credential, q.credential, {})
    <2>1. PICK q \in l : r = IF q.account \in S THEN Dropped(q) ELSE q
      BY <1>1, <1>3
    <2> QED BY <1>2, <2>1 DEF Link
  <1> QED BY <1>3 DEF Cut

(* Tables with the same fields are the same.                               *)
LEMMA SameTables ==
  ASSUME NEW d \in Tables, NEW e \in Tables,
         d.accounts = e.accounts, d.identities = e.identities, d.upstreams = e.upstreams,
         d.routes = e.routes, d.rules = e.rules, d.keys = e.keys,
         d.credentials = e.credentials, d.secrets = e.secrets, d.sequence = e.sequence
  PROVE  d = e
  BY DEF Tables

(* A nested update of a state is an update of its tables.                   *)
LEMMA NestedUpstreams ==
  ASSUME NEW s \in States, NEW X
  PROVE  [s EXCEPT !.db.upstreams = X] = [db |-> [s.db EXCEPT !.upstreams = X], log |-> s.log]
  <1>1. s = [db |-> s.db, log |-> s.log]
    BY DEF States
  <1> QED BY <1>1

LEMMA NestedAccounts ==
  ASSUME NEW s \in States, NEW X
  PROVE  [s EXCEPT !.db.accounts = X] = [db |-> [s.db EXCEPT !.accounts = X], log |-> s.log]
  <1>1. s = [db |-> s.db, log |-> s.log]
    BY DEF States
  <1> QED BY <1>1

RoutesOf(d, S) == {r.id : r \in {r \in d.routes : r.account \in S}}
CredentialsOn(d, U) == {c.id : c \in {c \in d.credentials : c.upstream \in U}}

(* The tables without the accounts S and all that hangs on them.           *)
WithoutAccounts(d, S) ==
    LET U == Ids(UpstreamsOf(d, S))
        R == RoutesOf(d, S)
        C == CredentialsOn(d, U)
    IN  [d EXCEPT !.keys = {k \in @ : k.id \notin KeysOn(d, R)},
                  !.rules = {r \in @ : r.route \notin R /\ r.upstream \notin U},
                  !.routes = {r \in @ : r.id \notin R},
                  !.credentials = {c \in @ : c.id \notin C},
                  !.secrets = @ \ C,
                  !.upstreams = {u \in @ : u.account \notin S},
                  !.accounts = {a \in @ : a.id \notin S}]

LEMMA PurgeProxyAccountsIs ==
  ASSUME NEW s \in States, NEW S
  PROVE  LET t == PurgeProxyAccounts(s, S) IN
         /\ t \in States
         /\ t.db = WithoutAccounts(s.db, S)
         /\ \E A, R, K, C :
              /\ Cut(t.log, s.log, A, R, K, C) /\ A = S /\ R = RoutesOf(s.db, S)
              /\ K = KeysOn(s.db, R) /\ C = CredentialsOn(s.db, Ids(UpstreamsOf(s.db, S)))
  <1> DEFINE d == s.db
             U == Ids(UpstreamsOf(d, S))
             R == RoutesOf(d, S)
             K == KeysOn(d, R)
             C == CredentialsOn(d, U)
             t == PurgeRouteSets(s, R)
             x == [db |-> [t.db EXCEPT !.rules = {r \in t.db.rules : r.upstream \notin U}],
                   log |-> DropIdentity(t.log, S)]
             v == PurgeCredentials(x, C)
             w == [v EXCEPT !.db.upstreams = {u \in @ : u.account \notin S},
                            !.db.accounts = {a \in @ : a.id \notin S}]
  <1>1. d \in Tables /\ s.log \in SUBSET History
    BY DEF States
  <1>2. /\ t \in States
        /\ t.db = [d EXCEPT !.keys = {k \in d.keys : k.id \notin K},
                            !.rules = {r \in d.rules : r.route \notin R},
                            !.routes = {r \in d.routes : r.id \notin R}]
        /\ Cut(t.log, s.log, {}, R, K, {})
    <2> HIDE DEF R
    <2> QED BY PurgeRouteSetsIs
  <1>3. /\ t.db \in Tables /\ t.log \in SUBSET History
        /\ t.db.upstreams = d.upstreams /\ t.db.credentials = d.credentials
        /\ t.db.rules = {r \in d.rules : r.route \notin R}
    <2> HIDE DEF t, R, K
    <2> QED BY <1>1, <1>2 DEF States, Tables
  <1>4. PurgeProxyAccounts(s, S) = w
    <2>1. R = {r.id : r \in {r \in s.db.routes : r.account \in S}}
      BY DEF RoutesOf
    <2>2. C = {c.id : c \in {c \in t.db.credentials : c.upstream \in Ids(UpstreamsOf(t.db, S))}}
      BY <1>3 DEF CredentialsOn, UpstreamsOf
    <2> HIDE DEF R, C, t, v
    <2> QED BY <2>1, <2>2 DEF PurgeProxyAccounts, PurgeGraph, t, v
  <1>5. /\ x \in States
        /\ x.db = [d EXCEPT !.keys = {k \in d.keys : k.id \notin K},
                            !.rules = {r \in d.rules : r.route \notin R /\ r.upstream \notin U},
                            !.routes = {r \in d.routes : r.id \notin R}]
        /\ Cut(x.log, t.log, S, {}, {}, {})
    <2>1. DropIdentity(t.log, S) \in SUBSET History /\ Cut(DropIdentity(t.log, S), t.log, S, {}, {}, {})
      <3> HIDE DEF t
      <3> QED BY <1>3, DropIdentityIs
    <2>2. {r \in t.db.rules : r.upstream \notin U}
            = {r \in d.rules : r.route \notin R /\ r.upstream \notin U}
      <3> HIDE DEF t, R, U
      <3> QED BY <1>3
    <2>3. x.db = [d EXCEPT !.keys = {k \in d.keys : k.id \notin K},
                           !.rules = {r \in d.rules : r.route \notin R /\ r.upstream \notin U},
                           !.routes = {r \in d.routes : r.id \notin R}]
      <3> HIDE DEF t, R, U, K, d
      <3> QED BY <1>1, <1>2, <2>2 DEF Tables
    <2>4. x.db \in Tables
      <3>1. [d EXCEPT !.keys = {k \in d.keys : k.id \notin K},
                      !.rules = {r \in d.rules : r.route \notin R /\ r.upstream \notin U},
                      !.routes = {r \in d.routes : r.id \notin R}] \in Tables
        <4> HIDE DEF t, R, U, K, d
        <4> QED BY <1>1 DEF Tables
      <3> HIDE DEF x, R, U, K, d
      <3> QED BY <2>3, <3>1
    <2>5. x.log = DropIdentity(t.log, S)
      OBVIOUS
    <2>6. x \in States
      <3> HIDE DEF t
      <3> QED BY <2>1, <2>4 DEF States
    <2> HIDE DEF x, t
    <2> QED BY <2>1, <2>3, <2>5, <2>6
  <1>6. /\ v \in States
        /\ v.db = [x.db EXCEPT !.credentials = {c \in x.db.credentials : c.id \notin C},
                               !.secrets = x.db.secrets \ C]
        /\ Cut(v.log, x.log, {}, {}, {}, C)
    <2> HIDE DEF x, C
    <2> QED BY <1>5, PurgeCredentialsIs
  <1>7. w.log = v.log /\ w.db = WithoutAccounts(d, S) /\ w \in States
    <2> HIDE DEF x, v, t
    <2>1. w = [db |-> [v.db EXCEPT !.upstreams = {u \in v.db.upstreams : u.account \notin S},
                                   !.accounts = {a \in v.db.accounts : a.id \notin S}],
               log |-> v.log]
      <3>1. v \in States
        BY <1>6
      <3> HIDE DEF d
      <3> DEFINE y == [db |-> [v.db EXCEPT !.upstreams = {u \in v.db.upstreams : u.account \notin S}],
                       log |-> v.log]
      <3>2. [v EXCEPT !.db.upstreams = {u \in v.db.upstreams : u.account \notin S}] = y
        BY <3>1, NestedUpstreams
      <3>3. y.db.accounts = v.db.accounts
        BY <3>1 DEF States, Tables
      <3>4. w = [y EXCEPT !.db.accounts = {a \in @ : a.id \notin S}]
        BY <3>2
      <3>5. y \in States
        BY <3>1 DEF States, Tables
      <3>6. [y EXCEPT !.db.accounts = {a \in y.db.accounts : a.id \notin S}]
              = [db |-> [y.db EXCEPT !.accounts = {a \in y.db.accounts : a.id \notin S}],
                 log |-> v.log]
        <4>1. y.log = v.log
          OBVIOUS
        <4> HIDE DEF y
        <4> QED BY <3>5, <4>1, NestedAccounts
      <3>7. y.db = [v.db EXCEPT !.upstreams = {u \in v.db.upstreams : u.account \notin S}]
        OBVIOUS
      <3> HIDE DEF y, w
      <3> QED BY <3>3, <3>4, <3>6, <3>7
    <2>2. /\ v.db \in Tables /\ v.db.upstreams = d.upstreams /\ v.db.accounts = d.accounts
          /\ x.db.credentials = d.credentials /\ x.db.secrets = d.secrets
      <3>1. x.db \in Tables /\ v.db \in Tables
        BY <1>5, <1>6 DEF States
      <3> HIDE DEF K, R, U, C, d
      <3> QED BY <1>1, <1>5, <1>6, <3>1 DEF Tables
    <2>3. [v.db EXCEPT !.upstreams = {u \in d.upstreams : u.account \notin S},
                       !.accounts = {a \in d.accounts : a.id \notin S}] = WithoutAccounts(d, S)
      <3> DEFINE e == WithoutAccounts(d, S)
      <3>1. e = [d EXCEPT !.keys = {k \in d.keys : k.id \notin K},
                  !.rules = {r \in d.rules : r.route \notin R /\ r.upstream \notin U},
                  !.routes = {r \in d.routes : r.id \notin R},
                  !.credentials = {c \in d.credentials : c.id \notin C},
                  !.secrets = d.secrets \ C,
                  !.upstreams = {u \in d.upstreams : u.account \notin S},
                  !.accounts = {a \in d.accounts : a.id \notin S}]
        BY DEF WithoutAccounts
      <3> HIDE DEF K, R, U, C, d, e
      <3>2. e \in Tables
        BY <1>1, <3>1 DEF Tables
      <3> DEFINE f == [v.db EXCEPT !.upstreams = {u \in d.upstreams : u.account \notin S},
                                   !.accounts = {a \in d.accounts : a.id \notin S}]
      <3>3. f \in Tables
        BY <1>1, <2>2 DEF Tables
      <3>4. /\ f.accounts = e.accounts /\ f.upstreams = e.upstreams
            /\ f.identities = v.db.identities /\ f.routes = v.db.routes
            /\ f.rules = v.db.rules /\ f.keys = v.db.keys
            /\ f.credentials = v.db.credentials /\ f.secrets = v.db.secrets
            /\ f.sequence = v.db.sequence
        BY <1>1, <2>2, <3>1 DEF Tables
      <3>5. /\ v.db.identities = x.db.identities /\ v.db.routes = x.db.routes
            /\ v.db.rules = x.db.rules /\ v.db.keys = x.db.keys
            /\ v.db.sequence = x.db.sequence
            /\ v.db.credentials = {c \in d.credentials : c.id \notin C}
            /\ v.db.secrets = d.secrets \ C
        <4>1. x.db \in Tables
          BY <1>5 DEF States
        <4> QED BY <1>6, <2>2, <4>1 DEF Tables
      <3>6. /\ x.db.identities = e.identities /\ x.db.routes = e.routes
            /\ x.db.rules = e.rules /\ x.db.keys = e.keys /\ x.db.sequence = e.sequence
            /\ e.credentials = {c \in d.credentials : c.id \notin C}
            /\ e.secrets = d.secrets \ C
        BY <1>1, <1>5, <3>1 DEF Tables
      <3> HIDE DEF f
      <3>7. f = e
        BY <3>2, <3>3, <3>4, <3>5, <3>6, SameTables
      <3> QED BY <3>7 DEF f, e
    <2>4. WithoutAccounts(d, S) \in Tables
      <3> HIDE DEF K, R, U, C, d
      <3> QED BY <2>2, <2>3, <1>1 DEF Tables
    <2> HIDE DEF w, d
    <2> QED BY <2>1, <2>2, <2>3, <2>4, <1>6 DEF States
  <1>8. Cut(w.log, s.log, S, R, K, C)
    <2>1. Cut(x.log, s.log, {} \cup S, R \cup {}, K \cup {}, {} \cup {})
      <3> HIDE DEF x, t, R, K
      <3> QED BY <1>2, <1>5, CutTwice
    <2>2. Cut(v.log, s.log, ({} \cup S) \cup {}, (R \cup {}) \cup {}, (K \cup {}) \cup {},
              ({} \cup {}) \cup C)
      <3> HIDE DEF x, v, R, K, C
      <3> QED BY <1>6, <2>1, CutTwice
    <2>3. /\ ({} \cup S) \cup {} = S /\ (R \cup {}) \cup {} = R /\ (K \cup {}) \cup {} = K
          /\ ({} \cup {}) \cup C = C
      OBVIOUS
    <2> HIDE DEF w, v, R, K, C
    <2> QED BY <1>7, <2>2, <2>3
  <1> HIDE DEF w
  <1> QED BY <1>4, <1>7, <1>8
-----------------------------------------------------------------------------
(* A machine in order.                                                     *)

Unique(rows) == \A x, y \in rows : x.id = y.id => x = y
Finite(d) ==
    /\ IsFiniteSet(d.accounts) /\ IsFiniteSet(d.identities) /\ IsFiniteSet(d.upstreams)
    /\ IsFiniteSet(d.routes) /\ IsFiniteSet(d.rules) /\ IsFiniteSet(d.keys)
    /\ IsFiniteSet(d.credentials)
Served(d) == \A a \in d.accounts : \E u \in d.upstreams : u.account = a.id
OneRuntime(d) == \A c, x \in d.credentials : c.runtime = x.runtime => c = x

(* Tables in which every foreign key leads somewhere, every account has an *)
(* upstream and an identity, and no id or runtime id has two rows.         *)
Whole(d) ==
    /\ d \in Tables
    /\ Finite(d)
    /\ References(d, {})
    /\ Served(d)
    /\ d.accounts \subseteq d.identities
    /\ Unique(d.identities) /\ Unique(d.credentials) /\ OneRuntime(d)

Sound(s, b) ==
    /\ s \in States
    /\ Whole(s.db)
    /\ Attached(s.db, s.log)
    /\ \A c \in s.db.credentials : c.id <= b

(* A step from s to t keeps the owners in the history, the local half of   *)
(* the credentials and every identity; it mints an identity at most.       *)
Kin(l, old) == \A r \in l : \E q \in old : r.identity = q.identity /\ r.owner = q.owner
Halves(d, e) ==
    \A c \in d.credentials, x \in e.credentials :
        c.id = x.id => /\ c.runtime = x.runtime
                       /\ c.id \in d.secrets => c.id \in e.secrets
Follows(s, t, b, n) ==
    /\ Kin(t.log, s.log)
    /\ Halves(s.db, t.db)
    /\ \/ t.db.identities = s.db.identities
       \/ \E i \in Identities : /\ n = 1 /\ i.uuid = b + 1
                                /\ i.id \notin Ids(s.db.identities)
                                /\ t.db.identities = s.db.identities \cup {i}

Shrunk(d, e) ==
    /\ e \in Tables
    /\ e.identities = d.identities
    /\ e.accounts \subseteq d.accounts /\ e.upstreams \subseteq d.upstreams
    /\ e.routes \subseteq d.routes /\ e.rules \subseteq d.rules /\ e.keys \subseteq d.keys
    /\ e.credentials \subseteq d.credentials
    /\ \A x \in e.credentials : x.id \in d.secrets => x.id \in e.secrets

(* A deletion that leaves no dangling row leaves tables in order.          *)
LEMMA ShrunkWhole ==
  ASSUME NEW d, NEW e, Whole(d), Shrunk(d, e), References(e, {}), Served(e)
  PROVE  Whole(e) /\ Halves(d, e)
  <1>1. Finite(e)
    BY FS_Subset DEF Whole, Finite, Shrunk
  <1>2. e.accounts \subseteq e.identities
    BY DEF Whole, Shrunk
  <1>3. Unique(e.identities) /\ Unique(e.credentials)
    BY DEF Whole, Shrunk, Unique
  <1>4. OneRuntime(e)
    BY DEF Whole, Shrunk, OneRuntime
  <1>5. Halves(d, e)
    BY DEF Whole, Shrunk, Halves, Unique
  <1> QED BY <1>1, <1>2, <1>3, <1>4, <1>5 DEF Whole, Shrunk

LEMMA DeletionSound ==
  ASSUME NEW s, NEW t \in States, NEW b, NEW A, NEW R, NEW K, NEW C,
         Sound(s, b), Shrunk(s.db, t.db), References(t.db, {}), Served(t.db),
         Cut(t.log, s.log, A, R, K, C),
         Ids(s.db.accounts) \ A \subseteq Ids(t.db.accounts),
         Ids(s.db.routes) \ R \subseteq Ids(t.db.routes),
         Ids(s.db.keys) \ K \subseteq Ids(t.db.keys),
         Ids(s.db.credentials) \ C \subseteq Ids(t.db.credentials)
  PROVE  Sound(t, b) /\ Follows(s, t, b, 0)
  <1>1. Whole(t.db) /\ Halves(s.db, t.db)
    BY ShrunkWhole DEF Sound
  <1>2. Attached(t.db, t.log)
    BY CutAttached DEF Sound
  <1>3. Kin(t.log, s.log)
    BY DEF Kin, Cut
  <1>4. \A c \in t.db.credentials : c.id <= b
    BY DEF Sound, Shrunk
  <1>5. t.db.identities = s.db.identities
    BY DEF Shrunk
  <1> QED BY <1>1, <1>2, <1>3, <1>4, <1>5 DEF Sound, Follows

LEMMA DeleteKeySound ==
  ASSUME NEW s, NEW b, NEW S, Sound(s, b)
  PROVE  LET t == PurgeClientKeys(s, S) IN Sound(t, b) /\ Follows(s, t, b, 0)
  <1> DEFINE t == PurgeClientKeys(s, S)
  <1>1. s \in States /\ s.db \in Tables /\ Whole(s.db)
    BY DEF Sound, Whole
  <1>2. /\ t \in States
        /\ t.db = [s.db EXCEPT !.keys = {k \in s.db.keys : k.id \notin S}]
        /\ Cut(t.log, s.log, {}, {}, S, {})
    BY <1>1, PurgeClientKeysIs
  <1> HIDE DEF t
  <1>3. /\ t.db \in Tables
        /\ t.db.accounts = s.db.accounts /\ t.db.identities = s.db.identities
        /\ t.db.upstreams = s.db.upstreams /\ t.db.routes = s.db.routes
        /\ t.db.rules = s.db.rules /\ t.db.keys = {k \in s.db.keys : k.id \notin S}
        /\ t.db.credentials = s.db.credentials /\ t.db.secrets = s.db.secrets
    <2>1. t.db \in Tables
      BY <1>2 DEF States
    <2> QED BY <1>1, <1>2, <2>1 DEF Tables
  <1>4. Shrunk(s.db, t.db)
    BY <1>3 DEF Shrunk
  <1>5. References(t.db, {}) /\ Served(t.db)
    BY <1>1, <1>3 DEF Whole, References, Served
  <1>6. Ids(s.db.keys) \ S \subseteq Ids(t.db.keys)
    BY <1>3 DEF Ids
  <1>7. Sound(t, b) /\ Follows(s, t, b, 0)
    BY <1>2, <1>3, <1>4, <1>5, <1>6, DeletionSound
  <1> QED BY <1>7 DEF t

LEMMA DeleteCredentialsSound ==
  ASSUME NEW s, NEW b, NEW S, Sound(s, b)
  PROVE  LET t == PurgeCredentials(s, S) IN
         /\ Sound(t, b) /\ Follows(s, t, b, 0)
         /\ t.db.upstreams = s.db.upstreams
  <1> DEFINE t == PurgeCredentials(s, S)
  <1>1. s \in States /\ s.db \in Tables /\ Whole(s.db)
    BY DEF Sound, Whole
  <1>2. /\ t \in States
        /\ t.db = [s.db EXCEPT !.credentials = {c \in s.db.credentials : c.id \notin S},
                               !.secrets = s.db.secrets \ S]
        /\ Cut(t.log, s.log, {}, {}, {}, S)
    BY <1>1, PurgeCredentialsIs
  <1> HIDE DEF t
  <1>3. /\ t.db \in Tables
        /\ t.db.accounts = s.db.accounts /\ t.db.identities = s.db.identities
        /\ t.db.upstreams = s.db.upstreams /\ t.db.routes = s.db.routes
        /\ t.db.rules = s.db.rules /\ t.db.keys = s.db.keys
        /\ t.db.credentials = {c \in s.db.credentials : c.id \notin S}
        /\ t.db.secrets = s.db.secrets \ S
    <2>1. t.db \in Tables
      BY <1>2 DEF States
    <2> QED BY <1>1, <1>2, <2>1 DEF Tables
  <1>4. Shrunk(s.db, t.db)
    BY <1>3 DEF Shrunk
  <1>5. References(t.db, {}) /\ Served(t.db)
    BY <1>1, <1>3 DEF Whole, References, Served, Ids
  <1>6. Ids(s.db.credentials) \ S \subseteq Ids(t.db.credentials)
    BY <1>3 DEF Ids
  <1>7. Sound(t, b) /\ Follows(s, t, b, 0)
    BY <1>2, <1>3, <1>4, <1>5, <1>6, DeletionSound
  <1> QED BY <1>3, <1>7 DEF t

LEMMA DeleteRoutesSound ==
  ASSUME NEW s, NEW b, NEW S, Sound(s, b)
  PROVE  LET t == PurgeRouteSets(s, S) IN Sound(t, b) /\ Follows(s, t, b, 0)
  <1> DEFINE t == PurgeRouteSets(s, S)
             K == KeysOn(s.db, S)
  <1>1. s \in States /\ s.db \in Tables /\ Whole(s.db)
    BY DEF Sound, Whole
  <1>2. /\ t \in States
        /\ t.db = [s.db EXCEPT !.keys = {k \in s.db.keys : k.id \notin K},
                               !.rules = {r \in s.db.rules : r.route \notin S},
                               !.routes = {r \in s.db.routes : r.id \notin S}]
        /\ Cut(t.log, s.log, {}, S, K, {})
    BY <1>1, PurgeRouteSetsIs
  <1>8. \A k \in s.db.keys : k.id \notin K => k.route \notin S
    BY DEF KeysOn
  <1> HIDE DEF t, K
  <1>3. /\ t.db \in Tables
        /\ t.db.accounts = s.db.accounts /\ t.db.identities = s.db.identities
        /\ t.db.upstreams = s.db.upstreams
        /\ t.db.routes = {r \in s.db.routes : r.id \notin S}
        /\ t.db.rules = {r \in s.db.rules : r.route \notin S}
        /\ t.db.keys = {k \in s.db.keys : k.id \notin K}
        /\ t.db.credentials = s.db.credentials /\ t.db.secrets = s.db.secrets
    <2>1. t.db \in Tables
      BY <1>2 DEF States
    <2> QED BY <1>1, <1>2, <2>1 DEF Tables
  <1>4. Shrunk(s.db, t.db)
    BY <1>3 DEF Shrunk
  <1>5. References(t.db, {}) /\ Served(t.db)
    BY <1>1, <1>3, <1>8 DEF Whole, References, Served, Ids
  <1>6. /\ Ids(s.db.keys) \ K \subseteq Ids(t.db.keys)
        /\ Ids(s.db.routes) \ S \subseteq Ids(t.db.routes)
    BY <1>3 DEF Ids
  <1>7. Sound(t, b) /\ Follows(s, t, b, 0)
    BY <1>2, <1>3, <1>4, <1>5, <1>6, DeletionSound
  <1> QED BY <1>7 DEF t

LEMMA DeleteAccountsSound ==
  ASSUME NEW s, NEW b, NEW S, Sound(s, b), None \notin S
  PROVE  LET t == PurgeProxyAccounts(s, S) IN Sound(t, b) /\ Follows(s, t, b, 0)
  <1> DEFINE t == PurgeProxyAccounts(s, S)
             U == Ids(UpstreamsOf(s.db, S))
             R == RoutesOf(s.db, S)
             K == KeysOn(s.db, R)
             C == CredentialsOn(s.db, U)
  <1>1. s \in States /\ s.db \in Tables /\ Whole(s.db)
    BY DEF Sound, Whole
  <1>2. t \in States /\ t.db = WithoutAccounts(s.db, S) /\ Cut(t.log, s.log, S, R, K, C)
    BY <1>1, PurgeProxyAccountsIs
  <1>3. t.db = [s.db EXCEPT !.keys = {k \in s.db.keys : k.id \notin K},
                  !.rules = {r \in s.db.rules : r.route \notin R /\ r.upstream \notin U},
                  !.routes = {r \in s.db.routes : r.id \notin R},
                  !.credentials = {c \in s.db.credentials : c.id \notin C},
                  !.secrets = s.db.secrets \ C,
                  !.upstreams = {u \in s.db.upstreams : u.account \notin S},
                  !.accounts = {a \in s.db.accounts : a.id \notin S}]
    BY <1>2 DEF WithoutAccounts
  <1>4. /\ \A u \in s.db.upstreams : u.id \notin U => u.account \notin S
        /\ \A r \in s.db.routes : r.id \notin R => r.account \notin S
        /\ \A k \in s.db.keys : k.id \notin K => k.route \notin R
        /\ \A c \in s.db.credentials : c.id \notin C => c.upstream \notin U
    BY DEF Ids, UpstreamsOf, RoutesOf, KeysOn, CredentialsOn
  <1> HIDE DEF t, U, R, K, C
  <1>5. /\ t.db \in Tables
        /\ t.db.accounts = {a \in s.db.accounts : a.id \notin S}
        /\ t.db.identities = s.db.identities
        /\ t.db.upstreams = {u \in s.db.upstreams : u.account \notin S}
        /\ t.db.routes = {r \in s.db.routes : r.id \notin R}
        /\ t.db.rules = {r \in s.db.rules : r.route \notin R /\ r.upstream \notin U}
        /\ t.db.keys = {k \in s.db.keys : k.id \notin K}
        /\ t.db.credentials = {c \in s.db.credentials : c.id \notin C}
        /\ t.db.secrets = s.db.secrets \ C
    <2>1. t.db \in Tables
      BY <1>2 DEF States
    <2> QED BY <1>1, <1>3, <2>1 DEF Tables
  <1>6. Shrunk(s.db, t.db)
    BY <1>5 DEF Shrunk
  <1>7. References(t.db, {})
    <2>1. \A u \in t.db.upstreams : u.account \in Ids(t.db.accounts)
      BY <1>1, <1>5 DEF Whole, References, Ids
    <2>2. \A r \in t.db.routes : r.account \in Ids(t.db.accounts) \cup {None}
      BY <1>1, <1>4, <1>5 DEF Whole, References, Ids
    <2>3. \A i : i \notin U /\ i \in Ids(s.db.upstreams) => i \in Ids(t.db.upstreams)
      BY <1>4, <1>5 DEF Ids
    <2>4. \A i : i \notin R /\ i \in Ids(s.db.routes) => i \in Ids(t.db.routes)
      BY <1>5 DEF Ids
    <2>5. \A r \in t.db.rules : r.route \in Ids(t.db.routes) /\ r.upstream \in Ids(t.db.upstreams)
      BY <1>1, <1>5, <2>3, <2>4 DEF Whole, References
    <2>6. \A k \in t.db.keys : k.route \in Ids(t.db.routes)
      BY <1>1, <1>4, <1>5, <2>4 DEF Whole, References
    <2>7. \A c \in t.db.credentials : c.upstream \in Ids(t.db.upstreams)
      BY <1>1, <1>4, <1>5, <2>3 DEF Whole, References
    <2>8. t.db.secrets \subseteq Ids(t.db.credentials)
      BY <1>1, <1>5 DEF Whole, References, Ids
    <2> QED BY <2>1, <2>2, <2>5, <2>6, <2>7, <2>8 DEF References
  <1>8. Served(t.db)
    BY <1>1, <1>5 DEF Whole, Served
  <1>9. /\ Ids(s.db.accounts) \ S \subseteq Ids(t.db.accounts)
        /\ Ids(s.db.routes) \ R \subseteq Ids(t.db.routes)
        /\ Ids(s.db.keys) \ K \subseteq Ids(t.db.keys)
        /\ Ids(s.db.credentials) \ C \subseteq Ids(t.db.credentials)
    BY <1>5 DEF Ids
  <1>10. Sound(t, b) /\ Follows(s, t, b, 0)
    BY <1>2, <1>6, <1>7, <1>8, <1>9, DeletionSound
  <1> QED BY <1>10 DEF t
-----------------------------------------------------------------------------
(* What the other edits leave.                                             *)

LEMMA IdsFinite ==
  ASSUME NEW S, IsFiniteSet(S)
  PROVE  IsFiniteSet(Ids(S))
  <1> DEFINE f == [x \in S |-> x.id]
  <1>1. {f[x] : x \in S} = Ids(S)
    BY DEF Ids
  <1>2. f = [x \in S |-> f[x]]
    OBVIOUS
  <1> HIDE DEF f
  <1> QED BY <1>1, <1>2, ImageFinite

(* The numbers an insertion allocates are new.                             *)
LEMMA NewIds ==
  ASSUME NEW d, Whole(d)
  PROVE  /\ NextSharedId(d) \in Nat
         /\ NextSharedId(d) \notin Ids(d.accounts) \cup Ids(d.routes) \cup Ids(d.identities)
         /\ NextRuntime(d) \in Nat
         /\ \A c \in d.credentials : c.runtime < NextRuntime(d)
         /\ \A table \in {"upstreams", "rules", "keys"} :
              d.sequence[table] \in Nat /\ NextId(d, table) \in Nat
  <1> DEFINE S == Ids(d.accounts) \cup Ids(d.routes) \cup Ids(d.identities)
             T == {c.runtime : c \in d.credentials}
  <1>1. d \in Tables /\ Finite(d)
    BY DEF Whole
  <1>2. S \in SUBSET Nat /\ IsFiniteSet(S)
    <2>1. IsFiniteSet(Ids(d.accounts)) /\ IsFiniteSet(Ids(d.routes))
          /\ IsFiniteSet(Ids(d.identities))
      BY <1>1, IdsFinite DEF Finite
    <2>4. IsFiniteSet(Ids(d.accounts) \cup Ids(d.routes))
      BY <2>1, FS_Union
    <2>5. IsFiniteSet(S)
      BY <2>1, <2>4, FS_Union
    <2>6. S \in SUBSET Nat
      BY <1>1 DEF Tables, Ids, Identities, RouteSets
    <2> QED BY <2>5, <2>6
  <1>3. T \in SUBSET Nat /\ IsFiniteSet(T)
    <2> DEFINE f == [x \in d.credentials |-> x.runtime]
    <2>1. IsFiniteSet({f[x] : x \in d.credentials})
      <3>1. f = [x \in d.credentials |-> f[x]] /\ IsFiniteSet(d.credentials)
        BY <1>1 DEF Finite
      <3> HIDE DEF f
      <3> QED BY <3>1, ImageFinite
    <2>2. {f[x] : x \in d.credentials} = T
      OBVIOUS
    <2>3. T \in SUBSET Nat
      BY <1>1 DEF Tables, Credentials
    <2> QED BY <2>1, <2>2, <2>3
  <1> HIDE DEF S
  <1>4. Greatest(S) \in Nat /\ \A x \in S : x <= Greatest(S)
    BY <1>2, GreatestBounds
  <1>5. NextSharedId(d) = Greatest(S) + 1
    BY DEF NextSharedId, S
  <1>6. NextSharedId(d) \in Nat /\ NextSharedId(d) \notin S
    BY <1>2, <1>4, <1>5
  <1>7. NextRuntime(d) \in Nat /\ \A c \in d.credentials : c.runtime < NextRuntime(d)
    <2>1. NextRuntime(d) = Greatest(T) + 1
      BY DEF NextRuntime
    <2>2. \A c \in d.credentials : c.runtime \in T
      OBVIOUS
    <2> HIDE DEF T
    <2> DEFINE n == Greatest(T)
    <2>3. n \in Nat /\ \A x \in T : x \in Nat /\ x <= n
      BY <1>3, GreatestBounds
    <2>4. NextRuntime(d) = n + 1
      BY <2>1
    <2> HIDE DEF n
    <2>5. \A x \in T : x < NextRuntime(d)
      BY <2>3, <2>4
    <2> QED BY <2>2, <2>3, <2>4, <2>5
  <1>8. \A table \in {"upstreams", "rules", "keys"} :
          d.sequence[table] \in Nat /\ NextId(d, table) \in Nat
    BY <1>1 DEF Tables, Sequence, NextId
  <1> QED BY <1>6, <1>7, <1>8 DEF S

(* An edit that keeps the history and every row the history refers to.     *)
LEMMA GrowthSound ==
  ASSUME NEW s, NEW t \in States, NEW b \in Nat, NEW n \in {0, 1},
         Sound(s, b), Whole(t.db), t.log = s.log,
         Ids(s.db.accounts) \subseteq Ids(t.db.accounts),
         Ids(s.db.routes) \subseteq Ids(t.db.routes),
         Ids(s.db.keys) \subseteq Ids(t.db.keys),
         Ids(s.db.credentials) \subseteq Ids(t.db.credentials),
         \A c \in t.db.credentials : c.id <= b + n,
         Halves(s.db, t.db),
         \/ t.db.identities = s.db.identities
         \/ \E i \in Identities : /\ n = 1 /\ i.uuid = b + 1
                                  /\ i.id \notin Ids(s.db.identities)
                                  /\ t.db.identities = s.db.identities \cup {i}
  PROVE  Sound(t, b + n) /\ Follows(s, t, b, n)
  <1>1. Attached(t.db, t.log)
    BY DEF Sound, Attached
  <1>2. Kin(t.log, s.log)
    BY DEF Kin
  <1> QED BY <1>1, <1>2 DEF Sound, Follows

LEMMA KeepSound ==
  ASSUME NEW s, NEW t \in States, NEW b \in Nat,
         Sound(s, b), Whole(t.db), t.log = s.log,
         Ids(s.db.accounts) \subseteq Ids(t.db.accounts),
         Ids(s.db.routes) \subseteq Ids(t.db.routes),
         Ids(s.db.keys) \subseteq Ids(t.db.keys),
         Ids(s.db.credentials) \subseteq Ids(t.db.credentials),
         \A c \in t.db.credentials : c.id <= b,
         Halves(s.db, t.db), t.db.identities = s.db.identities
  PROVE  Sound(t, b) /\ Follows(s, t, b, 0)
  <1>1. Attached(t.db, t.log)
    BY DEF Sound, Attached
  <1>2. Kin(t.log, s.log)
    BY DEF Kin
  <1> QED BY <1>1, <1>2 DEF Sound, Follows

(* Credentials that stay as they are.                                      *)
LEMMA SameHalves ==
  ASSUME NEW d, NEW e, Whole(d), e.credentials = d.credentials, d.secrets \subseteq e.secrets
  PROVE  Halves(d, e)
  BY DEF Whole, Unique, Halves

LEMMA TookIs ==
  ASSUME NEW d \in Tables, NEW table \in {"upstreams", "rules", "keys"}, NEW i \in Nat
  PROVE  LET e == Took(d, table, i) IN
         /\ e \in Tables
         /\ e.accounts = d.accounts /\ e.identities = d.identities
         /\ e.upstreams = d.upstreams /\ e.routes = d.routes /\ e.rules = d.rules
         /\ e.keys = d.keys /\ e.credentials = d.credentials /\ e.secrets = d.secrets
  <1> DEFINE e == Took(d, table, i)
             q == [d.sequence EXCEPT ![table] = IF i > d.sequence[table] THEN i
                                                ELSE d.sequence[table]]
  <1>1. e = [d EXCEPT !.sequence = q]
    BY DEF Took
  <1>2. d.sequence \in Sequence
    BY DEF Tables
  <1>3. q \in Sequence
    BY <1>2 DEF Sequence
  <1> HIDE DEF e, q
  <1>4. e \in Tables
    BY <1>1, <1>3 DEF Tables
  <1>5. /\ e.accounts = d.accounts /\ e.identities = d.identities
        /\ e.upstreams = d.upstreams /\ e.routes = d.routes /\ e.rules = d.rules
        /\ e.keys = d.keys /\ e.credentials = d.credentials /\ e.secrets = d.secrets
    BY <1>1, <1>4 DEF Tables
  <1> QED BY <1>4, <1>5 DEF e

LEMMA WithTables ==
  ASSUME NEW s \in States, NEW d \in Tables
  PROVE  LET t == [s EXCEPT !.db = d] IN t \in States /\ t.db = d /\ t.log = s.log
  BY DEF States

LEMMA CreateAccountSound ==
  ASSUME NEW s, NEW b \in Nat, Sound(s, b)
  PROVE  LET t == CreateAccount(s, b + 1) IN Sound(t, b + 1) /\ Follows(s, t, b, 1)
  <1> DEFINE d == s.db
             i == NextSharedId(d)
             u == NextId(d, "upstreams")
             r == NextId(d, "rules")
             e == [d EXCEPT !.accounts = d.accounts \cup {[id |-> i, uuid |-> b + 1]},
                            !.identities = d.identities \cup {[id |-> i, uuid |-> b + 1]},
                            !.upstreams = d.upstreams \cup {[id |-> u, account |-> i]},
                            !.routes = d.routes \cup {[id |-> i, account |-> i]},
                            !.rules = d.rules \cup {[id |-> r, route |-> i, priority |-> 0,
                                                     upstream |-> u]}]
             f == Took(Took(e, "upstreams", u), "rules", r)
             t == [s EXCEPT !.db = f]
  <1>1. s \in States /\ d \in Tables /\ Whole(d)
    BY DEF Sound, Whole
  <1>2. /\ i \in Nat /\ u \in Nat /\ r \in Nat
        /\ i \notin Ids(d.accounts) \cup Ids(d.routes) \cup Ids(d.identities)
    <2> HIDE DEF d
    <2> QED BY <1>1, NewIds
  <1>3. CreateAccount(s, b + 1) = t
    BY DEF CreateAccount
  <1> DEFINE a == [id |-> i, uuid |-> b + 1]
             v == [id |-> u, account |-> i]
             p == [id |-> i, account |-> i]
             q == [id |-> r, route |-> i, priority |-> 0, upstream |-> u]
  <1> HIDE DEF d, i, u, r, f, t
  <1>4. a \in Identities /\ v \in Upstreams /\ p \in RouteSets /\ q \in Rules
    BY <1>2 DEF Identities, Upstreams, RouteSets, Rules, IdOrNull
  <1>5. a.id = i /\ a.uuid = b + 1 /\ v.id = u /\ v.account = i /\ p.id = i /\ p.account = i
        /\ q.route = i /\ q.upstream = u
    OBVIOUS
  <1>6. e = [d EXCEPT !.accounts = d.accounts \cup {a}, !.identities = d.identities \cup {a},
                      !.upstreams = d.upstreams \cup {v}, !.routes = d.routes \cup {p},
                      !.rules = d.rules \cup {q}]
    OBVIOUS
  <1> HIDE DEF e, a, v, p, q
  <1>7. e \in Tables
    BY <1>1, <1>4, <1>6 DEF Tables
  <1>8. /\ e.accounts = d.accounts \cup {a} /\ e.identities = d.identities \cup {a}
        /\ e.upstreams = d.upstreams \cup {v} /\ e.routes = d.routes \cup {p}
        /\ e.rules = d.rules \cup {q} /\ e.keys = d.keys
        /\ e.credentials = d.credentials /\ e.secrets = d.secrets
    BY <1>1, <1>6 DEF Tables
  <1>9. /\ f \in Tables
        /\ f.accounts = d.accounts \cup {a} /\ f.identities = d.identities \cup {a}
        /\ f.upstreams = d.upstreams \cup {v} /\ f.routes = d.routes \cup {p}
        /\ f.rules = d.rules \cup {q} /\ f.keys = d.keys
        /\ f.credentials = d.credentials /\ f.secrets = d.secrets
    <2> DEFINE g == Took(e, "upstreams", u)
    <2>1. /\ g \in Tables
          /\ g.accounts = e.accounts /\ g.identities = e.identities
          /\ g.upstreams = e.upstreams /\ g.routes = e.routes /\ g.rules = e.rules
          /\ g.keys = e.keys /\ g.credentials = e.credentials /\ g.secrets = e.secrets
      BY <1>2, <1>7, TookIs
    <2>2. f = Took(g, "rules", r)
      BY DEF f
    <2> HIDE DEF g
    <2>3. /\ f \in Tables
          /\ f.accounts = g.accounts /\ f.identities = g.identities
          /\ f.upstreams = g.upstreams /\ f.routes = g.routes /\ f.rules = g.rules
          /\ f.keys = g.keys /\ f.credentials = g.credentials /\ f.secrets = g.secrets
      BY <1>2, <2>1, <2>2, TookIs
    <2> QED BY <1>8, <2>1, <2>3
  <1>10. t \in States /\ t.db = f /\ t.log = s.log
    BY <1>1, <1>9, WithTables DEF t
  <1>11. Whole(f)
    <2>1. Finite(f)
      <3>1. /\ IsFiniteSet(d.accounts \cup {a}) /\ IsFiniteSet(d.identities \cup {a})
            /\ IsFiniteSet(d.upstreams \cup {v}) /\ IsFiniteSet(d.routes \cup {p})
            /\ IsFiniteSet(d.rules \cup {q})
        BY <1>1, FS_AddElement DEF Whole, Finite
      <3> QED BY <1>1, <1>9, <3>1 DEF Whole, Finite
    <2>2. References(f, {})
      BY <1>1, <1>5, <1>9 DEF Whole, References, Ids
    <2>3. Served(f)
      BY <1>1, <1>5, <1>9 DEF Whole, Served
    <2>4. Unique(f.identities)
      BY <1>1, <1>2, <1>5, <1>9 DEF Whole, Unique, Ids
    <2>5. Unique(f.credentials) /\ OneRuntime(f) /\ f.accounts \subseteq f.identities
      BY <1>1, <1>9 DEF Whole, OneRuntime
    <2> QED BY <1>9, <2>1, <2>2, <2>3, <2>4, <2>5 DEF Whole
  <1>12. Halves(d, f)
    BY <1>1, <1>9, SameHalves
  <1>13. \A c \in f.credentials : c.id <= b + 1
    <2>1. \A c \in d.credentials : c.id \in Nat /\ c.id <= b
      BY <1>1 DEF Sound, Tables, Credentials, d
    <2> QED BY <1>9, <2>1
  <1>14. /\ Ids(d.accounts) \subseteq Ids(f.accounts) /\ Ids(d.routes) \subseteq Ids(f.routes)
         /\ Ids(d.keys) \subseteq Ids(f.keys) /\ Ids(d.credentials) \subseteq Ids(f.credentials)
    BY <1>9 DEF Ids
  <1>15. /\ a \in Identities /\ a.uuid = b + 1 /\ a.id \notin Ids(d.identities)
         /\ f.identities = d.identities \cup {a}
    BY <1>2, <1>4, <1>5, <1>9
  <1>16. Sound(t, b + 1) /\ Follows(s, t, b, 1)
    BY <1>10, <1>11, <1>12, <1>13, <1>14, <1>15, GrowthSound DEF d
  <1> QED BY <1>3, <1>16

(* A new credential gets an id and a runtime id nothing else has.          *)
LEMMA AddKeySound ==
  ASSUME NEW s, NEW b \in Nat, Sound(s, b), NEW u \in Ids(s.db.upstreams)
  PROVE  LET t == [s EXCEPT !.db = AddKey(s.db, u, b + 1)] IN
         /\ Sound(t, b + 1) /\ Follows(s, t, b, 1)
         /\ \A c \in t.db.credentials : c \in s.db.credentials \/ c.id = b + 1
  <1> DEFINE d == s.db
             k == b + 1
             x == [id |-> k, runtime |-> NextRuntime(d), upstream |-> u]
             e == [d EXCEPT !.credentials = d.credentials \cup {x},
                            !.secrets = d.secrets \cup {k}]
             t == [s EXCEPT !.db = e]
  <1>1. s \in States /\ d \in Tables /\ Whole(d)
    BY DEF Sound, Whole
  <1>2. AddKey(s.db, u, b + 1) = e
    BY DEF AddKey
  <1>3. x \in Credentials /\ x.id = b + 1 /\ x.upstream = u /\ x.runtime = NextRuntime(d)
    <2>1. u \in Nat
      BY <1>1 DEF Ids, Tables, Upstreams
    <2>2. NextRuntime(d) \in Nat
      BY <1>1, NewIds
    <2> QED BY <2>1, <2>2 DEF Credentials
  <1>4. \A c \in d.credentials : /\ c.runtime < NextRuntime(d) /\ c.runtime \in Nat
                                 /\ c.id \in Nat /\ c.id <= b /\ c.id # b + 1
    <2>1. \A c \in d.credentials : c.runtime < NextRuntime(d)
      BY <1>1, NewIds
    <2>2. \A c \in d.credentials : c.runtime \in Nat /\ c.id \in Nat /\ c.id <= b
      BY <1>1 DEF Tables, Credentials, Sound
    <2> QED BY <2>1, <2>2
  <1>0. k \in Nat /\ k = b + 1
    OBVIOUS
  <1> HIDE DEF d, x, e, t, k
  <1>5. /\ e \in Tables
        /\ e.accounts = d.accounts /\ e.identities = d.identities
        /\ e.upstreams = d.upstreams /\ e.routes = d.routes /\ e.rules = d.rules
        /\ e.keys = d.keys /\ e.credentials = d.credentials \cup {x}
        /\ e.secrets = d.secrets \cup {k}
    BY <1>0, <1>1, <1>3 DEF Tables, e
  <1>6. t \in States /\ t.db = e /\ t.log = s.log
    BY <1>1, <1>5, WithTables DEF t
  <1>7. Whole(e)
    <2>1. Finite(e)
      <3>1. IsFiniteSet(d.credentials \cup {x})
        BY <1>1, FS_AddElement DEF Whole, Finite
      <3> QED BY <1>1, <1>5, <3>1 DEF Whole, Finite
    <2>2. References(e, {})
      <3>1. d.secrets \cup {k} \subseteq Ids(d.credentials \cup {x})
        BY <1>0, <1>1, <1>3 DEF Whole, References, Ids
      <3>2. \A c \in d.credentials \cup {x} : c.upstream \in Ids(d.upstreams)
        BY <1>1, <1>3 DEF Whole, References, d
      <3> QED BY <1>1, <1>5, <3>1, <3>2 DEF Whole, References
    <2>3. Served(e)
      BY <1>1, <1>5 DEF Whole, Served
    <2>4. Unique(e.identities) /\ e.accounts \subseteq e.identities
      BY <1>1, <1>5 DEF Whole
    <2>5. Unique(e.credentials)
      BY <1>1, <1>3, <1>4, <1>5 DEF Whole, Unique
    <2>6. OneRuntime(e)
      <3>1. \A c \in d.credentials : c.runtime # x.runtime
        <4>1. NextRuntime(d) \in Nat
          BY <1>1, NewIds
        <4> QED BY <1>3, <1>4, <4>1
      <3> QED BY <1>1, <1>5, <3>1 DEF Whole, OneRuntime
    <2> QED BY <1>5, <2>1, <2>2, <2>3, <2>4, <2>5, <2>6 DEF Whole
  <1>8. Halves(d, e)
    BY <1>1, <1>3, <1>4, <1>5 DEF Whole, Unique, Halves
  <1>9. \A c \in e.credentials : c.id <= b + 1
    BY <1>3, <1>4, <1>5
  <1>10. Ids(d.credentials) \subseteq Ids(e.credentials)
    BY <1>5 DEF Ids
  <1>11. Sound(t, b + 1) /\ Follows(s, t, b, 1)
    BY <1>5, <1>6, <1>7, <1>8, <1>9, <1>10, GrowthSound DEF d
  <1>12. \A c \in t.db.credentials : c \in d.credentials \/ c.id = b + 1
    BY <1>3, <1>5, <1>6
  <1> QED BY <1>2, <1>11, <1>12 DEF t, d

LEMMA SetUpstreamKeysSound ==
  ASSUME NEW s, NEW b \in Nat, Sound(s, b), NEW a \in Ids(s.db.accounts), NEW keep,
         NEW n \in {0, 1}, NEW new, new = IF n = 0 THEN None ELSE b + 1
  PROVE  LET t == SetUpstreamKeys(s, a, keep, new) IN
         Sound(t, b + n) /\ Follows(s, t, b, n)
  <1> DEFINE u == (CHOOSE x \in UpstreamsOf(s.db, {a}) : TRUE).id
             gone == {c.id : c \in {c \in s.db.credentials :
                          c.upstream = u /\ c.id \in s.db.secrets /\ c.id \notin keep}}
             p == PurgeCredentials(s, gone)
             t == SetUpstreamKeys(s, a, keep, new)
  <1>1. t = IF new = None THEN p ELSE [p EXCEPT !.db = AddKey(p.db, u, new)]
    BY DEF SetUpstreamKeys
  <1>2. u \in Ids(s.db.upstreams)
    <2>1. PICK x \in s.db.upstreams : x.account = a
      BY DEF Sound, Whole, Served, Ids
    <2>2. x \in UpstreamsOf(s.db, {a})
      BY <2>1 DEF UpstreamsOf
    <2>3. (CHOOSE y \in UpstreamsOf(s.db, {a}) : TRUE) \in UpstreamsOf(s.db, {a})
      BY <2>2
    <2> QED BY <2>3 DEF UpstreamsOf, Ids
  <1> HIDE DEF u, gone, t
  <1>3. Sound(p, b) /\ Follows(s, p, b, 0) /\ p.db.upstreams = s.db.upstreams
    BY DeleteCredentialsSound
  <1> HIDE DEF p
  <1>4. CASE n = 0
    <2>1. t = p /\ b + n = b
      BY <1>1, <1>4
    <2> QED BY <1>3, <1>4, <2>1 DEF t
  <1>5. CASE n = 1
    <2>1. new = b + 1 /\ new # None
      BY <1>5, NoneAssumption
    <2>2. /\ Sound(t, b + 1) /\ Follows(p, t, b, 1)
          /\ \A c \in t.db.credentials : c \in p.db.credentials \/ c.id = b + 1
      BY <1>1, <1>2, <1>3, <2>1, AddKeySound
    <2>3. Follows(s, t, b, 1)
      <3>1. Kin(t.log, s.log)
        <4>1. Kin(t.log, p.log) /\ Kin(p.log, s.log)
          BY <1>3, <2>2 DEF Follows
        <4> QED BY <4>1 DEF Kin
      <3>2. p.db.identities = s.db.identities
        BY <1>3 DEF Follows
      <3>3. Halves(s.db, t.db)
        <4>1. ASSUME NEW c \in s.db.credentials, NEW x \in t.db.credentials, c.id = x.id
              PROVE  /\ c.runtime = x.runtime
                     /\ c.id \in s.db.secrets => c.id \in t.db.secrets
          <5>1. Halves(s.db, p.db) /\ Halves(p.db, t.db)
            BY <1>3, <2>2 DEF Follows
          <5>2. \E y \in p.db.credentials : y.id = x.id
            <6>1. x \in p.db.credentials \/ x.id = b + 1
              BY <2>2
            <6>2. c.id # b + 1
              <7>1. c.id <= b
                BY DEF Sound
              <7>2. c.id \in Nat
                BY DEF Sound, States, Tables, Credentials
              <7> QED BY <7>1, <7>2
            <6> QED BY <4>1, <6>1, <6>2
          <5> QED BY <4>1, <5>1, <5>2 DEF Halves
        <4> QED BY <4>1 DEF Halves
      <3> QED BY <2>2, <3>1, <3>2, <3>3 DEF Follows
    <2> QED BY <1>5, <2>2, <2>3 DEF t
  <1> QED BY <1>4, <1>5

LEMMA ConfirmCloudKeySound ==
  ASSUME NEW s, NEW b \in Nat, Sound(s, b), NEW c \in Ids(s.db.credentials)
  PROVE  LET t == ConfirmCloudKey(s, c) IN Sound(t, b) /\ Follows(s, t, b, 0)
  <1> DEFINE d == s.db
             e == [d EXCEPT !.secrets = d.secrets \cup {c}]
             t == [s EXCEPT !.db = e]
  <1>1. s \in States /\ d \in Tables /\ Whole(d)
    BY DEF Sound, Whole
  <1>2. ConfirmCloudKey(s, c) = t
    BY DEF ConfirmCloudKey
  <1>3. c \in Nat
    BY <1>1 DEF Ids, Tables, Credentials
  <1>4. \A x \in d.credentials : x.id <= b
    BY DEF Sound
  <1>5. c \in Ids(d.credentials)
    OBVIOUS
  <1> HIDE DEF d, e, t
  <1>6. /\ e \in Tables
        /\ e.accounts = d.accounts /\ e.identities = d.identities
        /\ e.upstreams = d.upstreams /\ e.routes = d.routes /\ e.rules = d.rules
        /\ e.keys = d.keys /\ e.credentials = d.credentials
        /\ e.secrets = d.secrets \cup {c}
    BY <1>1, <1>3 DEF Tables, e
  <1>7. t \in States /\ t.db = e /\ t.log = s.log
    BY <1>1, <1>6, WithTables DEF t
  <1>8. Whole(e)
    BY <1>1, <1>5, <1>6 DEF Whole, Finite, References, Served, OneRuntime
  <1>9. Halves(d, e)
    BY <1>1, <1>6, SameHalves
  <1>10. Sound(t, b) /\ Follows(s, t, b, 0)
    BY <1>4, <1>6, <1>7, <1>8, <1>9, KeepSound DEF d
  <1> QED BY <1>2, <1>10

(* The rules of an aggregate are written anew, over upstreams of live      *)
(* accounts.                                                               *)
LEMMA ReplaceAggregateRulesIs ==
  ASSUME NEW d, Whole(d), NEW route \in Ids(d.routes),
         NEW n \in 1..2, NEW entries \in [1..n -> Ids(d.accounts)]
  PROVE  LET e == ReplaceAggregateRules(d, route, entries) IN
         /\ Whole(e)
         /\ e.accounts = d.accounts /\ e.identities = d.identities
         /\ e.upstreams = d.upstreams /\ e.routes = d.routes
         /\ e.keys = d.keys /\ e.credentials = d.credentials /\ e.secrets = d.secrets
  <1> DEFINE first == NextId(d, "rules")
             up(p) == (CHOOSE u \in UpstreamsOf(d, {entries[p + 1]}) : TRUE).id
             g == [p \in 0..(n - 1) |-> [id |-> first + p, route |-> route, priority |-> p,
                                         upstream |-> up(p)]]
             new == {g[p] : p \in 0..(n - 1)}
             rules == {r \in d.rules : r.route # route} \cup new
             f == [d EXCEPT !.rules = rules]
             e == ReplaceAggregateRules(d, route, entries)
  <1>1. d \in Tables
    BY DEF Whole
  <1>2. Len(entries) = n
    <2>1. entries \in Seq(Ids(d.accounts))
      BY SeqDef
    <2>2. DOMAIN entries = 1..Len(entries) /\ Len(entries) \in Nat
      BY <2>1, LenProperties
    <2>3. 1..n = 1..Len(entries)
      BY <2>2
    <2> QED BY <2>2, <2>3
  <1>3. e = Took(f, "rules", first + n - 1)
    <2>1. new = {[id |-> first + p, route |-> route, priority |-> p,
                  upstream |-> (CHOOSE u \in UpstreamsOf(d, {entries[p + 1]}) : TRUE).id] :
                 p \in 0..(n - 1)}
      OBVIOUS
    <2> HIDE DEF new, first
    <2>2. e = Took([d EXCEPT !.rules = {r \in d.rules : r.route # route} \cup new],
                   "rules", first + n - 1)
      BY <1>2, <2>1 DEF ReplaceAggregateRules, first
    <2> QED BY <2>2
  <1>4. first \in Nat /\ first + n - 1 \in Nat
    <2>1. d.sequence["rules"] \in Nat
      BY NewIds
    <2>2. first = d.sequence["rules"] + 1
      BY DEF NextId
    <2> HIDE DEF first
    <2> QED BY <2>1, <2>2
  <1>5. \A p \in 0..(n - 1) : up(p) \in Ids(d.upstreams)
    <2> SUFFICES ASSUME NEW p \in 0..(n - 1) PROVE up(p) \in Ids(d.upstreams)
      OBVIOUS
    <2>1. entries[p + 1] \in Ids(d.accounts)
      OBVIOUS
    <2>2. PICK u \in d.upstreams : u.account = entries[p + 1]
      BY <2>1 DEF Whole, Served, Ids
    <2>3. u \in UpstreamsOf(d, {entries[p + 1]})
      BY <2>2 DEF UpstreamsOf
    <2>4. (CHOOSE x \in UpstreamsOf(d, {entries[p + 1]}) : TRUE)
             \in UpstreamsOf(d, {entries[p + 1]})
      BY <2>3
    <2> QED BY <2>4 DEF UpstreamsOf, Ids
  <1>6. \A r \in new : /\ r \in Rules /\ r.route = route /\ r.upstream \in Ids(d.upstreams)
    <2>1. Ids(d.upstreams) \subseteq Nat /\ route \in Nat
      <3>1. Ids(d.upstreams) \subseteq Nat
        BY <1>1 DEF Tables, Upstreams, Ids
      <3>2. Ids(d.routes) \subseteq Nat
        BY <1>1 DEF Tables, RouteSets, Ids
      <3> QED BY <3>1, <3>2
    <2> HIDE DEF up, first
    <2>2. \A p \in 0..(n - 1) : up(p) \in Nat /\ p \in Nat /\ first + p \in Nat
      BY <1>4, <1>5, <2>1
    <2>3. \A p \in 0..(n - 1) : /\ g[p] \in Rules /\ g[p].route = route
                                /\ g[p].upstream \in Ids(d.upstreams)
      BY <1>5, <2>1, <2>2 DEF Rules
    <2> HIDE DEF g
    <2> QED BY <2>3
  <1>7. IsFiniteSet(rules)
    <2>1. g = [p \in 0..(n - 1) |-> g[p]]
      OBVIOUS
    <2>2. IsFiniteSet(0..(n - 1))
      BY FS_Interval
    <2> HIDE DEF g
    <2>3. IsFiniteSet(new)
      BY <2>1, <2>2, ImageFinite
    <2>4. IsFiniteSet({r \in d.rules : r.route # route})
      BY FS_Subset DEF Whole, Finite
    <2> HIDE DEF new
    <2> QED BY <2>3, <2>4, FS_Union
  <1> HIDE DEF new
  <1>8. rules \in SUBSET Rules
    BY <1>1, <1>6 DEF Tables
  <1>9. \A r \in rules : r.route \in Ids(d.routes) /\ r.upstream \in Ids(d.upstreams)
    BY <1>6 DEF Whole, References
  <1> HIDE DEF rules, e, f
  <1>10. /\ f \in Tables
         /\ f.accounts = d.accounts /\ f.identities = d.identities
         /\ f.upstreams = d.upstreams /\ f.routes = d.routes /\ f.rules = rules
         /\ f.keys = d.keys /\ f.credentials = d.credentials /\ f.secrets = d.secrets
    BY <1>1, <1>8 DEF Tables, f
  <1>11. /\ e \in Tables
         /\ e.accounts = d.accounts /\ e.identities = d.identities
         /\ e.upstreams = d.upstreams /\ e.routes = d.routes /\ e.rules = rules
         /\ e.keys = d.keys /\ e.credentials = d.credentials /\ e.secrets = d.secrets
    <2> DEFINE top == first + n - 1
    <2>1. e = Took(f, "rules", top) /\ top \in Nat
      BY <1>3, <1>4
    <2> HIDE DEF top
    <2>2. /\ e \in Tables
          /\ e.accounts = f.accounts /\ e.identities = f.identities
          /\ e.upstreams = f.upstreams /\ e.routes = f.routes /\ e.rules = f.rules
          /\ e.keys = f.keys /\ e.credentials = f.credentials /\ e.secrets = f.secrets
      BY <1>10, <2>1, TookIs
    <2> QED BY <1>10, <2>2
  <1>12. Whole(e)
    <2>1. Finite(e)
      BY <1>7, <1>11 DEF Whole, Finite
    <2>2. References(e, {})
      BY <1>9, <1>11 DEF Whole, References
    <2> QED BY <1>11, <2>1, <2>2 DEF Whole, Served, OneRuntime
  <1> QED BY <1>11, <1>12 DEF e

LEMMA UpdateAggregateSound ==
  ASSUME NEW s, NEW b \in Nat, Sound(s, b), NEW route \in Ids(s.db.routes),
         NEW n \in 1..2, NEW entries \in [1..n -> Ids(s.db.accounts)]
  PROVE  LET t == [s EXCEPT !.db = ReplaceAggregateRules(s.db, route, entries)] IN
         Sound(t, b) /\ Follows(s, t, b, 0)
  <1> DEFINE d == s.db
             e == ReplaceAggregateRules(d, route, entries)
             t == [s EXCEPT !.db = e]
  <1>1. s \in States /\ Whole(d)
    BY DEF Sound
  <1>2. /\ Whole(e)
        /\ e.accounts = d.accounts /\ e.identities = d.identities
        /\ e.upstreams = d.upstreams /\ e.routes = d.routes
        /\ e.keys = d.keys /\ e.credentials = d.credentials /\ e.secrets = d.secrets
    BY <1>1, ReplaceAggregateRulesIs
  <1>3. \A x \in d.credentials : x.id <= b
    BY DEF Sound
  <1> HIDE DEF d, e, t
  <1>4. t \in States /\ t.db = e /\ t.log = s.log
    BY <1>1, <1>2, WithTables DEF t, Whole
  <1>5. Halves(d, e)
    BY <1>1, <1>2, SameHalves
  <1>6. Sound(t, b) /\ Follows(s, t, b, 0)
    BY <1>2, <1>3, <1>4, <1>5, KeepSound DEF d
  <1> QED BY <1>6 DEF t, e, d

LEMMA CreateAggregateSound ==
  ASSUME NEW s, NEW b \in Nat, Sound(s, b),
         NEW n \in 1..2, NEW entries \in [1..n -> Ids(s.db.accounts)]
  PROVE  LET t == CreateAggregate(s, entries) IN Sound(t, b) /\ Follows(s, t, b, 0)
  <1> DEFINE d == s.db
             i == NextSharedId(d)
             x == [id |-> i, account |-> None]
             f == [d EXCEPT !.routes = d.routes \cup {x}]
             e == ReplaceAggregateRules(f, i, entries)
             t == [s EXCEPT !.db = e]
  <1>1. s \in States /\ Whole(d) /\ d \in Tables
    BY DEF Sound, Whole
  <1>2. CreateAggregate(s, entries) = t
    BY DEF CreateAggregate
  <1>3. i \in Nat
    BY <1>1, NewIds
  <1>4. \A c \in d.credentials : c.id <= b
    BY DEF Sound
  <1>5. entries \in [1..n -> Ids(d.accounts)]
    OBVIOUS
  <1> HIDE DEF d, i, e, t
  <1>6. x \in RouteSets /\ x.id = i /\ x.account = None
    BY <1>3 DEF RouteSets, IdOrNull
  <1> HIDE DEF x
  <1>7. /\ f \in Tables
        /\ f.accounts = d.accounts /\ f.identities = d.identities
        /\ f.upstreams = d.upstreams /\ f.routes = d.routes \cup {x} /\ f.rules = d.rules
        /\ f.keys = d.keys /\ f.credentials = d.credentials /\ f.secrets = d.secrets
    BY <1>1, <1>6 DEF Tables
  <1> HIDE DEF f
  <1>8. Whole(f)
    <2>1. Finite(f)
      <3>1. IsFiniteSet(d.routes \cup {x})
        BY <1>1, FS_AddElement DEF Whole, Finite
      <3> QED BY <1>1, <1>7, <3>1 DEF Whole, Finite
    <2>2. References(f, {})
      BY <1>1, <1>6, <1>7 DEF Whole, References, Ids
    <2> QED BY <1>1, <1>7, <2>1, <2>2 DEF Whole, Served, OneRuntime
  <1>9. i \in Ids(f.routes)
    BY <1>6, <1>7 DEF Ids
  <1>10. /\ Whole(e)
         /\ e.accounts = f.accounts /\ e.identities = f.identities
         /\ e.upstreams = f.upstreams /\ e.routes = f.routes
         /\ e.keys = f.keys /\ e.credentials = f.credentials /\ e.secrets = f.secrets
    <2>1. entries \in [1..n -> Ids(f.accounts)]
      BY <1>5, <1>7
    <2> QED BY <1>8, <1>9, <2>1, ReplaceAggregateRulesIs DEF e
  <1>11. t \in States /\ t.db = e /\ t.log = s.log
    BY <1>1, <1>10, WithTables DEF t, Whole
  <1>12. Halves(d, e)
    BY <1>1, <1>7, <1>10, SameHalves
  <1>13. Ids(d.routes) \subseteq Ids(e.routes)
    BY <1>7, <1>10 DEF Ids
  <1>14. Sound(t, b) /\ Follows(s, t, b, 0)
    BY <1>4, <1>7, <1>10, <1>11, <1>12, <1>13, KeepSound DEF d
  <1> QED BY <1>2, <1>14

LEMMA CreateKeySound ==
  ASSUME NEW s, NEW b \in Nat, Sound(s, b), NEW route \in Ids(s.db.routes)
  PROVE  LET t == CreateKey(s, route) IN Sound(t, b) /\ Follows(s, t, b, 0)
  <1> DEFINE d == s.db
             k == NextId(d, "keys")
             x == [id |-> k, route |-> route]
             f == [d EXCEPT !.keys = d.keys \cup {x}]
             e == Took(f, "keys", k)
             t == [s EXCEPT !.db = e]
  <1>1. s \in States /\ Whole(d) /\ d \in Tables
    BY DEF Sound, Whole
  <1>2. CreateKey(s, route) = t
    BY DEF CreateKey
  <1>3. k \in Nat
    BY <1>1, NewIds
  <1>4. \A c \in d.credentials : c.id <= b
    BY DEF Sound
  <1>5. route \in Ids(d.routes)
    OBVIOUS
  <1> HIDE DEF d, k, e, t
  <1>6. x \in Keys /\ x.route = route
    BY <1>1, <1>3, <1>5 DEF Keys, Ids, Tables, RouteSets
  <1> HIDE DEF x
  <1>7. /\ f \in Tables
        /\ f.accounts = d.accounts /\ f.identities = d.identities
        /\ f.upstreams = d.upstreams /\ f.routes = d.routes /\ f.rules = d.rules
        /\ f.keys = d.keys \cup {x} /\ f.credentials = d.credentials /\ f.secrets = d.secrets
    BY <1>1, <1>6 DEF Tables
  <1> HIDE DEF f
  <1>8. /\ e \in Tables
        /\ e.accounts = f.accounts /\ e.identities = f.identities
        /\ e.upstreams = f.upstreams /\ e.routes = f.routes /\ e.rules = f.rules
        /\ e.keys = f.keys /\ e.credentials = f.credentials /\ e.secrets = f.secrets
    BY <1>3, <1>7, TookIs DEF e
  <1>9. Whole(e)
    <2>1. Finite(e)
      <3>1. IsFiniteSet(d.keys \cup {x})
        BY <1>1, FS_AddElement DEF Whole, Finite
      <3> QED BY <1>1, <1>7, <1>8, <3>1 DEF Whole, Finite
    <2>2. References(e, {})
      BY <1>1, <1>5, <1>6, <1>7, <1>8 DEF Whole, References
    <2> QED BY <1>1, <1>7, <1>8, <2>1, <2>2 DEF Whole, Served, OneRuntime
  <1>10. t \in States /\ t.db = e /\ t.log = s.log
    BY <1>1, <1>8, WithTables DEF t
  <1>11. Halves(d, e)
    BY <1>1, <1>7, <1>8, SameHalves
  <1>12. Ids(d.keys) \subseteq Ids(e.keys)
    BY <1>7, <1>8 DEF Ids
  <1>13. Sound(t, b) /\ Follows(s, t, b, 0)
    BY <1>4, <1>7, <1>8, <1>9, <1>10, <1>11, <1>12, KeepSound DEF d
  <1> QED BY <1>2, <1>13

LEMMA MoveKeySound ==
  ASSUME NEW s, NEW b \in Nat, Sound(s, b), NEW k \in Ids(s.db.keys),
         NEW route \in Ids(s.db.routes)
  PROVE  LET t == MoveKey(s, k, route) IN Sound(t, b) /\ Follows(s, t, b, 0)
  <1> DEFINE d == s.db
             x == [id |-> k, route |-> route]
             e == [d EXCEPT !.keys = Without(d.keys, k) \cup {x}]
             t == [s EXCEPT !.db = e]
  <1>1. s \in States /\ Whole(d) /\ d \in Tables
    BY DEF Sound, Whole
  <1>2. MoveKey(s, k, route) = t
    BY DEF MoveKey
  <1>3. \A c \in d.credentials : c.id <= b
    BY DEF Sound
  <1>4. k \in Ids(d.keys) /\ route \in Ids(d.routes)
    OBVIOUS
  <1> HIDE DEF d, t
  <1>5. x \in Keys /\ x.id = k /\ x.route = route
    BY <1>1, <1>4 DEF Keys, Ids, Tables, RouteSets
  <1> HIDE DEF x
  <1>6. /\ e \in Tables
        /\ e.accounts = d.accounts /\ e.identities = d.identities
        /\ e.upstreams = d.upstreams /\ e.routes = d.routes /\ e.rules = d.rules
        /\ e.keys = Without(d.keys, k) \cup {x}
        /\ e.credentials = d.credentials /\ e.secrets = d.secrets
    BY <1>1, <1>5 DEF Tables, Without
  <1> HIDE DEF e
  <1>7. Whole(e)
    <2>1. Finite(e)
      <3>1. IsFiniteSet(Without(d.keys, k))
        BY <1>1, FS_Subset DEF Whole, Finite, Without
      <3>2. IsFiniteSet(Without(d.keys, k) \cup {x})
        BY <3>1, FS_AddElement
      <3> QED BY <1>1, <1>6, <3>2 DEF Whole, Finite
    <2>2. References(e, {})
      BY <1>1, <1>4, <1>5, <1>6 DEF Whole, References, Without
    <2> QED BY <1>1, <1>6, <2>1, <2>2 DEF Whole, Served, OneRuntime
  <1>8. t \in States /\ t.db = e /\ t.log = s.log
    BY <1>1, <1>6, WithTables DEF t
  <1>9. Halves(d, e)
    BY <1>1, <1>6, SameHalves
  <1>10. Ids(d.keys) \subseteq Ids(e.keys)
    BY <1>5, <1>6 DEF Ids, Without
  <1>11. Sound(t, b) /\ Follows(s, t, b, 0)
    BY <1>3, <1>6, <1>7, <1>8, <1>9, <1>10, KeepSound DEF d
  <1> QED BY <1>2, <1>11
-----------------------------------------------------------------------------
(* What a merge leaves.                                                    *)

NewCredentials(d, c) == {r \in c.credentials : r.id \notin Ids(d.credentials)}
RuntimeOf(d, c, r) == IF r \in NewCredentials(d, c) THEN NewRuntime(d, NewCredentials(d, c), r)
                                                    ELSE Row(d.credentials, r.id).runtime
Image(d, c) == {[r EXCEPT !.runtime = RuntimeOf(d, c, r)] : r \in c.credentials}

(* A credential of the artifact keeps its local runtime id, or gets one    *)
(* above every local one and of its own.                                   *)
LEMMA RuntimesApart ==
  ASSUME NEW d, NEW c, Whole(d), Whole(c)
  PROVE  /\ \A r \in c.credentials : RuntimeOf(d, c, r) \in Nat
         /\ \A r, q \in c.credentials : RuntimeOf(d, c, r) = RuntimeOf(d, c, q) => r = q
         /\ \A r \in c.credentials, x \in d.credentials :
              r.id = x.id => RuntimeOf(d, c, r) = x.runtime
  <1> DEFINE new == NewCredentials(d, c)
             Below(r) == {x \in new : x.id < r.id}
             next == NextRuntime(d)
  <1>1. /\ d \in Tables /\ c \in Tables /\ IsFiniteSet(c.credentials)
        /\ \A r \in c.credentials : r.id \in Nat
        /\ \A x \in d.credentials : x.runtime \in Nat
    BY DEF Whole, Finite, Tables, Credentials
  <1>2. next \in Nat /\ \A x \in d.credentials : x.runtime < next
    BY NewIds
  <1>3. new \subseteq c.credentials /\ IsFiniteSet(new)
    BY <1>1, FS_Subset DEF NewCredentials
  <1>4. ASSUME NEW r \in new
        PROVE  /\ RuntimeOf(d, c, r) = next + Cardinality(Below(r))
               /\ Cardinality(Below(r)) \in Nat /\ IsFiniteSet(Below(r))
    <2>1. RuntimeOf(d, c, r) = next + Cardinality(Below(r))
      BY <1>4 DEF RuntimeOf, NewRuntime
    <2>2. IsFiniteSet(Below(r))
      BY <1>3, FS_Subset
    <2>3. Cardinality(Below(r)) \in Nat
      BY <2>2, FS_CardinalityType
    <2> QED BY <2>1, <2>2, <2>3
  <1>5. ASSUME NEW r \in c.credentials, r \notin new
        PROVE  \E x \in d.credentials : x.id = r.id /\ RuntimeOf(d, c, r) = x.runtime
    <2>1. PICK x \in d.credentials : x.id = r.id
      BY <1>5 DEF NewCredentials, Ids
    <2>2. /\ Row(d.credentials, r.id) \in d.credentials
          /\ Row(d.credentials, r.id).id = r.id
      BY <2>1 DEF Row
    <2>3. RuntimeOf(d, c, r) = Row(d.credentials, r.id).runtime
      BY <1>5 DEF RuntimeOf
    <2> QED BY <2>2, <2>3
  <1>6. ASSUME NEW r \in new, NEW q \in new, r.id < q.id
        PROVE  RuntimeOf(d, c, r) < RuntimeOf(d, c, q)
    <2>1. r.id \in Nat /\ q.id \in Nat /\ \A x \in new : x.id \in Nat
      BY <1>1, <1>3
    <2>2. Below(r) \subseteq Below(q)
      <3>1. \A x \in new : x.id < r.id => x.id < q.id
        BY <1>6, <2>1
      <3> QED BY <3>1
    <2>3. r \in Below(q) /\ r \notin Below(r)
      BY <1>6, <2>1
    <2>4. IsFiniteSet(Below(q))
      BY <1>4
    <2>5. /\ Cardinality(Below(r)) <= Cardinality(Below(q))
          /\ Cardinality(Below(r)) # Cardinality(Below(q))
      <3> HIDE DEF Below
      <3> QED BY <2>2, <2>3, <2>4, FS_Subset
    <2> DEFINE k == Cardinality(Below(r))
               l == Cardinality(Below(q))
    <2>6. /\ k \in Nat /\ l \in Nat /\ k <= l /\ k # l
          /\ RuntimeOf(d, c, r) = next + k /\ RuntimeOf(d, c, q) = next + l
      BY <1>4, <2>5
    <2> HIDE DEF k, l, next
    <2> QED BY <1>2, <2>6
  <1> HIDE DEF new, Below, next
  <1>7. ASSUME NEW r \in c.credentials
        PROVE  /\ RuntimeOf(d, c, r) \in Nat
               /\ r \in new => next <= RuntimeOf(d, c, r)
               /\ r \notin new => RuntimeOf(d, c, r) < next
    <2>1. CASE r \in new
      <3> DEFINE k == Cardinality(Below(r))
      <3>1. RuntimeOf(d, c, r) = next + k /\ k \in Nat
        BY <1>4, <2>1
      <3> HIDE DEF k
      <3> QED BY <1>2, <2>1, <3>1
    <2>2. CASE r \notin new
      BY <1>1, <1>2, <1>5, <2>2
    <2> QED BY <2>1, <2>2
  <1>8. ASSUME NEW r \in c.credentials, NEW q \in c.credentials,
               RuntimeOf(d, c, r) = RuntimeOf(d, c, q)
        PROVE  r = q
    <2>1. r.id \in Nat /\ q.id \in Nat /\ RuntimeOf(d, c, r) \in Nat
      BY <1>1, <1>7
    <2>2. r.id = q.id => r = q
      BY DEF Whole, Unique
    <2>3. CASE r \in new /\ q \in new
      <3>1. ~ (r.id < q.id) /\ ~ (q.id < r.id)
        <4> DEFINE k == RuntimeOf(d, c, r)
                   l == RuntimeOf(d, c, q)
        <4>1. /\ r.id < q.id => k < l
              /\ q.id < r.id => l < k
              /\ k = l /\ k \in Nat
          BY <1>6, <1>8, <2>1, <2>3
        <4> HIDE DEF k, l
        <4> QED BY <4>1
      <3> QED BY <2>1, <2>2, <3>1
    <2>4. CASE r \notin new /\ q \notin new
      <3>1. PICK x \in d.credentials : x.id = r.id /\ RuntimeOf(d, c, r) = x.runtime
        BY <1>5, <2>4
      <3>2. PICK y \in d.credentials : y.id = q.id /\ RuntimeOf(d, c, q) = y.runtime
        BY <1>5, <2>4
      <3>3. x = y
        BY <1>8, <3>1, <3>2 DEF Whole, OneRuntime
      <3> QED BY <2>2, <3>1, <3>2, <3>3
    <2>5. ~ (r \in new /\ q \notin new) /\ ~ (r \notin new /\ q \in new)
      <3> DEFINE k == RuntimeOf(d, c, r)
                 l == RuntimeOf(d, c, q)
      <3>1. /\ r \in new /\ q \notin new => next <= k /\ l < next
            /\ r \notin new /\ q \in new => next <= l /\ k < next
            /\ k = l /\ k \in Nat
        BY <1>7, <1>8
      <3> HIDE DEF k, l
      <3> QED BY <1>2, <3>1
    <2> QED BY <2>3, <2>4, <2>5
  <1>9. ASSUME NEW r \in c.credentials, NEW x \in d.credentials, r.id = x.id
        PROVE  RuntimeOf(d, c, r) = x.runtime
    <2>1. r \notin new
      BY <1>9 DEF new, NewCredentials, Ids
    <2>2. PICK y \in d.credentials : y.id = r.id /\ RuntimeOf(d, c, r) = y.runtime
      BY <1>5, <2>1
    <2>3. x = y
      BY <1>9, <2>2 DEF Whole, Unique
    <2> QED BY <2>2, <2>3
  <1> QED BY <1>7, <1>8, <1>9

LEMMA ImageIs ==
  ASSUME NEW d, NEW c, Whole(d), Whole(c)
  PROVE  /\ Image(d, c) \in SUBSET Credentials /\ IsFiniteSet(Image(d, c))
         /\ \A x \in Image(d, c) : \E r \in c.credentials :
              x.id = r.id /\ x.upstream = r.upstream /\ x.runtime = RuntimeOf(d, c, r)
         /\ \A r \in c.credentials : \E x \in Image(d, c) :
              x.id = r.id /\ x.upstream = r.upstream
         /\ Unique(Image(d, c))
         /\ \A x, y \in Image(d, c) : x.runtime = y.runtime => x = y
         /\ MergedCredentials(d, c) = Upsert(d.credentials, Image(d, c))
  <1> DEFINE Of(r) == [r EXCEPT !.runtime = RuntimeOf(d, c, r)]
             f == [r \in c.credentials |-> Of(r)]
  <1>1. c.credentials \in SUBSET Credentials /\ IsFiniteSet(c.credentials)
    BY DEF Whole, Finite, Tables
  <1>2. ASSUME NEW r \in c.credentials
        PROVE  /\ Of(r) \in Credentials
               /\ Of(r).id = r.id /\ Of(r).upstream = r.upstream
               /\ Of(r).runtime = RuntimeOf(d, c, r)
    <2>1. r \in Credentials /\ RuntimeOf(d, c, r) \in Nat
      BY <1>1, RuntimesApart
    <2> QED BY <2>1 DEF Credentials
  <1>3. Image(d, c) = {Of(r) : r \in c.credentials}
    BY DEF Image
  <1>4. IsFiniteSet(Image(d, c))
    <2>1. Image(d, c) = {f[r] : r \in c.credentials} /\ f = [r \in c.credentials |-> f[r]]
      BY <1>3
    <2> HIDE DEF f
    <2> QED BY <1>1, <2>1, ImageFinite
  <1>5. MergedCredentials(d, c) = Upsert(d.credentials, Image(d, c))
    BY DEF MergedCredentials, Image, RuntimeOf, NewCredentials
  <1> HIDE DEF Of, f
  <1>6. \A x \in Image(d, c) : \E r \in c.credentials : x = Of(r)
    BY <1>3
  <1>7. \A r \in c.credentials : Of(r) \in Image(d, c)
    BY <1>3
  <1>8. Image(d, c) \in SUBSET Credentials
    BY <1>2, <1>6
  <1>9. Unique(Image(d, c))
    <2>1. ASSUME NEW x \in Image(d, c), NEW y \in Image(d, c), x.id = y.id PROVE x = y
      <3>1. PICK r \in c.credentials : x = Of(r)
        BY <1>6
      <3>2. PICK q \in c.credentials : y = Of(q)
        BY <1>6
      <3>3. r = q
        BY <1>2, <2>1, <3>1, <3>2 DEF Whole, Unique
      <3> QED BY <3>1, <3>2, <3>3
    <2> QED BY <2>1 DEF Unique
  <1>10. ASSUME NEW x \in Image(d, c), NEW y \in Image(d, c), x.runtime = y.runtime PROVE x = y
    <2>1. PICK r \in c.credentials : x = Of(r)
      BY <1>6
    <2>2. PICK q \in c.credentials : y = Of(q)
      BY <1>6
    <2>3. r = q
      BY <1>2, <1>10, <2>1, <2>2, RuntimesApart
    <2> QED BY <2>1, <2>2, <2>3
  <1> QED BY <1>2, <1>4, <1>5, <1>6, <1>7, <1>8, <1>9, <1>10

(* Upsert, then a purge of what the artifact lacks, leaves its rows.       *)
LEMMA PurgedIsRemote ==
  ASSUME NEW local, NEW remote
  PROVE  /\ {x \in Upsert(local, remote) :
                x.id \notin Ids(Upsert(local, remote)) \ Ids(remote)} = remote
         /\ {x \in Upsert(local, remote) : x.id \in Ids(remote)} = remote
         /\ Ids(local) \subseteq Ids(Upsert(local, remote))
         /\ Ids(remote) \subseteq Ids(Upsert(local, remote))
  BY DEF Upsert, Ids

LEMMA UpsertUnique ==
  ASSUME NEW local, NEW remote, Unique(local), Unique(remote)
  PROVE  Unique(Upsert(local, remote))
  BY DEF Upsert, Ids, Unique

LEMMA NestedRules ==
  ASSUME NEW s \in States, NEW X
  PROVE  [s EXCEPT !.db.rules = X] = [db |-> [s.db EXCEPT !.rules = X], log |-> s.log]
  <1>1. s = [db |-> s.db, log |-> s.log]
    BY DEF States
  <1> QED BY <1>1

LEMMA UpsertedIs ==
  ASSUME NEW s \in States, NEW c, Whole(s.db), Whole(c), Attached(s.db, s.log)
  PROVE  LET d == s.db
             t == [s EXCEPT !.db = Upserted(d, c)]
         IN  /\ t \in States /\ t.log = s.log
             /\ t.db.accounts = Upsert(d.accounts, c.accounts)
             /\ t.db.identities = Upsert(d.identities, c.identities)
             /\ t.db.upstreams = Upsert(d.upstreams, c.upstreams)
             /\ t.db.routes = Upsert(d.routes, c.routes)
             /\ t.db.rules = Upsert(d.rules, c.rules)
             /\ t.db.keys = Upsert(d.keys, c.keys)
             /\ t.db.credentials = Upsert(d.credentials, Image(d, c))
             /\ t.db.secrets = d.secrets
             /\ Attached(t.db, t.log)
  <1> DEFINE d == s.db
             q == [upstreams |-> Max({d.sequence.upstreams} \cup Ids(c.upstreams)),
                   rules |-> Max({d.sequence.rules} \cup Ids(c.rules)),
                   keys |-> Max({d.sequence.keys} \cup Ids(c.keys))]
             e == [d EXCEPT !.identities = Upsert(d.identities, c.identities),
                            !.accounts = Upsert(d.accounts, c.accounts),
                            !.upstreams = Upsert(d.upstreams, c.upstreams),
                            !.routes = Upsert(d.routes, c.routes),
                            !.rules = Upsert(d.rules, c.rules),
                            !.keys = Upsert(d.keys, c.keys),
                            !.credentials = Upsert(d.credentials, Image(d, c)),
                            !.sequence = q]
             t == [s EXCEPT !.db = Upserted(d, c)]
  <1>1. d \in Tables /\ c \in Tables /\ Finite(c) /\ d.sequence \in Sequence
    BY DEF Whole, Tables
  <1>2. Upserted(d, c) = e
    <2>1. MergedCredentials(d, c) = Upsert(d.credentials, Image(d, c))
      BY ImageIs
    <2> QED BY <2>1 DEF Upserted
  <1>3. q \in Sequence
    <2>1. /\ d.sequence.upstreams \in Nat /\ d.sequence.rules \in Nat /\ d.sequence.keys \in Nat
      BY <1>1 DEF Sequence
    <2>2. /\ Ids(c.upstreams) \in SUBSET Nat /\ Ids(c.rules) \in SUBSET Nat
          /\ Ids(c.keys) \in SUBSET Nat
      BY <1>1 DEF Tables, Ids, Upstreams, Rules, Keys
    <2>3. /\ IsFiniteSet(Ids(c.upstreams)) /\ IsFiniteSet(Ids(c.rules))
          /\ IsFiniteSet(Ids(c.keys))
      BY <1>1, IdsFinite DEF Finite
    <2>4. /\ Max({d.sequence.upstreams} \cup Ids(c.upstreams)) \in Nat
          /\ Max({d.sequence.rules} \cup Ids(c.rules)) \in Nat
          /\ Max({d.sequence.keys} \cup Ids(c.keys)) \in Nat
      BY <2>1, <2>2, <2>3, GreatestBounds
    <2> QED BY <2>4 DEF Sequence
  <1>4. /\ Upsert(d.identities, c.identities) \in SUBSET Identities
        /\ Upsert(d.accounts, c.accounts) \in SUBSET Identities
        /\ Upsert(d.upstreams, c.upstreams) \in SUBSET Upstreams
        /\ Upsert(d.routes, c.routes) \in SUBSET RouteSets
        /\ Upsert(d.rules, c.rules) \in SUBSET Rules
        /\ Upsert(d.keys, c.keys) \in SUBSET Keys
        /\ Upsert(d.credentials, Image(d, c)) \in SUBSET Credentials
    <2>1. Image(d, c) \in SUBSET Credentials
      BY ImageIs
    <2> HIDE DEF d
    <2> QED BY <1>1, <2>1 DEF Upsert, Tables
  <1> HIDE DEF d, q
  <1>5. e \in Tables
    BY <1>1, <1>3, <1>4 DEF Tables
  <1>6. /\ e.accounts = Upsert(d.accounts, c.accounts)
        /\ e.identities = Upsert(d.identities, c.identities)
        /\ e.upstreams = Upsert(d.upstreams, c.upstreams)
        /\ e.routes = Upsert(d.routes, c.routes)
        /\ e.rules = Upsert(d.rules, c.rules)
        /\ e.keys = Upsert(d.keys, c.keys)
        /\ e.credentials = Upsert(d.credentials, Image(d, c))
        /\ e.secrets = d.secrets
    BY <1>1 DEF Tables
  <1> HIDE DEF e
  <1>7. t \in States /\ t.db = e /\ t.log = s.log
    BY <1>2, <1>5, WithTables
  <1> HIDE DEF t
  <1>8. Attached(e, s.log)
    <2>1. /\ Ids(d.accounts) \subseteq Ids(e.accounts) /\ Ids(d.routes) \subseteq Ids(e.routes)
          /\ Ids(d.keys) \subseteq Ids(e.keys) /\ Ids(d.credentials) \subseteq Ids(e.credentials)
      BY <1>6, PurgedIsRemote
    <2>2. Attached(d, s.log)
      BY DEF d
    <2> QED BY <2>1, <2>2 DEF Attached
  <1> QED BY <1>6, <1>7, <1>8 DEF t, d

(* The merge leaves the artifact's rows and every identity, with the local *)
(* half of the credentials; no foreign key of its tables or of the history *)
(* dangles, and no owner changes.                                          *)
LEMMA MergedRows ==
  ASSUME NEW s \in States, NEW c, Whole(s.db), Whole(c), Attached(s.db, s.log)
  PROVE  LET d == s.db
             t == Merged(s, c)
         IN  /\ t \in States
             /\ t.db.accounts = c.accounts /\ t.db.upstreams = c.upstreams
             /\ t.db.routes = c.routes /\ t.db.rules = c.rules /\ t.db.keys = c.keys
             /\ t.db.identities = Upsert(d.identities, c.identities)
             /\ t.db.credentials = Image(d, c)
             /\ t.db.secrets = d.secrets \ (Ids(d.credentials) \ Ids(c.credentials))
             /\ Kin(t.log, s.log) /\ Attached(t.db, t.log)
  <1> DEFINE d == s.db
             t1 == [s EXCEPT !.db = Upserted(d, c)]
             t2 == PurgeRules(t1, c)
             t3 == PurgeMissingKeys(t2, c)
             U == Ids(t3.db.upstreams) \ Ids(c.upstreams)
             C1 == {x.id : x \in {x \in t3.db.credentials : x.upstream \in U}}
             t4 == PurgeCredentials(t3, C1)
             t5 == PurgeUpstreams(t3, c)
             R == Ids(t5.db.routes) \ Ids(c.routes)
             t6 == PurgeRouteSets(t5, R)
             A == Ids(t6.db.accounts) \ Ids(c.accounts)
             t7 == PurgeProxyAccounts(t6, A)
             C2 == Ids(t7.db.credentials) \ Ids(c.credentials)
             t8 == PurgeCredentials(t7, C2)
  <1>1. /\ d \in Tables /\ c \in Tables
        /\ Image(d, c) \in SUBSET Credentials
        /\ \A x \in Image(d, c) : \E r \in c.credentials :
             x.id = r.id /\ x.upstream = r.upstream
        /\ \A r \in c.credentials : \E x \in Image(d, c) :
             x.id = r.id /\ x.upstream = r.upstream
    BY ImageIs DEF Whole
  <1>2. Merged(s, c) = t8
    BY DEF Merged, PurgeMissingCredentials, PurgeAccounts, PurgeRoutes
  <1>3. /\ t1 \in States /\ t1.log = s.log
        /\ t1.db.accounts = Upsert(d.accounts, c.accounts)
        /\ t1.db.identities = Upsert(d.identities, c.identities)
        /\ t1.db.upstreams = Upsert(d.upstreams, c.upstreams)
        /\ t1.db.routes = Upsert(d.routes, c.routes)
        /\ t1.db.rules = Upsert(d.rules, c.rules)
        /\ t1.db.keys = Upsert(d.keys, c.keys)
        /\ t1.db.credentials = Upsert(d.credentials, Image(d, c))
        /\ t1.db.secrets = d.secrets
        /\ Attached(t1.db, t1.log)
    BY UpsertedIs
  <1> HIDE DEF t1
  <1>4. /\ t2 \in States /\ t2.log = s.log
        /\ t2.db.accounts = Upsert(d.accounts, c.accounts)
        /\ t2.db.identities = Upsert(d.identities, c.identities)
        /\ t2.db.upstreams = Upsert(d.upstreams, c.upstreams)
        /\ t2.db.routes = Upsert(d.routes, c.routes)
        /\ t2.db.rules = c.rules
        /\ t2.db.keys = Upsert(d.keys, c.keys)
        /\ t2.db.credentials = Upsert(d.credentials, Image(d, c))
        /\ t2.db.secrets = d.secrets
        /\ Attached(t2.db, t2.log)
    <2> DEFINE e == [t1.db EXCEPT !.rules = c.rules]
    <2>1. t2 = [t1 EXCEPT !.db.rules = {r \in t1.db.rules : r.id \in Ids(c.rules)}]
      BY DEF PurgeRules
    <2>2. {r \in t1.db.rules : r.id \in Ids(c.rules)} = c.rules
      BY <1>3, PurgedIsRemote
    <2> HIDE DEF t2
    <2>3. t2 = [db |-> e, log |-> t1.log]
      BY <1>3, <2>1, <2>2, NestedRules
    <2>4. t1.db \in Tables /\ t1.log \in SUBSET History
      BY <1>3 DEF States
    <2>5. /\ e \in Tables
          /\ e.accounts = t1.db.accounts /\ e.identities = t1.db.identities
          /\ e.upstreams = t1.db.upstreams /\ e.routes = t1.db.routes /\ e.rules = c.rules
          /\ e.keys = t1.db.keys /\ e.credentials = t1.db.credentials
          /\ e.secrets = t1.db.secrets
      BY <1>1, <2>4 DEF Tables
    <2> HIDE DEF e, d
    <2>6. t2.db = e /\ t2.log = t1.log /\ t2 \in States
      BY <2>3, <2>4, <2>5 DEF States
    <2>7. Attached(t2.db, t2.log)
      BY <1>3, <2>5, <2>6 DEF Attached
    <2> QED BY <1>3, <2>5, <2>6, <2>7
  <1> HIDE DEF t2
  <1>5. /\ t3 \in States /\ Kin(t3.log, s.log)
        /\ t3.db.accounts = Upsert(d.accounts, c.accounts)
        /\ t3.db.identities = Upsert(d.identities, c.identities)
        /\ t3.db.upstreams = Upsert(d.upstreams, c.upstreams)
        /\ t3.db.routes = Upsert(d.routes, c.routes)
        /\ t3.db.rules = c.rules /\ t3.db.keys = c.keys
        /\ t3.db.credentials = Upsert(d.credentials, Image(d, c))
        /\ t3.db.secrets = d.secrets
        /\ Attached(t3.db, t3.log)
    <2> DEFINE K == Ids(t2.db.keys) \ Ids(c.keys)
    <2>1. t3 = PurgeClientKeys(t2, K)
      BY DEF PurgeMissingKeys
    <2>2. {k \in t2.db.keys : k.id \notin K} = c.keys
      BY <1>4, PurgedIsRemote
    <2> HIDE DEF t3, K
    <2>3. /\ t3 \in States
          /\ t3.db = [t2.db EXCEPT !.keys = c.keys]
          /\ Cut(t3.log, t2.log, {}, {}, K, {})
      BY <1>4, <2>1, <2>2, PurgeClientKeysIs
    <2>4. t2.db \in Tables /\ t3.db \in Tables
      BY <1>4, <2>3 DEF States
    <2>5. /\ t3.db.accounts = t2.db.accounts /\ t3.db.identities = t2.db.identities
          /\ t3.db.upstreams = t2.db.upstreams /\ t3.db.routes = t2.db.routes
          /\ t3.db.rules = t2.db.rules /\ t3.db.keys = c.keys
          /\ t3.db.credentials = t2.db.credentials /\ t3.db.secrets = t2.db.secrets
      BY <2>3, <2>4 DEF Tables
    <2>6. Ids(t2.db.keys) \ K \subseteq Ids(t3.db.keys)
      BY <2>2, <2>5 DEF Ids
    <2>7. Attached(t3.db, t3.log)
      BY <1>4, <2>3, <2>5, <2>6, CutAttached
    <2>8. Kin(t3.log, s.log)
      BY <1>4, <2>3 DEF Cut, Kin
    <2> QED BY <1>4, <2>3, <2>5, <2>7, <2>8
  <1> HIDE DEF t3
  <1>6. /\ t4 \in States /\ Kin(t4.log, s.log)
        /\ t4.db.accounts = t3.db.accounts /\ t4.db.identities = t3.db.identities
        /\ t4.db.upstreams = t3.db.upstreams /\ t4.db.routes = t3.db.routes
        /\ t4.db.rules = t3.db.rules /\ t4.db.keys = t3.db.keys
        /\ t4.db.credentials = {x \in t3.db.credentials : x.id \notin C1}
        /\ t4.db.secrets = d.secrets \ C1
        /\ Attached(t4.db, t4.log)
    <2> HIDE DEF C1
    <2>1. /\ t4 \in States
          /\ t4.db = [t3.db EXCEPT !.credentials = {x \in t3.db.credentials : x.id \notin C1},
                                   !.secrets = t3.db.secrets \ C1]
          /\ Cut(t4.log, t3.log, {}, {}, {}, C1)
      BY <1>5, PurgeCredentialsIs
    <2>2. t3.db \in Tables /\ t4.db \in Tables
      BY <1>5, <2>1 DEF States
    <2> HIDE DEF t4
    <2>3. /\ t4.db.accounts = t3.db.accounts /\ t4.db.identities = t3.db.identities
          /\ t4.db.upstreams = t3.db.upstreams /\ t4.db.routes = t3.db.routes
          /\ t4.db.rules = t3.db.rules /\ t4.db.keys = t3.db.keys
          /\ t4.db.credentials = {x \in t3.db.credentials : x.id \notin C1}
          /\ t4.db.secrets = t3.db.secrets \ C1
      BY <2>1, <2>2 DEF Tables
    <2>4. Ids(t3.db.credentials) \ C1 \subseteq Ids(t4.db.credentials)
      BY <2>3 DEF Ids
    <2>5. Attached(t4.db, t4.log)
      BY <1>5, <2>1, <2>3, <2>4, CutAttached
    <2>6. Kin(t4.log, s.log)
      BY <1>5, <2>1 DEF Cut, Kin
    <2> QED BY <1>5, <2>1, <2>3, <2>5, <2>6
  <1>7. /\ C1 \subseteq Ids(d.credentials) \ Ids(c.credentials)
        /\ Ids(Image(d, c)) = Ids(c.credentials)
        /\ \A x \in Image(d, c) : x.id \notin C1
    <2>1. Ids(Image(d, c)) = Ids(c.credentials)
      BY <1>1 DEF Ids
    <2>2. ASSUME NEW x \in t3.db.credentials, x.upstream \in U
          PROVE  x.id \in Ids(d.credentials) /\ x.id \notin Ids(Image(d, c))
      <3>1. x \notin Image(d, c)
        <4>1. ASSUME x \in Image(d, c) PROVE FALSE
          <5>1. PICK r \in c.credentials : x.upstream = r.upstream
            BY <1>1, <4>1
          <5>2. r.upstream \in Ids(c.upstreams)
            BY DEF Whole, References
          <5> QED BY <2>2, <5>1, <5>2
        <4> QED BY <4>1
      <3>2. x \in d.credentials /\ x.id \notin Ids(Image(d, c))
        BY <1>5, <3>1 DEF Upsert
      <3> QED BY <3>2 DEF Ids
    <2>3. \A i \in C1 : i \in Ids(d.credentials) /\ i \notin Ids(Image(d, c))
      BY <2>2
    <2> HIDE DEF C1
    <2> QED BY <2>1, <2>3 DEF Ids
  <1> HIDE DEF C1, t4
  <1>8. /\ t5 \in States /\ Kin(t5.log, s.log)
        /\ t5.db.accounts = Upsert(d.accounts, c.accounts)
        /\ t5.db.identities = Upsert(d.identities, c.identities)
        /\ t5.db.upstreams = c.upstreams
        /\ t5.db.routes = Upsert(d.routes, c.routes)
        /\ t5.db.rules = c.rules /\ t5.db.keys = c.keys
        /\ t5.db.credentials = t4.db.credentials /\ t5.db.secrets = t4.db.secrets
        /\ Attached(t5.db, t5.log)
    <2> DEFINE e == [t4.db EXCEPT !.upstreams = c.upstreams]
    <2>1. t5 = [t4 EXCEPT !.db.upstreams = {u \in t4.db.upstreams : u.id \notin U}]
      BY DEF PurgeUpstreams, t4, C1
    <2>2. {u \in t4.db.upstreams : u.id \notin U} = c.upstreams
      BY <1>5, <1>6, PurgedIsRemote
    <2> HIDE DEF t5, U
    <2>3. t5 = [db |-> e, log |-> t4.log]
      BY <1>6, <2>1, <2>2, NestedUpstreams
    <2>4. t4.db \in Tables /\ t4.log \in SUBSET History
      BY <1>6 DEF States
    <2>5. /\ e \in Tables
          /\ e.accounts = t4.db.accounts /\ e.identities = t4.db.identities
          /\ e.upstreams = c.upstreams /\ e.routes = t4.db.routes /\ e.rules = t4.db.rules
          /\ e.keys = t4.db.keys /\ e.credentials = t4.db.credentials
          /\ e.secrets = t4.db.secrets
      BY <1>1, <2>4 DEF Tables
    <2> HIDE DEF e, d
    <2>6. t5.db = e /\ t5.log = t4.log /\ t5 \in States
      BY <2>3, <2>4, <2>5 DEF States
    <2>7. Attached(t5.db, t5.log)
      BY <1>6, <2>5, <2>6 DEF Attached
    <2> QED BY <1>5, <1>6, <2>5, <2>6, <2>7
  <1> HIDE DEF t5, U
  <1>9. /\ t6 \in States /\ Kin(t6.log, s.log)
        /\ t6.db.accounts = Upsert(d.accounts, c.accounts)
        /\ t6.db.identities = Upsert(d.identities, c.identities)
        /\ t6.db.upstreams = c.upstreams /\ t6.db.routes = c.routes
        /\ t6.db.rules = c.rules /\ t6.db.keys = c.keys
        /\ t6.db.credentials = t4.db.credentials /\ t6.db.secrets = t4.db.secrets
        /\ Attached(t6.db, t6.log)
    <2> DEFINE K == KeysOn(t5.db, R)
    <2>1. /\ {r \in t5.db.routes : r.id \notin R} = c.routes
          /\ \A i \in Ids(c.routes) : i \notin R
      BY <1>8, PurgedIsRemote
    <2>2. /\ \A r \in c.rules : r.route \in Ids(c.routes)
          /\ \A k \in c.keys : k.route \in Ids(c.routes)
      BY DEF Whole, References
    <2> HIDE DEF R
    <2>3. K = {} /\ {r \in t5.db.rules : r.route \notin R} = c.rules
      BY <1>8, <2>1, <2>2 DEF KeysOn
    <2>4. {k \in t5.db.keys : k.id \notin K} = c.keys
      BY <1>8, <2>3
    <2>11. /\ t6 \in States
           /\ t6.db = [t5.db EXCEPT !.keys = {k \in t5.db.keys : k.id \notin K},
                                    !.rules = {r \in t5.db.rules : r.route \notin R},
                                    !.routes = {r \in t5.db.routes : r.id \notin R}]
           /\ Cut(t6.log, t5.log, {}, R, K, {})
      BY <1>8, PurgeRouteSetsIs
    <2> HIDE DEF K, t6
    <2>5. /\ t6 \in States
          /\ t6.db = [t5.db EXCEPT !.keys = c.keys, !.rules = c.rules, !.routes = c.routes]
          /\ Cut(t6.log, t5.log, {}, R, K, {})
      BY <2>1, <2>3, <2>4, <2>11
    <2>6. t5.db \in Tables /\ t6.db \in Tables
      BY <1>8, <2>5 DEF States
    <2>7. /\ t6.db.accounts = t5.db.accounts /\ t6.db.identities = t5.db.identities
          /\ t6.db.upstreams = t5.db.upstreams /\ t6.db.routes = c.routes
          /\ t6.db.rules = c.rules /\ t6.db.keys = c.keys
          /\ t6.db.credentials = t5.db.credentials /\ t6.db.secrets = t5.db.secrets
      BY <2>5, <2>6 DEF Tables
    <2>8. /\ Ids(t5.db.routes) \ R \subseteq Ids(t6.db.routes)
          /\ Ids(t5.db.keys) \ K \subseteq Ids(t6.db.keys)
      BY <1>8, <2>1, <2>3, <2>7 DEF Ids
    <2>9. Attached(t6.db, t6.log)
      BY <1>8, <2>5, <2>7, <2>8, CutAttached
    <2>10. Kin(t6.log, s.log)
      BY <1>8, <2>5 DEF Cut, Kin
    <2> QED BY <1>8, <2>5, <2>7, <2>9, <2>10
  <1> HIDE DEF t6, R
  <1>10. /\ t7 \in States /\ Kin(t7.log, s.log)
         /\ t7.db.accounts = c.accounts
         /\ t7.db.identities = Upsert(d.identities, c.identities)
         /\ t7.db.upstreams = c.upstreams /\ t7.db.routes = c.routes
         /\ t7.db.rules = c.rules /\ t7.db.keys = c.keys
         /\ t7.db.credentials = t4.db.credentials /\ t7.db.secrets = t4.db.secrets
         /\ Attached(t7.db, t7.log)
    <2> DEFINE RA == RoutesOf(t6.db, A)
               KA == KeysOn(t6.db, RA)
               UA == Ids(UpstreamsOf(t6.db, A))
               CA == CredentialsOn(t6.db, UA)
    <2>1. /\ {a \in t6.db.accounts : a.id \notin A} = c.accounts
          /\ \A i \in Ids(c.accounts) : i \notin A
      BY <1>9, PurgedIsRemote
    <2>2. None \notin A
      <3>1. Ids(t6.db.accounts) \subseteq Nat
        BY <1>9 DEF States, Tables, Identities, Ids
      <3> QED BY <3>1, NoneAssumption
    <2>3. /\ \A u \in c.upstreams : u.account \in Ids(c.accounts)
          /\ \A r \in c.routes : r.account \in Ids(c.accounts) \cup {None}
      BY DEF Whole, References
    <2> HIDE DEF A
    <2>4. RA = {}
      BY <1>9, <2>1, <2>2, <2>3 DEF RoutesOf
    <2>5. UA = {}
      BY <1>9, <2>1, <2>3 DEF UpstreamsOf, Ids
    <2> HIDE DEF RA, UA
    <2>6. KA = {} /\ CA = {}
      BY <2>4, <2>5 DEF KeysOn, CredentialsOn
    <2> HIDE DEF KA, CA
    <2>7. t7 \in States /\ t7.db = WithoutAccounts(t6.db, A) /\ Cut(t7.log, t6.log, A, RA, KA, CA)
      BY <1>9, PurgeProxyAccountsIs DEF RA, KA, UA, CA
    <2>8. t7.db = [t6.db EXCEPT !.keys = {k \in t6.db.keys : k.id \notin KA},
                  !.rules = {r \in t6.db.rules : r.route \notin RA /\ r.upstream \notin UA},
                  !.routes = {r \in t6.db.routes : r.id \notin RA},
                  !.credentials = {x \in t6.db.credentials : x.id \notin CA},
                  !.secrets = t6.db.secrets \ CA,
                  !.upstreams = {u \in t6.db.upstreams : u.account \notin A},
                  !.accounts = {a \in t6.db.accounts : a.id \notin A}]
      BY <2>7 DEF WithoutAccounts, RA, KA, UA, CA
    <2> HIDE DEF t7
    <2>9. t6.db \in Tables /\ t7.db \in Tables
      BY <1>9, <2>7 DEF States
    <2>10. /\ t7.db.accounts = {a \in t6.db.accounts : a.id \notin A}
           /\ t7.db.identities = t6.db.identities
           /\ t7.db.upstreams = {u \in t6.db.upstreams : u.account \notin A}
           /\ t7.db.routes = {r \in t6.db.routes : r.id \notin RA}
           /\ t7.db.rules = {r \in t6.db.rules : r.route \notin RA /\ r.upstream \notin UA}
           /\ t7.db.keys = {k \in t6.db.keys : k.id \notin KA}
           /\ t7.db.credentials = {x \in t6.db.credentials : x.id \notin CA}
           /\ t7.db.secrets = t6.db.secrets \ CA
      BY <2>8, <2>9 DEF Tables
    <2>11. {u \in t6.db.upstreams : u.account \notin A} = c.upstreams
      BY <1>9, <2>1, <2>3
    <2>12. /\ t7.db.accounts = c.accounts
           /\ t7.db.identities = t6.db.identities
           /\ t7.db.upstreams = c.upstreams /\ t7.db.routes = c.routes
           /\ t7.db.rules = c.rules /\ t7.db.keys = c.keys
           /\ t7.db.credentials = t6.db.credentials /\ t7.db.secrets = t6.db.secrets
      BY <1>9, <2>1, <2>4, <2>5, <2>6, <2>10, <2>11
    <2>13. /\ Ids(t6.db.accounts) \ A \subseteq Ids(t7.db.accounts)
           /\ Ids(t6.db.routes) \ RA \subseteq Ids(t7.db.routes)
           /\ Ids(t6.db.keys) \ KA \subseteq Ids(t7.db.keys)
           /\ Ids(t6.db.credentials) \ CA \subseteq Ids(t7.db.credentials)
      BY <2>10 DEF Ids
    <2>14. Attached(t7.db, t7.log)
      BY <1>9, <2>7, <2>13, CutAttached
    <2>15. Kin(t7.log, s.log)
      BY <1>9, <2>7 DEF Cut, Kin
    <2> QED BY <1>9, <2>7, <2>12, <2>14, <2>15
  <1> HIDE DEF t7, A
  <1>11. /\ t8 \in States /\ Kin(t8.log, s.log)
         /\ t8.db.accounts = c.accounts /\ t8.db.upstreams = c.upstreams
         /\ t8.db.routes = c.routes /\ t8.db.rules = c.rules /\ t8.db.keys = c.keys
         /\ t8.db.identities = Upsert(d.identities, c.identities)
         /\ t8.db.credentials = Image(d, c)
         /\ t8.db.secrets = d.secrets \ (Ids(d.credentials) \ Ids(c.credentials))
         /\ Attached(t8.db, t8.log)
    <2>1. /\ t7.db.credentials = {x \in Upsert(d.credentials, Image(d, c)) : x.id \notin C1}
          /\ t7.db.secrets = d.secrets \ C1
      BY <1>5, <1>6, <1>10
    <2>2. {x \in t7.db.credentials : x.id \notin C2} = Image(d, c)
      BY <1>7, <2>1 DEF Upsert, Ids
    <2>3. C1 \cup C2 = Ids(d.credentials) \ Ids(c.credentials)
      <3>1. \A i \in C2 : i \in Ids(d.credentials) /\ i \notin Ids(c.credentials)
        BY <1>7, <2>1 DEF Upsert, Ids
      <3>2. \A i \in Ids(d.credentials) \ Ids(c.credentials) : i \in C1 \/ i \in C2
        BY <1>7, <2>1 DEF Upsert, Ids
      <3> HIDE DEF C2, d
      <3> QED BY <1>7, <3>1, <3>2
    <2> HIDE DEF C2, d
    <2>4. t7.db.secrets \ C2 = d.secrets \ (Ids(d.credentials) \ Ids(c.credentials))
      BY <2>1, <2>3
    <2>5. /\ t8 \in States
          /\ t8.db = [t7.db EXCEPT !.credentials = {x \in t7.db.credentials : x.id \notin C2},
                                   !.secrets = t7.db.secrets \ C2]
          /\ Cut(t8.log, t7.log, {}, {}, {}, C2)
      BY <1>10, PurgeCredentialsIs
    <2> HIDE DEF t8
    <2>6. t7.db \in Tables /\ t8.db \in Tables
      BY <1>10, <2>5 DEF States
    <2>7. /\ t8.db.accounts = t7.db.accounts /\ t8.db.identities = t7.db.identities
          /\ t8.db.upstreams = t7.db.upstreams /\ t8.db.routes = t7.db.routes
          /\ t8.db.rules = t7.db.rules /\ t8.db.keys = t7.db.keys
          /\ t8.db.credentials = {x \in t7.db.credentials : x.id \notin C2}
          /\ t8.db.secrets = t7.db.secrets \ C2
      BY <2>5, <2>6 DEF Tables
    <2>8. Ids(t7.db.credentials) \ C2 \subseteq Ids(t8.db.credentials)
      BY <2>7 DEF Ids
    <2>9. Attached(t8.db, t8.log)
      BY <1>10, <2>5, <2>7, <2>8, CutAttached
    <2>10. Kin(t8.log, s.log)
      BY <1>10, <2>5 DEF Cut, Kin
    <2> QED BY <1>10, <2>2, <2>4, <2>5, <2>7, <2>9, <2>10
  <1> HIDE DEF t8, d
  <1> QED BY <1>2, <1>11 DEF d

(* A merged machine is in order and follows from what it was.              *)
LEMMA MergedSound ==
  ASSUME NEW s, NEW b \in Nat, NEW c, Sound(s, b), Whole(c),
         \A x \in c.credentials : x.id <= b
  PROVE  LET t == Merged(s, c)
         IN  /\ Sound(t, b) /\ References(t.db, t.log)
             /\ Kin(t.log, s.log) /\ Halves(s.db, t.db)
             /\ t.db.identities = Upsert(s.db.identities, c.identities)
             /\ Shared(t.db) = Shared(c)
  <1> DEFINE d == s.db
             t == Merged(s, c)
  <1>1. s \in States /\ Whole(d) /\ Attached(d, s.log) /\ d \in Tables /\ c \in Tables
    BY DEF Sound, Whole
  <1>2. /\ t \in States
        /\ t.db.accounts = c.accounts /\ t.db.upstreams = c.upstreams
        /\ t.db.routes = c.routes /\ t.db.rules = c.rules /\ t.db.keys = c.keys
        /\ t.db.identities = Upsert(d.identities, c.identities)
        /\ t.db.credentials = Image(d, c)
        /\ t.db.secrets = d.secrets \ (Ids(d.credentials) \ Ids(c.credentials))
        /\ Kin(t.log, s.log) /\ Attached(t.db, t.log)
    BY <1>1, MergedRows
  <1>3. /\ IsFiniteSet(Image(d, c)) /\ Unique(Image(d, c))
        /\ \A x \in Image(d, c) : \E r \in c.credentials :
             x.id = r.id /\ x.upstream = r.upstream /\ x.runtime = RuntimeOf(d, c, r)
        /\ \A r \in c.credentials : \E x \in Image(d, c) :
             x.id = r.id /\ x.upstream = r.upstream
        /\ \A x, y \in Image(d, c) : x.runtime = y.runtime => x = y
    BY <1>1, ImageIs
  <1>4. d.secrets \subseteq Ids(d.credentials)
    BY <1>1 DEF Whole, References
  <1>5. \A r \in c.credentials, x \in d.credentials :
          r.id = x.id => RuntimeOf(d, c, r) = x.runtime
    BY <1>1, RuntimesApart
  <1> HIDE DEF d, t
  <1>6. References(t.db, {})
    <2>1. \A x \in t.db.credentials : x.upstream \in Ids(t.db.upstreams)
      BY <1>2, <1>3 DEF Whole, References
    <2>2. t.db.secrets \subseteq Ids(t.db.credentials)
      BY <1>2, <1>3, <1>4 DEF Ids
    <2> QED BY <1>2, <2>1, <2>2 DEF Whole, References
  <1>7. Whole(t.db)
    <2>1. t.db \in Tables
      BY <1>2 DEF States
    <2>2. IsFiniteSet(Upsert(d.identities, c.identities))
      <3>1. IsFiniteSet({r \in d.identities : r.id \notin Ids(c.identities)})
        BY <1>1, FS_Subset DEF Whole, Finite
      <3>2. IsFiniteSet(c.identities)
        BY DEF Whole, Finite
      <3> QED BY <3>1, <3>2, FS_Union DEF Upsert
    <2>3. Finite(t.db)
      BY <1>2, <1>3, <2>2 DEF Whole, Finite
    <2>4. Served(t.db)
      BY <1>2 DEF Whole, Served
    <2>5. t.db.accounts \subseteq t.db.identities
      BY <1>2 DEF Whole, Upsert
    <2>6. Unique(t.db.identities)
      BY <1>1, <1>2, UpsertUnique DEF Whole
    <2>7. Unique(t.db.credentials) /\ OneRuntime(t.db)
      BY <1>2, <1>3 DEF OneRuntime
    <2> QED BY <1>6, <2>1, <2>3, <2>4, <2>5, <2>6, <2>7 DEF Whole
  <1>8. References(t.db, t.log)
    BY <1>2, <1>6, ReferencesSplit
  <1>9. \A x \in t.db.credentials : x.id <= b
    BY <1>2, <1>3
  <1>10. Halves(d, t.db)
    <2>1. ASSUME NEW x \in d.credentials, NEW y \in t.db.credentials, x.id = y.id
          PROVE  /\ x.runtime = y.runtime
                 /\ x.id \in d.secrets => x.id \in t.db.secrets
      <3>1. PICK r \in c.credentials : y.id = r.id /\ y.runtime = RuntimeOf(d, c, r)
        BY <1>2, <1>3
      <3>2. y.runtime = x.runtime
        BY <1>5, <2>1, <3>1
      <3>3. x.id \in Ids(c.credentials)
        BY <2>1, <3>1 DEF Ids
      <3> QED BY <1>2, <3>2, <3>3
    <2> QED BY <2>1 DEF Halves
  <1>11. Shared(t.db) = Shared(c)
    <2>1. {<<x.id, x.upstream>> : x \in t.db.credentials}
            = {<<x.id, x.upstream>> : x \in c.credentials}
      BY <1>2, <1>3
    <2> QED BY <1>2, <2>1 DEF Shared
  <1> QED BY <1>2, <1>7, <1>8, <1>9, <1>10, <1>11 DEF Sound, d, t

-----------------------------------------------------------------------------
(* The inductive invariant.                                                *)

Uuids(rows) == {i.uuid : i \in rows}
Alive(o) == o \in accepted \/ \E n \in Machines : o \in Uuids(db[n].identities)

(* An identity i is o's on machine m, unless o was lost in every table.    *)
Belongs(m, i, o) ==
    /\ i \in Ids(db[m].identities)
    /\ o <= bounds.uuid
    /\ Alive(o) => \E x \in db[m].identities : x.id = i /\ x.uuid = o

Bounds == [edits : Nat, requests : Nat, failures : Nat, uuid : Nat]
TypeOK ==
    /\ db \in [Machines -> Tables]
    /\ log \in [Machines -> SUBSET History]
    /\ flight \in [Machines -> SUBSET Flights]
    /\ active \in Machines /\ writable \in BOOLEAN /\ dirty \in BOOLEAN
    /\ bounds \in Bounds

CloudWhole ==
    /\ Whole(cloud) /\ cloud.secrets = {}
    /\ \A c \in cloud.credentials : c.id <= bounds.uuid

(* An account uuid names one id wherever it lives, and lives on two        *)
(* machines only after a publication.                                      *)
UuidsName ==
    /\ \A i \in cloud.identities : i.uuid <= bounds.uuid
    /\ \A i, j \in cloud.identities : i.uuid = j.uuid => i = j
    /\ \A m \in Machines :
         /\ \A i \in db[m].identities : i.uuid <= bounds.uuid
         /\ \A i \in db[m].identities, j \in cloud.identities : i.uuid = j.uuid => i = j
         /\ \A n \in Machines : \A i \in db[m].identities, j \in db[n].identities :
              i.uuid = j.uuid => i = j /\ (m = n \/ i.uuid \in accepted)
    /\ accepted = Uuids(cloud.identities)
    /\ writable => cloud.identities \subseteq db[active].identities

Owned ==
    \A m \in Machines : /\ \A r \in log[m] : Belongs(m, r.identity, r.owner)
                        /\ \A f \in flight[m] : Belongs(m, f.account, f.owner)

Inv ==
    /\ TypeOK
    /\ \A m \in Machines : Sound(State(m), bounds.uuid)
    /\ CloudWhole
    /\ UuidsName
    /\ MergedIsCloud
    /\ Owned

LEMMA PairFinite ==
  ASSUME NEW x, NEW y
  PROVE  IsFiniteSet({x, y})
  <1>1. IsFiniteSet({x}) /\ IsFiniteSet({y})
    BY FS_Singleton
  <1>2. IsFiniteSet({x} \cup {y})
    BY <1>1, FS_Union
  <1>3. {x, y} = {x} \cup {y}
    OBVIOUS
  <1> QED BY <1>2, <1>3

LEMMA InstalledWhole ==
  ASSUME NEW S \in {{}, {2}}
  PROVE  LET d == Installed(S) IN
         /\ Whole(d) /\ d.secrets = S
         /\ d.identities = {[id |-> 1, uuid |-> 1]}
         /\ \A c \in d.credentials : c.id <= 2
  <1> DEFINE d == Installed(S)
  <1>1. /\ d.accounts = {[id |-> 1, uuid |-> 1]} /\ d.identities = {[id |-> 1, uuid |-> 1]}
        /\ d.upstreams = {[id |-> 1, account |-> 1]}
        /\ d.routes = {[id |-> 1, account |-> 1], [id |-> 2, account |-> None]}
        /\ d.rules = {[id |-> 1, route |-> 1, priority |-> 0, upstream |-> 1],
                      [id |-> 2, route |-> 2, priority |-> 0, upstream |-> 1]}
        /\ d.keys = {[id |-> 1, route |-> 2]}
        /\ d.credentials = {[id |-> 2, runtime |-> 1, upstream |-> 1]}
        /\ d.secrets = S
        /\ d.sequence = [upstreams |-> 1, rules |-> 2, keys |-> 1]
    BY DEF Installed
  <1>2. d = [accounts |-> d.accounts, identities |-> d.identities, upstreams |-> d.upstreams,
             routes |-> d.routes, rules |-> d.rules, keys |-> d.keys,
             credentials |-> d.credentials, secrets |-> d.secrets, sequence |-> d.sequence]
    BY DEF Installed
  <1> HIDE DEF d
  <1>3. d \in Tables
    <2>1. /\ d.accounts \in SUBSET Identities /\ d.identities \in SUBSET Identities
          /\ d.upstreams \in SUBSET Upstreams
      BY <1>1 DEF Identities, Upstreams
    <2>2. d.routes \in SUBSET RouteSets /\ d.rules \in SUBSET Rules /\ d.keys \in SUBSET Keys
      BY <1>1 DEF RouteSets, Rules, Keys, IdOrNull
    <2>3. d.credentials \in SUBSET Credentials /\ d.secrets \in SUBSET Nat /\ d.sequence \in Sequence
      BY <1>1 DEF Credentials, Sequence
    <2> QED BY <1>2, <2>1, <2>2, <2>3 DEF Tables
  <1>4. Finite(d)
    <2> DEFINE a == [id |-> 1, uuid |-> 1]
               u == [id |-> 1, account |-> 1]
               r1 == [id |-> 1, account |-> 1]
               r2 == [id |-> 2, account |-> None]
               p1 == [id |-> 1, route |-> 1, priority |-> 0, upstream |-> 1]
               p2 == [id |-> 2, route |-> 2, priority |-> 0, upstream |-> 1]
               k == [id |-> 1, route |-> 2]
               c == [id |-> 2, runtime |-> 1, upstream |-> 1]
    <2>1. /\ d.accounts = {a} /\ d.identities = {a} /\ d.upstreams = {u} /\ d.keys = {k}
          /\ d.credentials = {c} /\ d.routes = {r1, r2} /\ d.rules = {p1, p2}
      BY <1>1
    <2> HIDE DEF a, u, r1, r2, p1, p2, k, c
    <2>2. /\ IsFiniteSet({a}) /\ IsFiniteSet({u}) /\ IsFiniteSet({k}) /\ IsFiniteSet({c})
          /\ IsFiniteSet({r1, r2}) /\ IsFiniteSet({p1, p2})
      BY FS_Singleton, PairFinite
    <2> QED BY <2>1, <2>2 DEF Finite
  <1>5. References(d, {})
    BY <1>1 DEF References, Ids
  <1>6. Served(d) /\ d.accounts \subseteq d.identities
    BY <1>1 DEF Served
  <1>7. Unique(d.identities) /\ Unique(d.credentials) /\ OneRuntime(d)
    BY <1>1 DEF Unique, OneRuntime
  <1>8. \A c \in d.credentials : c.id <= 2
    BY <1>1
  <1> QED BY <1>1, <1>3, <1>4, <1>5, <1>6, <1>7, <1>8 DEF Whole, d

LEMMA InitInv ==
  ASSUME Init
  PROVE  Inv
  <1> DEFINE h(m) == IF m = First THEN {2} ELSE {}
             one == [id |-> 1, uuid |-> 1]
  <1>1. /\ \A m \in Machines : db[m] = Installed(h(m)) /\ log[m] = {} /\ flight[m] = {}
        /\ db = [m \in Machines |-> db[m]] /\ log = [m \in Machines |-> log[m]]
        /\ flight = [m \in Machines |-> flight[m]]
        /\ cloud = Installed({}) /\ active = First /\ writable = TRUE /\ dirty = FALSE
        /\ accepted = {1}
        /\ bounds = [edits |-> 0, requests |-> 0, failures |-> 0, uuid |-> 2]
    BY DEF Init
  <1>2. \A m \in Machines : h(m) \in {{}, {2}}
    OBVIOUS
  <1> HIDE DEF h
  <1>3. \A m \in Machines : /\ Whole(db[m]) /\ db[m].identities = {one}
                            /\ \A c \in db[m].credentials : c.id <= 2
    BY <1>1, <1>2, InstalledWhole
  <1>4. /\ Whole(cloud) /\ cloud.identities = {one} /\ cloud.secrets = {}
        /\ \A c \in cloud.credentials : c.id <= 2
    BY <1>1, InstalledWhole
  <1>5. one.uuid = 1 /\ one.id = 1 /\ bounds.uuid = 2
    BY <1>1
  <1> HIDE DEF one
  <1>6. TypeOK
    <2>1. db \in [Machines -> Tables] /\ log \in [Machines -> SUBSET History]
          /\ flight \in [Machines -> SUBSET Flights]
      BY <1>1, <1>3 DEF Whole
    <2>2. bounds \in Bounds
      BY <1>1 DEF Bounds
    <2> QED BY <1>1, <2>1, <2>2, FirstAssumption DEF TypeOK
  <1>7. \A m \in Machines : Sound(State(m), bounds.uuid)
    BY <1>1, <1>3, <1>5, <1>6 DEF Sound, State, States, Attached, Whole
  <1>8. CloudWhole
    BY <1>4, <1>5 DEF CloudWhole
  <1>9. UuidsName
    <2>1. 1 <= 2
      OBVIOUS
    <2> QED BY <1>1, <1>3, <1>4, <1>5, <2>1, FirstAssumption DEF UuidsName, Uuids
  <1>10. MergedIsCloud
    <2>1. Shared(Installed(h(First))) = Shared(Installed({}))
      BY DEF Shared, Installed
    <2> QED BY <1>1, <2>1, FirstAssumption DEF MergedIsCloud, Here
  <1>11. Owned
    BY <1>1 DEF Owned
  <1> QED BY <1>6, <1>7, <1>8, <1>9, <1>10, <1>11 DEF Inv
-----------------------------------------------------------------------------
(* The steps.                                                              *)

(* The machines after m's tables and history are replaced.                 *)
LEMMA StoreIs ==
  ASSUME TypeOK, NEW m \in Machines, NEW t \in States, Store(m, t)
  PROVE  /\ db' \in [Machines -> Tables] /\ log' \in [Machines -> SUBSET History]
         /\ \A n \in Machines : /\ db'[n] = IF n = m THEN t.db ELSE db[n]
                                /\ log'[n] = IF n = m THEN t.log ELSE log[n]
  BY DEF TypeOK, Store, States

LEMMA SoundLater ==
  ASSUME NEW s, NEW b \in Nat, NEW c \in Nat, b <= c, Sound(s, b)
  PROVE  Sound(s, c)
  <1>1. \A x \in s.db.credentials : x.id \in Nat /\ x.id <= b
    BY DEF Sound, States, Tables, Credentials
  <1>2. \A x \in s.db.credentials : x.id <= c
    BY <1>1
  <1> QED BY <1>2 DEF Sound

(* An owner stays while the identities only grow by new ones.              *)
LEMMA BelongsKept ==
  ASSUME Inv, NEW m \in Machines, NEW i, NEW o \in Nat, Belongs(m, i, o),
         bounds'.uuid \in Nat, bounds.uuid <= bounds'.uuid,
         db[m].identities \subseteq db'[m].identities,
         Alive(o)' => Alive(o)
  PROVE  Belongs(m, i, o)'
  <1>1. bounds.uuid \in Nat
    BY DEF Inv, TypeOK, Bounds
  <1>2. o <= bounds.uuid
    BY DEF Belongs
  <1>3. o <= bounds'.uuid
    BY <1>1, <1>2
  <1>4. i \in Ids(db'[m].identities)
    BY DEF Belongs, Ids
  <1>5. Alive(o)' => \E x \in db'[m].identities : x.id = i /\ x.uuid = o
    BY DEF Belongs
  <1> QED BY <1>3, <1>4, <1>5 DEF Belongs

LEMMA OwnersAreNumbers ==
  ASSUME Inv, NEW m \in Machines
  PROVE  /\ \A r \in log[m] : r.owner \in Nat
         /\ \A f \in flight[m] : f.owner \in Nat
         /\ bounds.uuid \in Nat
         /\ \A i \in db[m].identities : i \in Identities /\ i.uuid \in Nat /\ i.id \in Nat
         /\ \A i \in cloud.identities : i \in Identities /\ i.uuid \in Nat /\ i.id \in Nat
  <1>1. log[m] \in SUBSET History /\ flight[m] \in SUBSET Flights
    BY DEF Inv, TypeOK
  <1>2. db[m] \in Tables /\ cloud \in Tables
    BY DEF Inv, TypeOK, CloudWhole, Whole
  <1>3. bounds.uuid \in Nat
    BY DEF Inv, TypeOK, Bounds
  <1> QED BY <1>1, <1>2, <1>3 DEF History, Flights, Tables, Identities

HalvesStep == \A m \in Machines : Halves(db[m], db'[m])

LEMMA SameHalvesStep ==
  ASSUME Inv, UNCHANGED db
  PROVE  HalvesStep
  <1>1. \A m \in Machines : Whole(db[m])
    BY DEF Inv, Sound, State
  <1> QED BY <1>1 DEF HalvesStep, Halves, Whole, Unique

(* Any edit that leaves the machine in order keeps the invariant.          *)
LEMMA EditStep ==
  ASSUME Inv, CanEdit, NEW t, NEW n \in {0, 1}, Edit(t, n),
         Sound(t, bounds.uuid + n), Follows(State(active), t, bounds.uuid, n)
  PROVE  Inv' /\ HalvesStep
  <1> DEFINE a == active
             b == bounds.uuid
  <1>1. /\ TypeOK /\ a \in Machines /\ b \in Nat /\ b + n \in Nat /\ b <= b + n
        /\ t \in States
    BY DEF Inv, TypeOK, Bounds, Sound
  <1>2. /\ Store(active, t) /\ dirty' = TRUE
        /\ bounds' = [bounds EXCEPT !.edits = @ + 1, !.uuid = @ + n]
        /\ flight' = flight /\ cloud' = cloud /\ active' = active
        /\ writable' = writable /\ accepted' = accepted
    BY DEF Edit
  <1>3. /\ db' \in [Machines -> Tables] /\ log' \in [Machines -> SUBSET History]
        /\ \A m \in Machines : /\ db'[m] = IF m = a THEN t.db ELSE db[m]
                               /\ log'[m] = IF m = a THEN t.log ELSE log[m]
    BY <1>1, <1>2, StoreIs
  <1>4. bounds' \in Bounds /\ bounds'.uuid = b + n
    <2>1. bounds.edits + 1 \in Nat /\ bounds.uuid + n \in Nat /\ bounds \in Bounds
      BY <1>1 DEF TypeOK, Bounds
    <2> DEFINE e == bounds.edits + 1
               u == bounds.uuid + n
    <2>2. bounds' = [bounds EXCEPT !.edits = e, !.uuid = u] /\ e \in Nat /\ u \in Nat /\ b + n = u
      BY <1>2, <2>1
    <2> HIDE DEF e, u
    <2> QED BY <2>1, <2>2 DEF Bounds
  <1> HIDE DEF b
  <1>5. /\ Kin(t.log, log[a]) /\ Halves(db[a], t.db)
        /\ \/ t.db.identities = db[a].identities
           \/ \E i \in Identities : /\ n = 1 /\ i.uuid = b + 1
                                    /\ i.id \notin Ids(db[a].identities)
                                    /\ t.db.identities = db[a].identities \cup {i}
    BY DEF Follows, State, b
  <1>6. TypeOK'
    BY <1>1, <1>2, <1>3, <1>4 DEF TypeOK
  <1>7. \A m \in Machines : Sound(State(m), bounds.uuid)'
    <2>1. t = [db |-> t.db, log |-> t.log] /\ Sound(t, b + n)
      BY <1>1 DEF States, b
    <2>2. \A m \in Machines : m # a => Sound(State(m), b + n)
      BY <1>1, SoundLater DEF Inv, b
    <2> QED BY <1>3, <1>4, <2>1, <2>2 DEF State
  <1>8. CloudWhole'
    <2>1. /\ Whole(cloud) /\ cloud.secrets = {}
          /\ \A c \in cloud.credentials : c.id \in Nat /\ c.id <= b
      BY DEF Inv, CloudWhole, Whole, Tables, Credentials, b
    <2>2. \A c \in cloud.credentials : c.id <= b + n
      BY <1>1, <2>1
    <2> QED BY <1>2, <1>4, <2>1, <2>2 DEF CloudWhole
  <1>9. \A m \in Machines : /\ db[m].identities \subseteq db'[m].identities
                            /\ \A i \in db'[m].identities :
                                 i \in db[m].identities \/ (i.uuid = b + 1 /\ m = a /\ n = 1)
    BY <1>3, <1>5
  <1>10. \A m \in Machines : \A i, j \in db'[m].identities :
           i.uuid = b + 1 /\ j.uuid = b + 1 => i = j
    <2>1. \A m \in Machines : \A i \in db[m].identities : i.uuid \in Nat /\ i.uuid <= b
      BY OwnersAreNumbers DEF Inv, UuidsName, b
    <2>2. \A m \in Machines : \A i \in db[m].identities : i.uuid # b + 1
      BY <1>1, <2>1
    <2> QED BY <1>3, <1>5, <2>2
  <1>11. UuidsName'
    <2>1. /\ \A i \in cloud.identities : i.uuid \in Nat /\ i.uuid <= b
          /\ \A m \in Machines : \A i \in db[m].identities : i.uuid \in Nat /\ i.uuid <= b
      BY OwnersAreNumbers, <1>1 DEF Inv, UuidsName, b
    <2>2. \A u \in Nat : u <= b => u # b + 1 /\ u <= b + n
      BY <1>1
    <2>3. \A i \in cloud.identities : i.uuid <= bounds'.uuid
      BY <1>4, <2>1, <2>2
    <2>4. ASSUME NEW m \in Machines
          PROVE  /\ \A i \in db'[m].identities : i.uuid <= bounds'.uuid
                 /\ \A i \in db'[m].identities, j \in cloud.identities : i.uuid = j.uuid => i = j
                 /\ \A k \in Machines : \A i \in db'[m].identities, j \in db'[k].identities :
                      i.uuid = j.uuid => i = j /\ (m = k \/ i.uuid \in accepted)
      <3>1. \A i \in db'[m].identities : i.uuid <= bounds'.uuid
        <4>1. n = 1 => b + 1 <= b + n
          BY <1>1
        <4> QED BY <1>4, <1>9, <2>1, <2>2, <4>1
      <3>2. \A i \in db'[m].identities, j \in cloud.identities : i.uuid = j.uuid => i = j
        BY <1>9, <2>1, <2>2 DEF Inv, UuidsName
      <3>3. ASSUME NEW k \in Machines, NEW i \in db'[m].identities, NEW j \in db'[k].identities,
                   i.uuid = j.uuid
            PROVE  i = j /\ (m = k \/ i.uuid \in accepted)
        <4>1. CASE i.uuid = b + 1
          <5>1. m = a /\ k = a
            BY <1>9, <2>1, <2>2, <3>3, <4>1
          <5> QED BY <1>10, <3>3, <4>1, <5>1
        <4>2. CASE i.uuid # b + 1
          <5>1. i \in db[m].identities /\ j \in db[k].identities
            BY <1>9, <3>3, <4>2
          <5> QED BY <3>3, <5>1 DEF Inv, UuidsName
        <4> QED BY <4>1, <4>2
      <3> QED BY <3>1, <3>2, <3>3
    <2>5. accepted = Uuids(cloud.identities) /\ \A i, j \in cloud.identities : i.uuid = j.uuid => i = j
      BY DEF Inv, UuidsName
    <2>6. writable => cloud.identities \subseteq db'[a].identities
      BY <1>1, <1>9 DEF Inv, UuidsName
    <2> QED BY <1>2, <2>3, <2>4, <2>5, <2>6 DEF UuidsName
  <1>12. MergedIsCloud'
    BY <1>2 DEF MergedIsCloud
  <1>13. Owned'
    <2>1. ASSUME NEW m \in Machines, NEW i, NEW o \in Nat, Belongs(m, i, o)
          PROVE  Belongs(m, i, o)'
      <3>1. o # b + 1
        BY <1>1, <2>1 DEF Belongs, b
      <3>2. Alive(o)' => Alive(o)
        BY <1>2, <1>9, <3>1 DEF Alive, Uuids
      <3> QED BY <1>1, <1>4, <1>9, <2>1, <3>2, BelongsKept DEF b
    <2>2. ASSUME NEW m \in Machines, NEW r \in log'[m]
          PROVE  Belongs(m, r.identity, r.owner)'
      <3>1. PICK q \in log[m] : r.identity = q.identity /\ r.owner = q.owner
        BY <1>3, <1>5, <2>2 DEF Kin
      <3>2. q.owner \in Nat /\ Belongs(m, q.identity, q.owner)
        BY <2>2, <3>1, OwnersAreNumbers DEF Inv, Owned
      <3> QED BY <2>1, <2>2, <3>1, <3>2
    <2>3. ASSUME NEW m \in Machines, NEW f \in flight'[m]
          PROVE  Belongs(m, f.account, f.owner)'
      <3>1. f \in flight[m] /\ f.owner \in Nat /\ Belongs(m, f.account, f.owner)
        BY <1>2, <2>3, OwnersAreNumbers DEF Inv, Owned
      <3> QED BY <2>1, <3>1
    <2> QED BY <2>2, <2>3 DEF Owned
  <1>14. HalvesStep
    <2>1. \A m \in Machines : Halves(db[m], db[m])
      BY DEF Inv, Sound, State, Whole, Unique, Halves
    <2> QED BY <1>3, <1>5, <2>1 DEF HalvesStep
  <1> QED BY <1>6, <1>7, <1>8, <1>11, <1>12, <1>13, <1>14 DEF Inv

LEMMA HereSound ==
  ASSUME Inv
  PROVE  /\ Sound(State(active), bounds.uuid) /\ State(active).db = Here
         /\ bounds.uuid \in Nat /\ Here \in Tables /\ active \in Machines
  BY DEF Inv, TypeOK, Bounds, State, Here

(* Every edit of the configuration keeps the invariant.                    *)
LEMMA EditsStep ==
  ASSUME Inv,
         \/ EditCreateAccount \/ EditDeleteAccount \/ EditSetKeys \/ EditConfirmCloudKey
         \/ EditCreateAggregate \/ EditUpdateAggregate \/ EditDeleteAggregate
         \/ EditCreateKey \/ EditMoveKey \/ EditDeleteKey
  PROVE  Inv' /\ HalvesStep
  <1> DEFINE s == State(active)
             b == bounds.uuid
  <1>1. Sound(s, b) /\ s.db = Here /\ b \in Nat /\ Here \in Tables
    BY HereSound
  <1>2. b + 0 = b
    BY <1>1
  <1>3. ASSUME NEW t, CanEdit, Edit(t, 0), Sound(t, b), Follows(s, t, b, 0)
        PROVE  Inv' /\ HalvesStep
    BY <1>2, <1>3, EditStep
  <1>4. ASSUME NEW t, CanEdit, Edit(t, 1), Sound(t, b + 1), Follows(s, t, b, 1)
        PROVE  Inv' /\ HalvesStep
    BY <1>4, EditStep
  <1>5. Fresh = b + 1
    BY DEF Fresh
  <1> HIDE DEF s, b
  <1>6. CASE EditCreateAccount
    <2>1. CanEdit /\ Edit(CreateAccount(s, b + 1), 1)
      BY <1>5, <1>6 DEF EditCreateAccount, s
    <2> QED BY <1>1, <1>4, <2>1, CreateAccountSound
  <1>7. CASE EditDeleteAccount
    <2>1. PICK a \in Ids(Here.accounts) : CanEdit /\ Edit(PurgeProxyAccounts(s, {a}), 0)
      BY <1>7 DEF EditDeleteAccount, s
    <2>2. None \notin {a}
      BY <1>1, NoneAssumption DEF Ids, Tables, Identities
    <2> QED BY <1>1, <1>3, <2>1, <2>2, DeleteAccountsSound
  <1>8. CASE EditSetKeys
    <2>1. PICK a \in Ids(Here.accounts), keep \in SUBSET Here.secrets, new \in {None, Fresh} :
            CanEdit /\ Edit(SetUpstreamKeys(s, a, keep, new), IF new = None THEN 0 ELSE 1)
      BY <1>8 DEF EditSetKeys, s
    <2> DEFINE t == SetUpstreamKeys(s, a, keep, new)
    <2>2. a \in Ids(s.db.accounts)
      BY <1>1
    <2>3. CASE new = None
      <3>1. Sound(t, b + 0) /\ Follows(s, t, b, 0)
        BY <1>1, <2>2, <2>3, SetUpstreamKeysSound
      <3>2. CanEdit /\ Edit(t, 0)
        BY <2>1, <2>3
      <3> HIDE DEF t
      <3> QED BY <1>2, <1>3, <3>1, <3>2
    <2>4. CASE new # None
      <3>1. new = b + 1
        BY <1>5, <2>1, <2>4
      <3>2. Sound(t, b + 1) /\ Follows(s, t, b, 1)
        BY <1>1, <2>2, <3>1, SetUpstreamKeysSound
      <3>3. CanEdit /\ Edit(t, 1)
        BY <2>1, <2>4
      <3> HIDE DEF t
      <3> QED BY <1>4, <3>2, <3>3
    <2> QED BY <2>3, <2>4
  <1>9. CASE EditConfirmCloudKey
    <2>1. PICK c \in Ids(Here.credentials) : CanEdit /\ Edit(ConfirmCloudKey(s, c), 0)
      BY <1>9 DEF EditConfirmCloudKey, s
    <2> QED BY <1>1, <1>3, <2>1, ConfirmCloudKeySound
  <1>10. CASE EditCreateAggregate
    <2>1. PICK e \in Entries : CanEdit /\ Edit(CreateAggregate(s, e), 0)
      BY <1>10 DEF EditCreateAggregate, s
    <2>2. PICK n \in 1..2 : e \in [1..n -> Ids(s.db.accounts)]
      BY <1>1, <2>1 DEF Entries
    <2> QED BY <1>1, <1>3, <2>1, <2>2, CreateAggregateSound
  <1>11. CASE EditUpdateAggregate
    <2>1. PICK r \in Aggregates, e \in Entries :
            CanEdit /\ Edit([s EXCEPT !.db = ReplaceAggregateRules(s.db, r, e)], 0)
      BY <1>11 DEF EditUpdateAggregate, s
    <2>2. PICK n \in 1..2 : e \in [1..n -> Ids(s.db.accounts)]
      BY <1>1, <2>1 DEF Entries
    <2>3. r \in Ids(s.db.routes)
      BY <1>1, <2>1 DEF Aggregates, Ids
    <2> QED BY <1>1, <1>3, <2>1, <2>2, <2>3, UpdateAggregateSound
  <1>12. CASE EditDeleteAggregate
    <2>1. PICK r \in Aggregates : CanEdit /\ Edit(PurgeRouteSets(s, {r}), 0)
      BY <1>12 DEF EditDeleteAggregate, s
    <2> QED BY <1>1, <1>3, <2>1, DeleteRoutesSound
  <1>13. CASE EditCreateKey
    <2>1. PICK r \in Ids(Here.routes) : CanEdit /\ Edit(CreateKey(s, r), 0)
      BY <1>13 DEF EditCreateKey, s
    <2> QED BY <1>1, <1>3, <2>1, CreateKeySound
  <1>14. CASE EditMoveKey
    <2>1. PICK k \in Ids(Here.keys), r \in Ids(Here.routes) : CanEdit /\ Edit(MoveKey(s, k, r), 0)
      BY <1>14 DEF EditMoveKey, s
    <2> QED BY <1>1, <1>3, <2>1, MoveKeySound
  <1>15. CASE EditDeleteKey
    <2>1. PICK k \in Ids(Here.keys) : CanEdit /\ Edit(PurgeClientKeys(s, {k}), 0)
      BY <1>15 DEF EditDeleteKey, s
    <2> QED BY <1>1, <1>3, <2>1, DeleteKeySound
  <1> QED BY <1>6, <1>7, <1>8, <1>9, <1>10, <1>11, <1>12, <1>13, <1>14, <1>15

(* The identities a machine publishes were alive before.                   *)
LEMMA PublishStep ==
  ASSUME Inv, Publish
  PROVE  Inv' /\ HalvesStep
  <1> DEFINE d == Here
             c == Sanitized(d)
  <1>1. /\ d = db[active] /\ active \in Machines /\ d \in Tables /\ Whole(d)
        /\ \A x \in d.credentials : x.id <= bounds.uuid
    BY DEF Inv, TypeOK, Here, Sound, State, Whole
  <1>2. /\ dirty /\ writable /\ cloud' = c /\ dirty' = FALSE
        /\ accepted' = accepted \cup Uuids(d.identities)
        /\ db' = db /\ log' = log /\ flight' = flight /\ active' = active
        /\ writable' = writable /\ bounds' = bounds
    BY DEF Publish, Uuids
  <1> HIDE DEF d
  <1>3. /\ c \in Tables
        /\ c.accounts = d.accounts /\ c.identities = d.identities
        /\ c.upstreams = d.upstreams /\ c.routes = d.routes /\ c.rules = d.rules
        /\ c.keys = d.keys /\ c.credentials = d.credentials /\ c.secrets = {}
    BY <1>1 DEF Sanitized, Tables
  <1> HIDE DEF c
  <1>4. TypeOK'
    BY <1>2 DEF Inv, TypeOK
  <1>5. \A m \in Machines : Sound(State(m), bounds.uuid)'
    BY <1>2 DEF Inv, State
  <1>6. CloudWhole'
    <2>1. Whole(c)
      BY <1>1, <1>3 DEF Whole, Finite, References, Served, OneRuntime
    <2> QED BY <1>1, <1>2, <1>3, <2>1 DEF CloudWhole
  <1>7. accepted' = Uuids(d.identities)
    BY <1>1, <1>2 DEF Inv, UuidsName, Uuids
  <1>8. UuidsName'
    <2>1. /\ \A i \in d.identities : i.uuid <= bounds.uuid
          /\ \A m \in Machines : \A i \in db[m].identities, j \in d.identities :
               i.uuid = j.uuid => i = j
      BY <1>1 DEF Inv, UuidsName
    <2>2. \A i, j \in d.identities : i.uuid = j.uuid => i = j
      BY <1>1, <2>1
    <2>3. \A m \in Machines :
            /\ \A i \in db[m].identities : i.uuid <= bounds.uuid
            /\ \A n \in Machines : \A i \in db[m].identities, j \in db[n].identities :
                 i.uuid = j.uuid => i = j /\ (m = n \/ i.uuid \in accepted')
      BY <1>2 DEF Inv, UuidsName
    <2> QED BY <1>1, <1>2, <1>3, <1>7, <2>1, <2>2, <2>3 DEF UuidsName
  <1>9. MergedIsCloud'
    <2>1. Shared(d) = Shared(c)
      BY <1>3 DEF Shared
    <2> QED BY <1>1, <1>2, <2>1 DEF MergedIsCloud, Here
  <1>10. Owned'
    <2>1. \A o : Alive(o)' => Alive(o)
      BY <1>1, <1>2 DEF Alive
    <2>2. \A m \in Machines : \A i, o : Belongs(m, i, o) => Belongs(m, i, o)'
      BY <1>2, <2>1 DEF Belongs
    <2> QED BY <1>2, <2>2 DEF Inv, Owned
  <1>11. HalvesStep
    BY <1>2, SameHalvesStep
  <1> QED BY <1>4, <1>5, <1>6, <1>8, <1>9, <1>10, <1>11 DEF Inv

(* A step that leaves the tables, the history, the requests and the        *)
(* artifact alone, and makes no claim about the merge.                     *)
LEMMA NothingStored ==
  ASSUME Inv, UNCHANGED <<db, log, flight, cloud, accepted>>,
         active' \in Machines, writable' = FALSE, dirty' \in BOOLEAN,
         bounds' \in Bounds, bounds'.uuid = bounds.uuid
  PROVE  Inv' /\ HalvesStep
  <1>1. TypeOK'
    BY DEF Inv, TypeOK
  <1>2. \A m \in Machines : Sound(State(m), bounds.uuid)'
    BY DEF Inv, State
  <1>3. CloudWhole'
    BY DEF Inv, CloudWhole
  <1>4. UuidsName'
    BY DEF Inv, UuidsName
  <1>5. MergedIsCloud'
    BY DEF MergedIsCloud
  <1>6. Owned'
    <2>1. \A m \in Machines : \A i, o : Belongs(m, i, o) => Belongs(m, i, o)'
      BY DEF Belongs, Alive
    <2> QED BY <2>1 DEF Inv, Owned
  <1>7. HalvesStep
    BY SameHalvesStep
  <1> QED BY <1>1, <1>2, <1>3, <1>4, <1>5, <1>6, <1>7 DEF Inv

LEMMA PublishFailsStep ==
  ASSUME Inv, PublishFails
  PROVE  Inv' /\ HalvesStep
  <1>1. bounds' \in Bounds /\ bounds'.uuid = bounds.uuid
    <2>1. bounds \in Bounds /\ bounds.failures + 1 \in Nat
      BY DEF Inv, TypeOK, Bounds
    <2>2. bounds' = [bounds EXCEPT !.failures = bounds.failures + 1]
      BY DEF PublishFails
    <2> QED BY <2>1, <2>2 DEF Bounds
  <1>2. /\ UNCHANGED <<db, log, flight, cloud, accepted>>
        /\ active' \in Machines /\ writable' = FALSE /\ dirty' \in BOOLEAN
    BY DEF PublishFails, Inv, TypeOK
  <1> QED BY <1>1, <1>2, NothingStored

(* The merge: what commits is the artifact, and an owner that is alive is  *)
(* found where it was.                                                     *)
LEMMA PullStep ==
  ASSUME Inv, NEW m \in Machines, Pull(m)
  PROVE  Inv' /\ HalvesStep
  <1> DEFINE s == State(m)
             t == Merged(s, cloud)
             b == bounds.uuid
  <1>1. /\ active' = m
        /\ UNCHANGED <<flight, cloud, accepted, bounds>>
        /\ PullCommits(m) \/ PullRollsBack(m)
    BY DEF Pull
  <1>2. /\ TypeOK /\ Sound(s, b) /\ b \in Nat /\ s.db = db[m] /\ s.log = log[m]
        /\ Whole(cloud) /\ cloud.secrets = {} /\ \A x \in cloud.credentials : x.id <= b
    BY DEF Inv, TypeOK, Bounds, CloudWhole, State
  <1> HIDE DEF s, b
  <1>3. /\ Sound(t, b) /\ References(t.db, t.log)
        /\ Kin(t.log, log[m]) /\ Halves(db[m], t.db)
        /\ t.db.identities = Upsert(db[m].identities, cloud.identities)
        /\ Shared(t.db) = Shared(cloud)
    BY <1>2, MergedSound
  <1>4. CASE PullRollsBack(m)
    <2>1. /\ UNCHANGED <<db, log, flight, cloud, accepted>>
          /\ active' \in Machines /\ writable' = FALSE /\ dirty' \in BOOLEAN
          /\ bounds' \in Bounds /\ bounds'.uuid = bounds.uuid
      BY <1>1, <1>2, <1>4 DEF TypeOK, PullRollsBack
    <2> QED BY <2>1, NothingStored
  <1>5. CASE PullCommits(m)
    <2>1. writable' = TRUE /\ dirty' = FALSE /\ Store(m, t) /\ active' = m
          /\ UNCHANGED <<flight, cloud, accepted, bounds>>
      BY <1>1, <1>5 DEF PullCommits, s
    <2> HIDE DEF t
    <2>2. t \in States
      BY <1>3 DEF Sound
    <2>3. /\ db' \in [Machines -> Tables] /\ log' \in [Machines -> SUBSET History]
          /\ \A n \in Machines : /\ db'[n] = IF n = m THEN t.db ELSE db[n]
                                 /\ log'[n] = IF n = m THEN t.log ELSE log[n]
      BY <1>2, <2>1, <2>2, StoreIs
    <2>4. TypeOK'
      BY <1>2, <2>1, <2>3 DEF TypeOK
    <2>5. \A n \in Machines : Sound(State(n), bounds.uuid)'
      <3>1. t = [db |-> t.db, log |-> t.log]
        BY <2>2 DEF States
      <3> QED BY <1>3, <2>1, <2>3, <3>1 DEF Inv, State, b
    <2>6. CloudWhole'
      BY <2>1 DEF Inv, CloudWhole
    <2> DEFINE D == db[m].identities
               C == cloud.identities
               new == Upsert(D, C)
    <2>7. /\ db'[m].identities = new /\ C \subseteq new
          /\ \A i \in new : i \in C \/ i \in D
          /\ \A i \in D : i.id \notin Ids(C) => i \in new
          /\ Ids(D) \subseteq Ids(new)
      BY <1>3, <2>3 DEF Upsert, Ids
    <2>8. /\ accepted = Uuids(C)
          /\ \A i \in C : i.uuid \in accepted
          /\ \A i \in C : i.uuid <= b
          /\ \A i, j \in C : i.uuid = j.uuid => i = j
          /\ \A n \in Machines : \A i \in db[n].identities, j \in C : i.uuid = j.uuid => i = j
          /\ \A n \in Machines : \A i \in db[n].identities : i.uuid <= b
          /\ \A k, n \in Machines : \A i \in db[k].identities, j \in db[n].identities :
               i.uuid = j.uuid => i = j /\ (k = n \/ i.uuid \in accepted)
      BY DEF Inv, UuidsName, Uuids, b
    <2> HIDE DEF new, C
    <2>9. UuidsName'
      <3>1. \A i \in new : i.uuid <= b
        BY <2>7, <2>8
      <3>2. \A i \in new, j \in C : i.uuid = j.uuid => i = j
        BY <2>7, <2>8
      <3>3. \A i, j \in new : i.uuid = j.uuid => i = j
        BY <2>7, <2>8
      <3>4. \A n \in Machines : \A i \in new, j \in db[n].identities :
              n # m /\ i.uuid = j.uuid => i = j /\ i.uuid \in accepted
        BY <2>7, <2>8
      <3>5. ASSUME NEW k \in Machines
            PROVE  /\ \A i \in db'[k].identities : i.uuid <= b
                   /\ \A i \in db'[k].identities, j \in C : i.uuid = j.uuid => i = j
        BY <2>3, <2>7, <2>8, <3>1, <3>2
      <3>6. ASSUME NEW k \in Machines, NEW n \in Machines,
                   NEW i \in db'[k].identities, NEW j \in db'[n].identities, i.uuid = j.uuid
            PROVE  i = j /\ (k = n \/ i.uuid \in accepted)
        <4>1. CASE k = m /\ n = m
          BY <2>7, <3>3, <3>6, <4>1
        <4>2. CASE k = m /\ n # m
          BY <2>3, <2>7, <3>4, <3>6, <4>2
        <4>3. CASE k # m /\ n = m
          <5>1. i \in db[k].identities /\ j \in new
            BY <2>3, <2>7, <3>6, <4>3
          <5>2. j = i /\ j.uuid \in accepted
            BY <3>4, <3>6, <4>3, <5>1
          <5> QED BY <5>2
        <4>4. CASE k # m /\ n # m
          BY <2>3, <2>8, <3>6, <4>4
        <4> QED BY <4>1, <4>2, <4>3, <4>4
      <3>7. C \subseteq db'[m].identities
        BY <2>7
      <3> QED BY <2>1, <2>8, <3>5, <3>6, <3>7 DEF UuidsName, b, C
    <2>10. MergedIsCloud'
      BY <1>3, <2>1, <2>3 DEF MergedIsCloud, Here
    <2>11. ASSUME NEW n \in Machines, NEW i, NEW o, Belongs(n, i, o)
           PROVE  Belongs(n, i, o)'
      <3>1. Alive(o)' => Alive(o)
        <4>1. \A k \in Machines : \A x \in db'[k].identities :
                x \in db[k].identities \/ x.uuid \in accepted
          BY <2>3, <2>7, <2>8
        <4> QED BY <2>1, <4>1 DEF Alive, Uuids
      <3>2. CASE n # m
        BY <2>1, <2>3, <2>11, <3>1, <3>2 DEF Belongs
      <3>3. CASE n = m
        <4>1. i \in Ids(db'[m].identities) /\ o <= bounds'.uuid
          BY <2>1, <2>7, <2>11, <3>3 DEF Belongs
        <4>2. ASSUME Alive(o)'
              PROVE  \E x \in db'[m].identities : x.id = i /\ x.uuid = o
          <5>1. PICK x \in D : x.id = i /\ x.uuid = o
            BY <2>11, <3>1, <3>3, <4>2 DEF Belongs
          <5>2. CASE o \in accepted
            <6>1. PICK z \in C : z.uuid = o
              BY <2>8, <5>2 DEF Uuids
            <6>2. x = z
              BY <2>8, <5>1, <6>1
            <6> QED BY <2>7, <5>1, <6>1, <6>2
          <5>3. CASE o \notin accepted
            <6>1. PICK k \in Machines : \E y \in db'[k].identities : y.uuid = o
              BY <2>1, <4>2, <5>3 DEF Alive, Uuids
            <6>2. PICK y \in db'[k].identities : y.uuid = o
              BY <6>1
            <6>3. y \in db[k].identities
              BY <2>3, <2>7, <2>8, <5>3, <6>2
            <6>4. y = x /\ k = m
              BY <2>8, <5>1, <5>3, <6>2, <6>3
            <6> QED BY <5>1, <6>2, <6>4
          <5> QED BY <5>2, <5>3
        <4> QED BY <3>3, <4>1, <4>2 DEF Belongs
      <3> QED BY <3>2, <3>3
    <2>12. Owned'
      <3>1. ASSUME NEW n \in Machines, NEW r \in log'[n]
            PROVE  Belongs(n, r.identity, r.owner)'
        <4>1. PICK q \in log[n] : r.identity = q.identity /\ r.owner = q.owner
          BY <1>3, <2>3, <3>1 DEF Kin
        <4>2. Belongs(n, q.identity, q.owner)
          BY <4>1 DEF Inv, Owned
        <4> QED BY <2>11, <4>1, <4>2
      <3>2. ASSUME NEW n \in Machines, NEW f \in flight'[n]
            PROVE  Belongs(n, f.account, f.owner)'
        <4>1. Belongs(n, f.account, f.owner)
          BY <2>1, <3>2 DEF Inv, Owned
        <4> QED BY <2>11, <4>1
      <3> QED BY <3>1, <3>2 DEF Owned
    <2>13. HalvesStep
      <3>1. \A n \in Machines : Halves(db[n], db[n])
        BY DEF Inv, Sound, State, Whole, Unique, Halves
      <3> QED BY <1>3, <2>3, <3>1 DEF HalvesStep
    <2> QED BY <2>1, <2>4, <2>5, <2>6, <2>9, <2>10, <2>12, <2>13 DEF Inv
  <1> QED BY <1>1, <1>4, <1>5

(* A request carries the account its upstream belongs to.                  *)
LEMMA DispatchStep ==
  ASSUME Inv, Dispatch
  PROVE  Inv' /\ HalvesStep
  <1> DEFINE d == db[active]
  <1>1. /\ active \in Machines /\ d \in Tables /\ Whole(d) /\ TypeOK
        /\ bounds \in Bounds /\ bounds.requests \in Nat
    BY DEF Inv, TypeOK, Bounds, Sound, State, Whole
  <1>2. PICK k \in d.keys, r \in d.rules, c \in d.credentials :
          LET a == Row(d.upstreams, r.upstream).account
          IN  flight' = [flight EXCEPT ![active] = @ \cup
                {[event |-> bounds.requests, account |-> a, key |-> k.id,
                  runtime |-> c.runtime, owner |-> Row(d.accounts, a).uuid]}]
    BY DEF Dispatch, Here
  <1>3. /\ bounds' = [bounds EXCEPT !.requests = @ + 1]
        /\ UNCHANGED <<db, log, cloud, active, writable, dirty, accepted>>
    BY DEF Dispatch
  <1> DEFINE u == Row(d.upstreams, r.upstream)
             a == u.account
             x == Row(d.accounts, a)
             f == [event |-> bounds.requests, account |-> a, key |-> k.id,
                   runtime |-> c.runtime, owner |-> x.uuid]
  <1> HIDE DEF d
  <1>4. bounds' \in Bounds /\ bounds'.uuid = bounds.uuid
    <2>1. bounds.requests + 1 \in Nat
      BY <1>1
    <2> DEFINE e == bounds.requests + 1
    <2>2. bounds' = [bounds EXCEPT !.requests = e] /\ e \in Nat
      BY <1>3, <2>1
    <2> HIDE DEF e
    <2> QED BY <1>1, <2>2 DEF Bounds
  <1>5. u \in d.upstreams
    <2>1. PICK v \in d.upstreams : v.id = r.upstream
      BY <1>1 DEF Whole, References, Ids
    <2> QED BY <2>1 DEF Row
  <1>6. x \in d.accounts /\ x.id = a
    <2>1. PICK v \in d.accounts : v.id = a
      BY <1>1, <1>5 DEF Whole, References, Ids
    <2> QED BY <2>1 DEF Row
  <1>7. x \in d.identities /\ x \in Identities /\ a \in Nat /\ x.uuid \in Nat
    BY <1>1, <1>5, <1>6 DEF Whole, Tables, Identities, Upstreams
  <1>8. k.id \in Nat /\ c.runtime \in Nat
    BY <1>1 DEF Tables, Keys, Credentials
  <1> HIDE DEF u, x
  <1>9. f \in Flights /\ f.account = x.id /\ f.owner = x.uuid
    BY <1>1, <1>6, <1>7, <1>8 DEF Flights
  <1>10. flight' = [flight EXCEPT ![active] = @ \cup {f}]
    BY <1>2 DEF u, x
  <1> HIDE DEF f
  <1>11. /\ flight' \in [Machines -> SUBSET Flights]
         /\ \A m \in Machines : \A g \in flight'[m] : g \in flight[m] \/ (m = active /\ g = f)
    BY <1>1, <1>9, <1>10 DEF TypeOK
  <1>12. TypeOK'
    BY <1>1, <1>3, <1>4, <1>11 DEF TypeOK
  <1>13. \A m \in Machines : Sound(State(m), bounds.uuid)'
    BY <1>3, <1>4 DEF Inv, State
  <1>14. CloudWhole' /\ UuidsName' /\ MergedIsCloud'
    BY <1>3, <1>4 DEF Inv, CloudWhole, UuidsName, MergedIsCloud, Here
  <1>15. Owned'
    <2>1. \A m \in Machines : \A i, o : Belongs(m, i, o) => Belongs(m, i, o)'
      BY <1>3, <1>4 DEF Belongs, Alive
    <2>2. Belongs(active, f.account, f.owner)
      <3>1. x.uuid <= bounds.uuid
        BY <1>1, <1>7 DEF Inv, UuidsName, d
      <3> QED BY <1>7, <1>9, <3>1 DEF Belongs, Ids, d
    <2>3. ASSUME NEW m \in Machines, NEW g \in flight'[m]
          PROVE  Belongs(m, g.account, g.owner)'
      <3>1. Belongs(m, g.account, g.owner)
        BY <1>11, <2>2, <2>3 DEF Inv, Owned
      <3> QED BY <2>1, <3>1
    <2> QED BY <1>3, <2>1, <2>3 DEF Inv, Owned
  <1>16. HalvesStep
    BY <1>3, SameHalvesStep
  <1> QED BY <1>12, <1>13, <1>14, <1>15, <1>16 DEF Inv

(* The row of a request refers to what is still there.                     *)
LEMMA RecordedIs ==
  ASSUME NEW d, Whole(d), NEW f \in Flights
  PROVE  /\ Recorded(d, f) \in History
         /\ Recorded(d, f).identity = f.account /\ Recorded(d, f).owner = f.owner
         /\ Attached(d, {Recorded(d, f)})
  <1> DEFINE r == Recorded(d, f)
             A == OrNull(f.account, Ids(d.accounts))
             K == OrNull(f.key, Ids(d.keys))
             R == IF f.key \in Ids(d.keys) THEN Row(d.keys, f.key).route ELSE None
             C == IF \E c \in d.credentials : c.runtime = f.runtime
                  THEN (CHOOSE c \in d.credentials : c.runtime = f.runtime).id ELSE None
  <1>1. r = [event |-> f.event, account |-> A, identity |-> f.account, key |-> K, route |-> R,
             credential |-> C, owner |-> f.owner]
    BY DEF Recorded
  <1>2. d \in Tables /\ f.event \in Nat /\ f.account \in Nat /\ f.owner \in Nat
    BY DEF Whole, Flights
  <1>3. A \in Ids(d.accounts) \cup {None} /\ K \in Ids(d.keys) \cup {None}
    BY DEF OrNull
  <1>4. R \in Ids(d.routes) \cup {None}
    <2>1. ASSUME f.key \in Ids(d.keys) PROVE Row(d.keys, f.key).route \in Ids(d.routes)
      <3>1. PICK k \in d.keys : k.id = f.key
        BY <2>1 DEF Ids
      <3>2. Row(d.keys, f.key) \in d.keys
        BY <3>1 DEF Row
      <3> QED BY <3>2 DEF Whole, References
    <2> QED BY <2>1
  <1>5. C \in Ids(d.credentials) \cup {None}
    <2>1. ASSUME NEW c \in d.credentials, c.runtime = f.runtime
          PROVE  (CHOOSE y \in d.credentials : y.runtime = f.runtime) \in d.credentials
      BY <2>1
    <2> QED BY <2>1 DEF Ids
  <1>6. Ids(d.accounts) \subseteq Nat /\ Ids(d.keys) \subseteq Nat
        /\ Ids(d.routes) \subseteq Nat /\ Ids(d.credentials) \subseteq Nat
    BY <1>2 DEF Tables, Ids, Identities, Keys, RouteSets, Credentials
  <1> HIDE DEF r, A, K, R, C
  <1>7. /\ r \in History /\ r.identity = f.account /\ r.owner = f.owner
        /\ r.account = A /\ r.key = K /\ r.route = R /\ r.credential = C
    BY <1>1, <1>2, <1>3, <1>4, <1>5, <1>6 DEF History, IdOrNull
  <1>8. Attached(d, {r})
    BY <1>3, <1>4, <1>5, <1>7 DEF Attached
  <1> QED BY <1>7, <1>8 DEF r

LEMMA RecordStep ==
  ASSUME Inv, Record
  PROVE  Inv' /\ HalvesStep
  <1> DEFINE d == db[active]
  <1>1. PICK f \in flight[active] :
          /\ flight' = [flight EXCEPT ![active] = @ \ {f}]
          /\ log' = [log EXCEPT ![active] = @ \cup {Recorded(d, f)}]
          /\ UNCHANGED <<db, cloud, active, writable, dirty, accepted, bounds>>
    BY DEF Record, Here
  <1>2. /\ active \in Machines /\ d \in Tables /\ Whole(d) /\ TypeOK
        /\ f \in Flights
    BY DEF Inv, TypeOK, Sound, State, Whole
  <1> DEFINE r == Recorded(d, f)
  <1>3. /\ r \in History /\ r.identity = f.account /\ r.owner = f.owner
        /\ Attached(d, {r})
    BY <1>2, RecordedIs
  <1> HIDE DEF d, r
  <1>4. /\ flight' \in [Machines -> SUBSET Flights] /\ log' \in [Machines -> SUBSET History]
        /\ \A m \in Machines : flight'[m] \subseteq flight[m]
        /\ \A m \in Machines : log'[m] = IF m = active THEN log[m] \cup {r} ELSE log[m]
    BY <1>1, <1>2, <1>3 DEF TypeOK, r
  <1>5. TypeOK'
    BY <1>1, <1>2, <1>4 DEF TypeOK
  <1>6. \A m \in Machines : Sound(State(m), bounds.uuid)'
    <2>1. ASSUME NEW m \in Machines
          PROVE  Sound([db |-> db[m], log |-> log'[m]], bounds.uuid)
      <3>1. Sound([db |-> db[m], log |-> log[m]], bounds.uuid)
        BY DEF Inv, State
      <3>2. [db |-> db[m], log |-> log'[m]] \in States
        BY <1>2, <1>4 DEF States, TypeOK
      <3>3. Attached(db[m], log'[m])
        <4>1. Attached(db[m], log[m])
          BY <3>1 DEF Sound
        <4>2. CASE m = active
          <5>1. Attached(db[m], {r})
            BY <1>3, <4>2 DEF d
          <5> QED BY <1>4, <4>1, <4>2, <5>1 DEF Attached
        <4>3. CASE m # active
          BY <1>4, <4>1, <4>3
        <4> QED BY <4>2, <4>3
      <3> QED BY <3>1, <3>2, <3>3 DEF Sound
    <2> QED BY <1>1, <2>1 DEF State
  <1>7. CloudWhole' /\ UuidsName' /\ MergedIsCloud'
    BY <1>1 DEF Inv, CloudWhole, UuidsName, MergedIsCloud, Here
  <1>8. Owned'
    <2>1. \A m \in Machines : \A i, o : Belongs(m, i, o) => Belongs(m, i, o)'
      BY <1>1 DEF Belongs, Alive
    <2>2. ASSUME NEW m \in Machines, NEW q \in log'[m]
          PROVE  Belongs(m, q.identity, q.owner)'
      <3>1. CASE q \in log[m]
        BY <2>1, <2>2, <3>1 DEF Inv, Owned
      <3>2. CASE q \notin log[m]
        <4>1. m = active /\ q = r
          BY <1>4, <2>2, <3>2
        <4>2. Belongs(active, f.account, f.owner)
          BY <1>2 DEF Inv, Owned
        <4> QED BY <1>2, <1>3, <2>1, <4>1, <4>2
      <3> QED BY <3>1, <3>2
    <2>3. ASSUME NEW m \in Machines, NEW g \in flight'[m]
          PROVE  Belongs(m, g.account, g.owner)'
      BY <1>4, <2>1, <2>3 DEF Inv, Owned
    <2> QED BY <2>2, <2>3 DEF Owned
  <1>9. HalvesStep
    BY <1>1, SameHalvesStep
  <1> QED BY <1>5, <1>6, <1>7, <1>8, <1>9 DEF Inv

LEMMA InvStep ==
  ASSUME Inv, [Next]_vars
  PROVE  Inv' /\ HalvesStep
  <1>1. CASE \/ EditCreateAccount \/ EditDeleteAccount \/ EditSetKeys \/ EditConfirmCloudKey
             \/ EditCreateAggregate \/ EditUpdateAggregate \/ EditDeleteAggregate
             \/ EditCreateKey \/ EditMoveKey \/ EditDeleteKey
    BY <1>1, EditsStep
  <1>2. CASE Publish
    BY <1>2, PublishStep
  <1>3. CASE PublishFails
    BY <1>3, PublishFailsStep
  <1>4. CASE RetryPull
    <2>1. active \in Machines /\ Pull(active)
      BY <1>4, HereSound DEF RetryPull
    <2> QED BY <2>1, PullStep
  <1>5. CASE \E m \in Machines : Start(m)
    <2>1. PICK m \in Machines : Pull(m)
      BY <1>5 DEF Start
    <2> QED BY <2>1, PullStep
  <1>6. CASE Dispatch
    BY <1>6, DispatchStep
  <1>7. CASE Record
    BY <1>7, RecordStep
  <1>8. CASE UNCHANGED vars
    <2>1. /\ UNCHANGED <<db, log, flight, cloud, accepted, active, writable, dirty, bounds>>
      BY <1>8 DEF vars
    <2>2. Inv'
      <3>1. TypeOK' /\ CloudWhole' /\ UuidsName' /\ MergedIsCloud'
        BY <2>1 DEF Inv, TypeOK, CloudWhole, UuidsName, MergedIsCloud, Here
      <3>2. \A m \in Machines : Sound(State(m), bounds.uuid)'
        BY <2>1 DEF Inv, State
      <3>3. \A m \in Machines : \A i, o : Belongs(m, i, o) => Belongs(m, i, o)'
        BY <2>1 DEF Belongs, Alive
      <3>4. Owned'
        BY <2>1, <3>3 DEF Inv, Owned
      <3> QED BY <3>1, <3>2, <3>4 DEF Inv
    <2>3. HalvesStep
      BY <2>1, SameHalvesStep
    <2> QED BY <2>2, <2>3
  <1> QED BY <1>1, <1>2, <1>3, <1>4, <1>5, <1>6, <1>7, <1>8 DEF Next

LEMMA InvAlways == Spec => []Inv
  <1>1. Init => Inv
    BY InitInv
  <1>2. Inv /\ [Next]_vars => Inv'
    BY InvStep
  <1> QED BY <1>1, <1>2, PTL DEF Spec
-----------------------------------------------------------------------------
(* The theorems.                                                           *)

(* The tables, the history, the requests in flight and the counters hold   *)
(* what the schema declares, on every machine.                             *)
THEOREM LiveTypes == Spec => []TypeOK
  <1>1. Inv => TypeOK
    BY DEF Inv
  <1> QED BY <1>1, InvAlways, PTL

(* No edit, publication, failed publication or merge leaves a foreign key  *)
(* of the live tables or of the history without its row.                   *)
THEOREM GraphStaysWhole == Spec => []GraphWhole
  <1>1. Inv => GraphWhole
    <2> SUFFICES ASSUME Inv, NEW m \in Machines PROVE References(db[m], log[m])
      BY DEF GraphWhole
    <2>1. References(db[m], {}) /\ Attached(db[m], log[m])
      BY DEF Inv, Sound, State, Whole
    <2> QED BY <2>1, ReferencesSplit
  <1> QED BY <1>1, InvAlways, PTL

(* A recorded request names, on its machine, an identity, and the one of   *)
(* the account that served it if that account was ever published.          *)
THEOREM OwnersAreKept == Spec => []OwnerKept
  <1>1. Inv => OwnerKept
    <2> SUFFICES ASSUME Inv, NEW m \in Machines, NEW r \in log[m]
                 PROVE  \E i \in db[m].identities :
                          i.id = r.identity /\ (r.owner \in accepted => i.uuid = r.owner)
      BY DEF OwnerKept
    <2>1. Belongs(m, r.identity, r.owner)
      BY DEF Inv, Owned
    <2>2. CASE r.owner \in accepted
      BY <2>1, <2>2 DEF Belongs, Alive
    <2>3. CASE r.owner \notin accepted
      BY <2>1, <2>3 DEF Belongs, Ids
    <2> QED BY <2>2, <2>3
  <1> QED BY <1>1, InvAlways, PTL

(* A machine that merged and holds no edit has the artifact's rows.        *)
THEOREM MergeIsTheArtifact == Spec => []MergedIsCloud
  <1>1. Inv => MergedIsCloud
    BY DEF Inv
  <1> QED BY <1>1, InvAlways, PTL

(* Every step keeps the runtime id and the plaintext of the credentials    *)
(* that survive it, on every machine; no two credentials share a runtime   *)
(* id, and the artifact never holds a plaintext.                           *)
THEOREM LocalHalvesAreKept == Spec => LocalHalfKept
  <1>1. Inv /\ Inv' /\ [Next]_vars
          => [ /\ cloud'.secrets = {}
               /\ \A m \in Machines :
                   /\ \A c \in db'[m].credentials, x \in db'[m].credentials :
                          c.runtime = x.runtime => c = x
                   /\ \A c \in db[m].credentials, x \in db'[m].credentials :
                          c.id = x.id => /\ c.runtime = x.runtime
                                         /\ c.id \in db[m].secrets => c.id \in db'[m].secrets ]_vars
    <2> SUFFICES ASSUME Inv, Inv', [Next]_vars
                 PROVE  /\ cloud'.secrets = {}
                        /\ \A m \in Machines : OneRuntime(db'[m]) /\ Halves(db[m], db'[m])
      BY DEF OneRuntime, Halves
    <2>1. HalvesStep
      BY InvStep
    <2>2. cloud'.secrets = {}
      BY DEF Inv, CloudWhole
    <2>3. \A m \in Machines : OneRuntime(db'[m])
      BY DEF Inv, Sound, State, Whole
    <2> QED BY <2>1, <2>2, <2>3 DEF HalvesStep
  <1> QED BY <1>1, InvAlways, PTL DEF Spec, LocalHalfKept

(* In every state, whichever machine started now would merge the artifact  *)
(* into tables and a history without a dangling reference: of the tables   *)
(* modelled, no foreign key ever rolls a pull back.                        *)
MergesRefer ==
    \A m \in Machines :
        LET s == Merged(State(m), cloud) IN References(s.db, s.log)

THEOREM ForeignKeysNeverRefuse == Spec => []MergesRefer
  <1>1. Inv => MergesRefer
    <2> SUFFICES ASSUME Inv, NEW m \in Machines
                 PROVE  LET s == Merged(State(m), cloud) IN References(s.db, s.log)
      BY DEF MergesRefer
    <2>1. Sound(State(m), bounds.uuid) /\ bounds.uuid \in Nat
      BY DEF Inv, TypeOK, Bounds
    <2>2. /\ Whole(cloud) /\ cloud.secrets = {}
          /\ \A x \in cloud.credentials : x.id <= bounds.uuid
      BY DEF Inv, CloudWhole
    <2> QED BY <2>1, <2>2, MergedSound
  <1> QED BY <1>1, InvAlways, PTL
-----------------------------------------------------------------------------
=============================================================================
