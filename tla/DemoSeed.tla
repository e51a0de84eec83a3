-------------------------------- MODULE DemoSeed --------------------------------
(***************************************************************************)
(* The seeding commands: seed_returnhub_demo, which commits every statement    *)
(* on its own and may be killed between any two, and seed_demo_data, which is   *)
(* one transaction.  Either may be run again at any time, over whatever         *)
(* profiles the database holds.                                               *)
(*                                                                          *)
(* Customers and merchants have a profile table each, with a unique user and    *)
(* a unique reference (external_reference, merchant_code).                     *)
(***************************************************************************)
EXTENDS Naturals, FiniteSets, SequencesExt

CONSTANTS
  None,
  Pk,         \* bound: primary keys of the profiles of one table
  Stranger,   \* users the commands do not know
  MaxBefore,  \* bound: profiles the database holds before the first command
  Taken,      \* bound: keys whose legacy references they may hold
  BlockSize   \* the cases per customer: the count of _ensure_cases

\* Primary keys begin at 1, and a table is never full: the demos add three profiles
ASSUME SeedAssumption ==
  /\ Pk \subseteq Nat \ {0} /\ MaxBefore \in Nat /\ BlockSize \in Nat
  /\ Taken \subseteq Pk
  /\ IsFiniteSet(Pk) => Cardinality(Pk) >= MaxBefore + 3

Kind == {"customer", "merchant"}

\* The users of the demo, a role and a number each, in the order of handle, and
\* those of seed_demo_data (number 0)
ProfileUser == <<<<"customer", 1>>, <<"customer", 2>>, <<"merchant", 1>>, <<"merchant", 2>>>>
DemoUser == <<<<"admin", 1>>, <<"ops", 1>>>> \o ProfileUser
Group == {"admin", "ops", "customer", "merchant"}
LegacyUser == Group \X {0}
User == ToSet(DemoUser) \cup LegacyUser \cup Stranger

\* The references of both demos (CUS-DEMO-0001 and so on, number 0 for CUS-0001),
\* and those the command gives to profiles that are in its way
Demo(number) == <<"demo", number>>
Legacy_Fault(pk) == <<"legacy", 0>>    \* faulty: a reference without the key
Legacy(pk) == <<"legacy", pk>>
Reference == {Demo(n) : n \in 0..2} \cup ({"legacy"} \X Pk)
Profile == [user : User, ref : Reference]

\* The demo's cases RH-00001 and so on; seed_demo_data has others (RH-0001)
CaseRef == {<<"demo", i>> : i \in 1..(2 * BlockSize)} \cup {<<"legacy", i>> : i \in 1..BlockSize}

ASSUME UserAssumption == Stranger \cap (ToSet(DemoUser) \cup LegacyUser) = {}

ASSUME NoneAssumption ==
  /\ None \notin Reference /\ None \notin Profile
  /\ None \notin [Kind -> Pk] /\ \A groups \in SUBSET Group : groups # None

VARIABLES
  groupsOf,  \* the groups of each user, None where there is no such user
  profiles,  \* per kind and primary key [user, ref], None where there is none
  cases,     \* per reference the primary keys of its profiles, None if absent
  job,       \* the statement seed_returnhub_demo comes to, 0 if it does not run
  held,      \* the profiles the command has saved and holds in memory
  collided,  \* did the last run end because a statement broke a constraint?
  complete   \* has the command ever run to its end?

vars == <<groupsOf, profiles, cases, job, held, collided, complete>>

--------------------------------------------------------------------------------
(* The statements of seed_returnhub_demo *)

\* Two statements for each user, one user after the other
InPairs(first, second, users) ==
  [i \in 1..(2 * Len(users)) |->
     [do |-> IF i % 2 = 1 THEN first ELSE second, what |-> users[(i + 1) \div 2]]]

UserStatements    == InPairs("user", "group", DemoUser)
ProfileStatements == InPairs("rename", "profile", ProfileUser)
CaseStatements    == [i \in 1..(2 * BlockSize) |-> [do |-> "case", what |-> i]]

Statements == UserStatements \o ProfileStatements \o CaseStatements

At(do) == job # 0 /\ Statements[job].do = do
What   == Statements[job].what

Proceed ==
  /\ job' = IF job = Len(Statements) THEN 0 ELSE job + 1
  /\ complete' = (complete \/ job = Len(Statements))

\* The profile of the user, else the one with the reference, else a new one
Found(kind, user, ref) ==
  LET table == profiles[kind]
      Of(p)   == table[p] # None /\ table[p].user = user
      With(p) == table[p] # None /\ table[p].ref = ref
  IN  CHOOSE p \in Pk : IF \E q \in Pk : Of(q) THEN Of(p)
                        ELSE IF \E q \in Pk : With(q) THEN With(p)
                        ELSE table[p] = None

\* faulty: no .exclude(pk=profile.pk)
Conflicting_Fault(kind, user, ref) ==
  {p \in Pk : profiles[kind][p] # None /\ profiles[kind][p].ref = ref}

\* faulty: profiles in the way are not looked for
Conflicting_None(kind, user, ref) == {}

\* The other profile with the reference
Conflicting(kind, user, ref) ==
  {p \in Pk \ {Found(kind, user, ref)} :
     profiles[kind][p] # None /\ profiles[kind][p].ref = ref}

\* Would the row break a unique constraint of its table?
Duplicate(kind, pk, row) ==
  \E p \in Pk \ {pk} : /\ profiles[kind][p] # None
                       /\ profiles[kind][p].user = row.user \/ profiles[kind][p].ref = row.ref

\* INSERT or UPDATE of a profile; refused, it raises IntegrityError and the
\* command ends
SaveProfile(kind, pk, row) ==
  IF Duplicate(kind, pk, row)
    THEN /\ collided' = TRUE
         /\ job' = 0
         /\ UNCHANGED <<groupsOf, profiles, cases, held, complete>>
    ELSE /\ profiles' = [profiles EXCEPT ![kind][pk] = row]
         /\ held' = IF At("profile") THEN held \cup {<<What, pk>>} ELSE held
         /\ Proceed
         /\ UNCHANGED <<groupsOf, cases, collided>>

--------------------------------------------------------------------------------
\* The profiles a table of a kind may hold before
Rows(kind) == [user : Stranger \cup ({kind} \X (0..2)),
               ref : {Demo(n) : n \in 0..2} \cup ({"legacy"} \X Taken)]

\* The tables of a kind with n profiles that obey the constraints
Tables(kind, n) ==
  {[p \in Pk |-> IF p <= n THEN t[p] ELSE None] :
     t \in {t \in [1..n -> Rows(kind)] :
             \A p, q \in 1..n : p # q => t[p].user # t[q].user /\ t[p].ref # t[q].ref}}

\* Any database, with profiles of any users and references: those of the demos, and
\* any that are made like the ones the command gives
Init ==
  /\ \E n \in 0..MaxBefore : profiles \in {[customer |-> c, merchant |-> m] :
                                   c \in Tables("customer", n), m \in Tables("merchant", MaxBefore - n)}
  /\ groupsOf = [u \in User |->
       IF u \in Stranger \/ \E k \in Kind, p \in Pk :
            profiles[k][p] # None /\ profiles[k][p].user = u
       THEN {} ELSE None]
  /\ cases = [r \in CaseRef |-> None]
  /\ job = 0
  /\ held = {}
  /\ collided = FALSE
  /\ complete = FALSE

\* seed_returnhub_demo starts; its groups are there from the first run on
StartSeed ==
  /\ job = 0
  /\ job' = 1
  /\ held' = {}
  /\ collided' = FALSE
  /\ UNCHANGED <<groupsOf, profiles, cases, complete>>

\* faulty: only a user it has created is given a group
EnsureUser_Fault ==
  /\ At("user")
  /\ groupsOf' = [groupsOf EXCEPT ![What] = IF @ = None THEN {} ELSE @]
  /\ job' = IF groupsOf[What] = None THEN job + 1 ELSE job + 2
  /\ UNCHANGED <<profiles, cases, held, collided, complete>>

\* _ensure_user: update_or_create (set_password and save, a statement of their
\* own, change nothing that is modelled) ...
EnsureUser ==
  /\ At("user")
  /\ groupsOf' = [groupsOf EXCEPT ![What] = IF @ = None THEN {} ELSE @]
  /\ Proceed
  /\ UNCHANGED <<profiles, cases, held, collided>>

\* ... and groups.set
SetGroup ==
  /\ At("group")
  /\ groupsOf' = [groupsOf EXCEPT ![What] = {What[1]}]
  /\ Proceed
  /\ UNCHANGED <<profiles, cases, held, collided>>

\* _ensure_customer_profile, _ensure_merchant_profile: the profile in the way
\* gets a reference made of its primary key ...
RenameConflicting ==
  /\ At("rename")
  /\ LET kind == What[1]
         inTheWay == Conflicting(kind, What, Demo(What[2]))
     IN  IF inTheWay = {}
           THEN Proceed /\ UNCHANGED <<groupsOf, profiles, cases, held, collided>>
           ELSE \E p \in inTheWay :
                  SaveProfile(kind, p, [profiles[kind][p] EXCEPT !.ref = Legacy(p)])

\* ... before the user's own is saved
EnsureProfile ==
  /\ At("profile")
  /\ SaveProfile(What[1], Found(What[1], What, Demo(What[2])),
                 [user |-> What, ref |-> Demo(What[2])])

\* _ensure_cases: the first block is of customer and merchant one, the second of two
EnsureCase ==
  /\ At("case")
  /\ LET block == IF What <= BlockSize THEN 1 ELSE 2
     IN  cases' = [cases EXCEPT ![<<"demo", What>>] =
                     [k \in Kind |-> CHOOSE p \in Pk : <<<<k, block>>, p>> \in held]]
  /\ Proceed
  /\ UNCHANGED <<groupsOf, profiles, held, collided>>

\* The command is killed: what it has committed stays
Crash ==
  /\ job # 0
  /\ job' = 0
  /\ held' = {}
  /\ UNCHANGED <<groupsOf, profiles, cases, collided, complete>>

\* seed_demo_data: update_or_create by the user, all or nothing.  Where a
\* constraint forbids a row the transaction is rolled back and nothing happens.
LegacyRow(kind) == [user |-> <<kind, 0>>, ref |-> Demo(0)]

SeedLegacy ==
  /\ job = 0
  /\ \A k \in Kind : ~Duplicate(k, Found(k, <<k, 0>>, None), LegacyRow(k))
  /\ groupsOf' = [u \in User |-> IF u \in LegacyUser THEN {u[1]} ELSE groupsOf[u]]
  /\ profiles' = [k \in Kind |->
                    [profiles[k] EXCEPT ![Found(k, <<k, 0>>, None)] = LegacyRow(k)]]
  /\ cases' = [r \in CaseRef |->
                 IF r[1] = "legacy" THEN [k \in Kind |-> Found(k, <<k, 0>>, None)]
                 ELSE cases[r]]
  /\ UNCHANGED <<job, held, collided, complete>>

Next ==
  \/ StartSeed \/ EnsureUser \/ SetGroup \/ RenameConflicting \/ EnsureProfile
  \/ EnsureCase \/ Crash \/ SeedLegacy

Spec == Init /\ [][Next]_vars

--------------------------------------------------------------------------------
(* Properties *)

\* Every variable has its type.
TypeOK ==
  /\ groupsOf \in [User -> (SUBSET Group) \cup {None}]
  /\ profiles \in [Kind -> [Pk -> Profile \cup {None}]]
  /\ cases \in [CaseRef -> [Kind -> Pk] \cup {None}]
  /\ job \in 0..Len(Statements)
  /\ held \subseteq ToSet(DemoUser) \X Pk
  /\ collided \in BOOLEAN /\ complete \in BOOLEAN

\* Does profile q hold the reference made of another's key p?
Misnamed(k, p, q) ==
  p # q /\ profiles[k][q] # None /\ profiles[k][q].ref = Legacy(p)

\* Whoever holds the demo's references and wherever runs before were killed: no
\* statement is refused for a duplicate ("without colliding on unique references"),
\* but one: the renaming of a profile whose new name another holds.  The command
\* gives nobody such a name.
CollidesOnlyOverTakenName ==
  [][/\ ~collided /\ collided' =>
          /\ At("rename")
          /\ \E p, q \in Pk : /\ p \in Conflicting(What[1], What, Demo(What[2]))
                             /\ Misnamed(What[1], p, q)
     /\ \A k \in Kind, p, q \in Pk : Misnamed(k, p, q)' => Misnamed(k, p, q)]_vars

\* Once the command has run to its end, after however many that did not, the demo
\* is whole: every demo user is in its group and has the profile with its
\* reference, and the cases belong to those profiles.
CompleteRunIsWhole ==
  complete =>
    /\ \A u \in ToSet(DemoUser) : groupsOf[u] = {u[1]}
    /\ \A k \in Kind, n \in {1, 2} : \E p \in Pk :
         /\ profiles[k][p] = [user |-> <<k, n>>, ref |-> Demo(n)]
         /\ \A i \in ((n - 1) * BlockSize + 1)..(n * BlockSize) : cases[<<"demo", i>>][k] = p

\* A run after a complete one adds and takes no profile, no user and no case of
\* anybody but seed_demo_data's own, nor does one that is killed ("Running the
\* command twice should keep deterministic demo counts stable").
RerunKeepsProfiles ==
  [][complete =>
       /\ \A k \in Kind, p \in Pk :
            \/ profiles'[k][p] = profiles[k][p]
            \/ /\ profiles[k][p] = None \/ profiles[k][p].user = <<k, 0>>
               /\ profiles'[k][p] # None /\ profiles'[k][p].user = <<k, 0>>
       /\ \A u \in User \ LegacyUser : groupsOf'[u] = groupsOf[u]
       /\ \A r \in CaseRef : r[1] = "demo" => cases'[r] = cases[r]]_vars
================================================================================
