----------------------------- MODULE Authorizer -----------------------------
(***************************************************************************)
(* The Casbin authorizer: control-plane/src/auth/casbin_rbac.py.           *)
(*                                                                         *)
(* get_enforcer() creates the enforcer on first use and awaits twice while *)
(* doing so: before it assigns the global, and after it, to load the       *)
(* policy.  Calls that come meanwhile make another enforcer, or use one    *)
(* that has no policy yet.  A change awaits the adapter, which saves it or *)
(* raises, before the object's model follows.                              *)
(***************************************************************************)
EXTENDS Naturals, FiniteSets

CONSTANTS
  AuthCalls,   \* concurrent calls
  Tokens,      \* decoded tokens: [realm, client], sets of roles
  Internal,    \* Keycloak's own roles (offline_*, uma_*, default-*)
  Rights,      \* <<resource, action>> pairs
  InitialPolicy \* the policy in the database: a set of <<role, right>>

VARIABLES
  stored,    \* the policy in the database
  enforcer,  \* _enforcer: the number of an object, 0 for None
  created,   \* enforcer objects made so far: 1, 2, ..., created
  loaded,    \* loaded[n]: load_policy() of object n has returned
  model,     \* model[n]: the policy that object n enforces
  authCall   \* authCall[c]: see AuthCallType

authVars == <<stored, enforcer, created, loaded, model, authCall>>

Objects == 1..Cardinality(AuthCalls)
Roles == (UNION {k.realm \cup k.client : k \in Tokens}) \ Internal
Policies == Roles \X Rights

ASSUME AuthAssumption ==
  /\ IsFiniteSet(AuthCalls)
  /\ \A k \in Tokens : k.realm \cup k.client # {}
  /\ InitialPolicy \subseteq Policies

AuthCallType ==
  [at : {"idle", "adapter", "loading", "read", "enforce", "saving", "saved", "done", "raised"},
   does : {"authorize", "add", "remove"}, obj : 0..Cardinality(AuthCalls),
   policies : SUBSET Policies,   \* that would allow it, or to add or remove
   rows : SUBSET Policies,       \* what load_policy() has read
   asked : SUBSET Policies,      \* those that enforce() refused so far
   verdict : {"none", "allow", "deny"},
   early : BOOLEAN,              \* history: refused before the policy was loaded
   unsure : BOOLEAN,             \* history: its change raised, met another or a load
   always : SUBSET Policies,     \* history: surely stored all the time of the call
   once : SUBSET Policies]       \* history: maybe stored at some time of the call

Over == {"idle", "done", "raised"}

(* The policies of changes under way, or of which it is not known whether  *)
(* the table and the model agree on them.                                  *)
Flying == UNION {authCall[c].policies :
                   c \in {d \in AuthCalls : \/ authCall[d].at \in {"saving", "saved"}
                                           \/ authCall[d].unsure}}

-----------------------------------------------------------------------------
AuthInit ==
  /\ stored = InitialPolicy
  /\ enforcer = 0 /\ created = 0
  /\ loaded = [n \in Objects |-> FALSE]
  /\ model = [n \in Objects |-> {}]
  /\ authCall = [c \in AuthCalls |->
       [at |-> "idle", does |-> "authorize", obj |-> 0, policies |-> {}, rows |-> {},
        asked |-> {}, verdict |-> "none", early |-> FALSE, unsure |-> FALSE,
        always |-> {}, once |-> {}]]

(* extract_roles_from_token                                                *)
RolesOf(token) == (token.realm \cup token.client) \ Internal

(* A call enters get_enforcer(): the object that exists is used as it is.  *)
Enter(c, does, policies) ==
  /\ authCall[c].at = "idle"
  /\ authCall' = [authCall EXCEPT ![c] =
       [@ EXCEPT !.at = IF enforcer = 0 THEN "adapter" ELSE "enforce",
                 !.obj = enforcer, !.does = does, !.policies = policies,
                 !.always = stored \ Flying, !.once = stored \cup Flying]]
  /\ UNCHANGED <<stored, enforcer, created, loaded, model>>

(* authorize(): any role of the user that has the right will do.           *)
Authorize(c, token, right) == Enter(c, "authorize", RolesOf(token) \X {right})
AddPolicy(c, p) == Enter(c, "add", {p})
RemovePolicy(c, p) == Enter(c, "remove", {p})

(* Adapter.create() returns: the object is made and assigned, empty.       *)
MakeEnforcer(c) ==
  /\ authCall[c].at = "adapter"
  /\ created' = created + 1
  /\ enforcer' = created + 1
  /\ authCall' = [authCall EXCEPT ![c].at = "loading", ![c].obj = created + 1]
  /\ UNCHANGED <<stored, loaded, model>>

(* load_policy() reads the table into a new model, and when that is over   *)
(* the object takes it, whatever was done to the one it had meanwhile.     *)
ReadPolicy(c) ==
  /\ authCall[c].at = "loading"
  /\ authCall' = [authCall EXCEPT ![c].at = "read", ![c].rows = stored]
  /\ UNCHANGED <<stored, enforcer, created, loaded, model>>

PolicyLoaded(c) ==
  LET n == authCall[c].obj IN
  /\ authCall[c].at = "read"
  /\ model' = [model EXCEPT ![n] = authCall[c].rows]
  /\ loaded' = [loaded EXCEPT ![n] = TRUE]
  /\ authCall' = [authCall EXCEPT ![c].at = "enforce"]
  /\ UNCHANGED <<stored, enforcer, created>>

(* The database fails while the adapter is made or the policy is loaded;   *)
(* an object that is assigned stays so.                                    *)
InitRaises(c) ==
  /\ authCall[c].at \in {"adapter", "loading", "read"}
  /\ authCall' = [authCall EXCEPT ![c].at = "raised"]
  /\ UNCHANGED <<stored, enforcer, created, loaded, model>>

-----------------------------------------------------------------------------
(* Mutant: a right that any role has is granted.                           *)
EnforcesAny(n, p) == \E q \in model[n] : p[2] = q[2]

(* enforce(role, ...)                                                      *)
Enforces(n, p) == p \in model[n]

(* for role in roles: await enforce(role, ...), in any order: the roles    *)
(* come out of a set.                                                      *)
AskRole(c) ==
  LET call == authCall[c] IN
  /\ call.at = "enforce" /\ call.does = "authorize"
  /\ \E p \in call.policies \ call.asked :
       authCall' = [authCall EXCEPT ![c] =
         IF Enforces(call.obj, p) THEN [call EXCEPT !.at = "done", !.verdict = "allow"]
         ELSE [call EXCEPT !.asked = @ \cup {p}, !.early = @ \/ ~loaded[call.obj]]]
  /\ UNCHANGED <<stored, enforcer, created, loaded, model>>

NoRoleLeft(c) ==
  /\ authCall[c].at = "enforce" /\ authCall[c].does = "authorize"
  /\ authCall[c].asked = authCall[c].policies
  /\ authCall' = [authCall EXCEPT ![c].at = "done", ![c].verdict = "deny"]
  /\ UNCHANGED <<stored, enforcer, created, loaded, model>>

-----------------------------------------------------------------------------
Changed(call, policy) ==
  IF call.does = "add" THEN policy \cup call.policies ELSE policy \ call.policies

(* What a call that is going on may find changes with `policies`.          *)
Noted(call, policies) ==
  IF call.at \in Over THEN call
  ELSE [call EXCEPT !.always = @ \ policies, !.once = @ \cup policies]

(* add_policy, remove_policy: nothing to do if the model has it, or has it *)
(* not; else the adapter is awaited.                                       *)
ChangeIsNone(c) ==
  LET call == authCall[c] IN
  /\ call.at = "enforce" /\ call.does # "authorize"
  /\ Changed(call, model[call.obj]) = model[call.obj]
  /\ authCall' = [authCall EXCEPT ![c].at = "done"]
  /\ UNCHANGED <<stored, enforcer, created, loaded, model>>

RequestChange(c) ==
  LET call == authCall[c]
      Meets(d) == /\ d # c /\ authCall[d].at \in {"saving", "saved"}
                  /\ authCall[d].policies \cap call.policies # {}
  IN /\ call.at = "enforce" /\ call.does # "authorize"
     /\ Changed(call, model[call.obj]) # model[call.obj]
     /\ authCall' = [d \in AuthCalls |->
          IF d = c
          THEN [Noted(call, call.policies) EXCEPT
                  !.at = "saving", !.unsure = ~loaded[call.obj] \/ \E e \in AuthCalls : Meets(e)]
          ELSE [Noted(authCall[d], call.policies) EXCEPT !.unsure = @ \/ Meets(d)]]
     /\ UNCHANGED <<stored, enforcer, created, loaded, model>>

(* The adapter's transaction is committed.                                 *)
PolicySaved(c) ==
  /\ authCall[c].at = "saving"
  /\ stored' = Changed(authCall[c], stored)
  /\ authCall' = [authCall EXCEPT ![c].at = "saved"]
  /\ UNCHANGED <<enforcer, created, loaded, model>>

(* The adapter returns, and the object's model follows; other objects do   *)
(* not learn of it.                                                        *)
ModelFollows(c) ==
  LET n == authCall[c].obj IN
  /\ authCall[c].at = "saved"
  /\ model' = [model EXCEPT ![n] = Changed(authCall[c], @)]
  /\ authCall' = [authCall EXCEPT ![c].at = "done"]
  /\ UNCHANGED <<stored, enforcer, created, loaded>>

(* The adapter raises, before it has committed or after: the object's      *)
(* model does not follow.                                                  *)
SaveRaises(c) ==
  /\ authCall[c].at \in {"saving", "saved"}
  /\ authCall' = [authCall EXCEPT ![c].at = "raised", ![c].unsure = TRUE]
  /\ UNCHANGED <<stored, enforcer, created, loaded, model>>

CallStep(c) ==
  \/ MakeEnforcer(c) \/ ReadPolicy(c) \/ PolicyLoaded(c) \/ InitRaises(c)
  \/ AskRole(c) \/ NoRoleLeft(c)
  \/ ChangeIsNone(c) \/ RequestChange(c) \/ PolicySaved(c) \/ ModelFollows(c) \/ SaveRaises(c)

AuthNext ==
  \E c \in AuthCalls :
    \/ \E k \in Tokens, r \in Rights : Authorize(c, k, r)
    \/ \E p \in Policies : AddPolicy(c, p) \/ RemovePolicy(c, p)
    \/ CallStep(c)

AuthSpec == AuthInit /\ [][AuthNext]_authVars

-----------------------------------------------------------------------------
(* The variables keep their types.                                         *)
AuthTypeOK ==
  /\ stored \subseteq Policies
  /\ enforcer \in 0..created /\ created \in 0..Cardinality(AuthCalls)
  /\ \A n \in Objects : model[n] \subseteq Policies
  /\ \A c \in AuthCalls : authCall[c] \in AuthCallType

(* If the first calls did not overlap (one enforcer was ever made), every  *)
(* decision is one that the stored policy gave at some time of the call:   *)
(* who is allowed had the right at some time of it, or a change of it was  *)
(* under way; who is denied asked before the policy was loaded, or had not *)
(* the right for sure all the time.  A loaded enforcer enforces what is    *)
(* stored.  Both leave out the policies on which a change raised, met      *)
(* another change of the same policy, or met the load: there the table and *)
(* the model may part for good.                                            *)
DecisionsBacked ==
  /\ \A c \in AuthCalls :
       LET call == authCall[c] IN
       created = 1 =>
         /\ call.verdict = "allow" => call.policies \cap call.once # {}
         /\ call.verdict = "deny" /\ ~call.early => call.policies \cap call.always = {}
  /\ \A n \in Objects : loaded[n] /\ created = 1 =>
       \A p \in Policies \ Flying : p \in model[n] <=> p \in stored

(* Both, as the runs check them.                                           *)
AccessSound == AuthTypeOK /\ DecisionsBacked
=============================================================================
