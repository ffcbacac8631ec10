---------------------------- MODULE AuthLifecycle ----------------------------
(***************************************************************************)
(* OAuth credentials: pairing, authorization, refresh rotation, revocation *)
(* and owner reset.                                                        *)
(*                                                                         *)
(* OAuthSpike (packages/auth/src/oauth-spike.js) keeps transactions, codes *)
(* and access tokens in the memory of the MCP process; AuthStore           *)
(* (auth-store.js) keeps the owner, clients, grants, token families and    *)
(* refresh tokens in auth.sqlite.  Handlers of the MCP process are         *)
(* synchronous, so one runs at a time, but the owner's auth-admin and      *)
(* auth-bootstrap commands are processes of their own and may commit       *)
(* between two SQL statements of a handler: actions are the code between   *)
(* two such points.  An authorization names the transaction, and the code, *)
(* the grant and the token family that come of it.  Expiry times are       *)
(* absolute; 0 stands for no entry.                                        *)
(***************************************************************************)
EXTENDS Naturals, FiniteSets

CONSTANTS
    Auths,           \* authorizations
    Clients,         \* OAuth clients
    NoClient,        \* no client
    MaxPending,      \* maxPendingTransactions
    TransactionTtl, CodeTtl, AccessTtl, RefreshTtl, GrantTtl, BootstrapTtl,
    MaxGeneration,   \* bound: refresh generations of a family
    MaxClock,        \* bound: the clock
    MaxResets,       \* bound: owner resets
    MaxCrashes       \* bound: restarts of the MCP process

ASSUME SetsAssumption == IsFiniteSet(Auths) /\ NoClient \notin Clients
ASSUME PendingAssumption == MaxPending \in Nat \ {0}
ASSUME TtlAssumption ==
    {TransactionTtl, CodeTtl, AccessTtl, RefreshTtl, GrantTtl, BootstrapTtl} \subseteq Nat \ {0}
ASSUME BoundAssumption == {MaxGeneration, MaxClock, MaxResets, MaxCrashes} \subseteq Nat

VARIABLES
    clock,
    mcp,            \* the synchronous handler in progress: <<"idle">> or <<step, argument>>
    stage, who,     \* beginAuthorization's progress and client, by authorization
    transactions,   \* expiry of the pending transaction, by authorization
    codes,          \* expiry of the unused code
    access,         \* expiry of the access token, by authorization and generation
    owner, bootstrapUntil,
    client,         \* status of each client
    grant, grantUntil,
    family, familyUntil, generation,
    refresh,        \* status of the refresh token, by authorization and generation
    condemned,      \* history: authorizations revoked, reset or found reused
    straddles,      \* history: the resets that committed inside a handler
    resets, crashes

begins   == <<stage, who>>
memory   == <<transactions, codes, access>>
owners   == <<owner, bootstrapUntil>>
grants   == <<grant, grantUntil>>
families == <<family, familyUntil, generation, refresh>>
database == <<owners, client, grants, families>>
history  == <<condemned, straddles>>
bounds   == <<resets, crashes>>
vars     == <<clock, mcp, begins, memory, database, history, bounds>>

Generations == 0..MaxGeneration
Idle        == <<"idle">>
Handlers    == {Idle} \cup ({"persist", "approve", "exchange", "issue"} \X Auths)
                      \cup ({"register"} \X Clients)

GrantStatuses  == {"NONE", "ACTIVE", "EXPIRED", "REVOKED"}
FamilyStatuses == {"NONE", "ACTIVE", "EXPIRED", "REVOKED", "COMPROMISED", "RESET"}
TokenStatuses  == {"NONE", "ACTIVE", "CONSUMED", "REVOKED"}

Earlier(m, n) == IF m <= n THEN m ELSE n

Init ==
    /\ clock = 0
    /\ mcp = Idle
    /\ stage = [a \in Auths |-> "new"]
    /\ who = [a \in Auths |-> NoClient]
    /\ transactions = [a \in Auths |-> 0]
    /\ codes = [a \in Auths |-> 0]
    /\ access = [a \in Auths |-> [g \in Generations |-> 0]]
    /\ owner = "NONE" /\ bootstrapUntil = 0
    /\ client = [c \in Clients |-> "NONE"]
    /\ grant = [a \in Auths |-> "NONE"]
    /\ grantUntil = [a \in Auths |-> 0]
    /\ family = [a \in Auths |-> "NONE"]
    /\ familyUntil = [a \in Auths |-> 0]
    /\ generation = [a \in Auths |-> 0]
    /\ refresh = [a \in Auths |-> [g \in Generations |-> "NONE"]]
    /\ condemned = {} /\ straddles = 0
    /\ resets = 0 /\ crashes = 0

-----------------------------------------------------------------------------
(***************************************************************************)
(* What the store answers and does.                                        *)
(***************************************************************************)

\* cleanup(): the expired entries of a map are dropped.
Fresh(until) == IF until <= clock THEN 0 ELSE until
Cleaned      == [a \in Auths |-> Fresh(transactions[a])]
CleanedCodes == [a \in Auths |-> Fresh(codes[a])]
CleanedAccess == [a \in Auths |-> [g \in Generations |-> Fresh(access[a][g])]]
Cleanup == /\ transactions' = Cleaned
           /\ codes' = CleanedCodes
           /\ access' = CleanedAccess

\* getGrant and getTokenFamily: an ACTIVE row past its time reads as EXPIRED and
\* is written back so.
GrantNow(a)  == IF grant[a] = "ACTIVE" /\ grantUntil[a] <= clock THEN "EXPIRED" ELSE grant[a]
FamilyNow(a) == IF family[a] = "ACTIVE" /\ familyUntil[a] <= clock THEN "EXPIRED" ELSE family[a]

Revoked(tokens) == [g \in Generations |-> IF tokens[g] = "ACTIVE" THEN "REVOKED" ELSE tokens[g]]

\* The family a leaves "from" for status, and its ACTIVE refresh tokens are
\* revoked in the same transaction.
EndFamily(a, from, status) ==
    /\ family' = [family EXCEPT ![a] = IF @ \in from THEN status ELSE @]
    /\ refresh' = [refresh EXCEPT ![a] = Revoked(@)]
    /\ UNCHANGED <<familyUntil, generation>>

\* What authenticate() answers for the access token of generation g.
Authenticates(a, g) ==
    /\ access[a][g] > clock
    /\ GrantNow(a) = "ACTIVE"
    /\ FamilyNow(a) = "ACTIVE"

\* rotateRefreshToken's conditions.
FamilyUsable(a) == GrantNow(a) = "ACTIVE" /\ FamilyNow(a) = "ACTIVE"
Refreshable(a, g) == FamilyUsable(a) /\ refresh[a][g] = "ACTIVE" /\ g = generation[a]

-----------------------------------------------------------------------------
(***************************************************************************)
(* Owner bootstrap (auth-bootstrap).                                       *)
(***************************************************************************)
CreateOwnerBootstrap ==
    /\ owner = "NONE"
    /\ owner' = "PENDING"
    /\ bootstrapUntil' = clock + BootstrapTtl
    /\ UNCHANGED <<clock, mcp, begins, memory, client, grants, families, history, bounds>>

ConsumeOwnerBootstrap ==
    /\ owner = "PENDING" /\ bootstrapUntil > clock
    /\ owner' = "READY"
    /\ UNCHANGED <<clock, mcp, begins, memory, bootstrapUntil, client, grants, families,
                   history, bounds>>

-----------------------------------------------------------------------------
(***************************************************************************)
(* Client registration and beginAuthorization.                             *)
(***************************************************************************)

\* registerClient reads the owner ...
Register(c) ==
    /\ mcp = Idle
    /\ owner = "READY"
    /\ mcp' = <<"register", c>>
    /\ UNCHANGED <<clock, begins, memory, database, history, bounds>>

\* ... and then inserts the client, or makes a DISABLED one ACTIVE again.
RegisterWrite(c) ==
    /\ mcp = <<"register", c>>
    /\ mcp' = Idle
    /\ client' = [client EXCEPT ![c] = "ACTIVE"]
    /\ UNCHANGED <<clock, begins, memory, owners, grants, families, history, bounds>>

\* The client's metadata is fetched; other handlers run meanwhile.
BeginValidate(a, c) ==
    /\ mcp = Idle
    /\ stage[a] = "new"
    /\ stage' = [stage EXCEPT ![a] = "validating"]
    /\ who' = [who EXCEPT ![a] = c]
    /\ Cleanup
    /\ UNCHANGED <<clock, mcp, database, history, bounds>>

\* The client is not valid, or the owner is not bootstrapped.
BeginRefused(a) ==
    /\ mcp = Idle
    /\ stage[a] = "validating"
    /\ stage' = [stage EXCEPT ![a] = "begun"]
    /\ UNCHANGED <<clock, mcp, who, memory, database, history, bounds>>

Pending == Cardinality({a \in Auths : transactions[a] # 0})

BeginPersist(a) ==
    /\ mcp = Idle
    /\ stage[a] = "validating"
    /\ owner = "READY"
    /\ mcp' = <<"persist", a>>
    /\ UNCHANGED <<clock, begins, memory, database, history, bounds>>

\* The client is persisted; then the scope and the number of pending
\* transactions are checked.
BeginRecord(a) ==
    /\ mcp = <<"persist", a>>
    /\ mcp' = Idle
    /\ stage' = [stage EXCEPT ![a] = "begun"]
    /\ client' = [client EXCEPT ![who[a]] = "ACTIVE"]
    /\ \/ /\ Pending < MaxPending
          /\ transactions' = [transactions EXCEPT ![a] = clock + TransactionTtl]
       \/ UNCHANGED transactions
    /\ UNCHANGED <<clock, who, codes, access, owners, grants, families, history, bounds>>

-----------------------------------------------------------------------------
(***************************************************************************)
(* approve.                                                                *)
(***************************************************************************)

\* The transaction is spent; then the owner's secret and the client's status
\* are checked.
Approve(a) ==
    /\ mcp = Idle
    /\ transactions[a] > clock
    /\ transactions' = [Cleaned EXCEPT ![a] = 0]
    /\ codes' = CleanedCodes
    /\ access' = CleanedAccess
    /\ \/ mcp' = Idle
       \/ client[who[a]] = "ACTIVE" /\ mcp' = <<"approve", a>>
    /\ UNCHANGED <<clock, begins, database, history, bounds>>

\* The grant is inserted and a code handed out.
ApproveWrite(a) ==
    /\ mcp = <<"approve", a>>
    /\ mcp' = Idle
    /\ grant' = [grant EXCEPT ![a] = "ACTIVE"]
    /\ grantUntil' = [grantUntil EXCEPT ![a] = clock + GrantTtl]
    /\ codes' = [codes EXCEPT ![a] = clock + CodeTtl]
    /\ UNCHANGED <<clock, begins, transactions, access, owners, client, families, history, bounds>>

-----------------------------------------------------------------------------
(***************************************************************************)
(* exchange: authorization_code.                                           *)
(***************************************************************************)

\* Mutant: the code is not deleted.
ExchangeKeepsCode(a) ==
    /\ mcp = Idle
    /\ codes[a] > clock
    /\ mcp' = <<"exchange", a>>
    /\ GrantNow(a) = "ACTIVE"
    /\ UNCHANGED <<clock, begins, memory, database, history, bounds>>

\* The code is spent; then its binding and its grant are checked.
Exchange(a) ==
    /\ mcp = Idle
    /\ codes[a] > clock
    /\ transactions' = Cleaned
    /\ codes' = [CleanedCodes EXCEPT ![a] = 0]
    /\ access' = CleanedAccess
    /\ \/ mcp' = Idle /\ UNCHANGED grant
       \/ /\ grant' = [grant EXCEPT ![a] = GrantNow(a)]
          /\ mcp' = IF GrantNow(a) = "ACTIVE" THEN <<"exchange", a>> ELSE Idle
    /\ UNCHANGED <<clock, begins, owners, client, grantUntil, families, history, bounds>>

\* Mutant: the grant's expiry does not bound the access token.
AccessUntilUnbounded(a) == clock + AccessTtl

\* issueAccessToken's expiry.
AccessUntil(a) == Earlier(clock + AccessTtl, grantUntil[a])

\* createTokenFamily's transaction, and the access token.
ExchangeWrite(a) ==
    /\ mcp = <<"exchange", a>>
    /\ mcp' = Idle
    /\ family' = [family EXCEPT ![a] = "ACTIVE"]
    /\ familyUntil' = [familyUntil EXCEPT ![a] = Earlier(clock + RefreshTtl, grantUntil[a])]
    /\ generation' = [generation EXCEPT ![a] = 0]
    /\ refresh' = [refresh EXCEPT ![a][0] = "ACTIVE"]
    /\ access' = [access EXCEPT ![a][0] = AccessUntil(a)]
    /\ UNCHANGED <<clock, begins, transactions, codes, owners, client, grants, history, bounds>>

-----------------------------------------------------------------------------
(***************************************************************************)
(* exchange: refresh_token.  A client may present any token it was ever    *)
(* given, such as one whose answer was lost.                               *)
(***************************************************************************)
RefreshInactive(a, g) ==
    /\ mcp = Idle
    /\ refresh[a][g] # "NONE" /\ ~FamilyUsable(a)
    /\ Cleanup
    /\ IF FamilyNow(a) # family[a]
         THEN EndFamily(a, {"ACTIVE"}, "EXPIRED")
         ELSE UNCHANGED families
    /\ UNCHANGED <<clock, mcp, begins, owners, client, grants, history, bounds>>

\* Mutant: the family is marked, its current refresh token is not revoked.
RefreshReuseKeepsToken(a, g) ==
    /\ mcp = Idle
    /\ refresh[a][g] # "NONE" /\ FamilyUsable(a) /\ ~Refreshable(a, g)
    /\ Cleanup
    /\ family' = [family EXCEPT ![a] = "COMPROMISED"]
    /\ condemned' = condemned \cup {a}
    /\ UNCHANGED <<clock, mcp, begins, owners, client, grants, familyUntil, generation, refresh,
                   straddles, bounds>>

\* A token that was consumed, or is not of the current generation.
RefreshReuse(a, g) ==
    /\ mcp = Idle
    /\ refresh[a][g] # "NONE" /\ FamilyUsable(a) /\ ~Refreshable(a, g)
    /\ Cleanup
    /\ EndFamily(a, {"ACTIVE"}, "COMPROMISED")
    /\ condemned' = condemned \cup {a}
    /\ UNCHANGED <<clock, mcp, begins, owners, client, grants, straddles, bounds>>

RefreshRotate(a, g) ==
    /\ mcp = Idle
    /\ Refreshable(a, g)
    /\ g < MaxGeneration
    /\ Cleanup
    /\ refresh' = [refresh EXCEPT ![a] = [@ EXCEPT ![g] = "CONSUMED", ![g + 1] = "ACTIVE"]]
    /\ generation' = [generation EXCEPT ![a] = g + 1]
    /\ mcp' = <<"issue", a>>
    /\ UNCHANGED <<clock, begins, owners, client, grants, family, familyUntil, history, bounds>>

\* After the commit the family, the grant and the requested scope are checked;
\* a refusal here leaves the rotation committed and the new token unsent.
RefreshIssue(a) ==
    /\ mcp = <<"issue", a>>
    /\ mcp' = Idle
    /\ \/ /\ family[a] = "ACTIVE" /\ grant[a] = "ACTIVE"
          /\ access' = [access EXCEPT ![a][generation[a]] = AccessUntil(a)]
       \/ UNCHANGED access
    /\ UNCHANGED <<clock, begins, transactions, codes, database, history, bounds>>

-----------------------------------------------------------------------------
(***************************************************************************)
(* revoke, authenticate.                                                   *)
(***************************************************************************)

\* The access token is forgotten first; the family's revocation may fail.
RevokeAccess(a, g) ==
    /\ mcp = Idle
    /\ access[a][g] > clock
    /\ transactions' = Cleaned
    /\ codes' = CleanedCodes
    /\ access' = [CleanedAccess EXCEPT ![a][g] = 0]
    /\ \/ /\ EndFamily(a, {"ACTIVE"}, "REVOKED")
          /\ condemned' = condemned \cup {a}
       \/ UNCHANGED <<families, condemned>>
    /\ UNCHANGED <<clock, mcp, begins, owners, client, grants, straddles, bounds>>

RevokeRefresh(a, g) ==
    /\ mcp = Idle
    /\ refresh[a][g] # "NONE"
    /\ Cleanup
    /\ EndFamily(a, {"ACTIVE"}, "REVOKED")
    /\ condemned' = condemned \cup {a}
    /\ UNCHANGED <<clock, mcp, begins, owners, client, grants, straddles, bounds>>

\* authenticate() expires the grant and, if the grant is still ACTIVE, the
\* family it reads.
Authenticate(a, g) ==
    /\ mcp = Idle
    /\ access[a][g] > clock
    /\ Cleanup
    /\ grant' = [grant EXCEPT ![a] = GrantNow(a)]
    /\ IF GrantNow(a) = "ACTIVE" /\ FamilyNow(a) # family[a]
         THEN EndFamily(a, {"ACTIVE"}, "EXPIRED")
         ELSE UNCHANGED families
    /\ UNCHANGED <<clock, mcp, begins, owners, client, grantUntil, history, bounds>>

\* Any request that is refused before it reaches the store.
Refuse ==
    /\ mcp = Idle
    /\ Cleanup
    /\ UNCHANGED <<clock, mcp, begins, database, history, bounds>>

\* A statement of the handler in progress fails (the database is busy with
\* the owner's command, or full): nothing is written.
StorageFails ==
    /\ mcp # Idle /\ mcp[1] # "issue"
    /\ mcp' = Idle
    /\ stage' = [a \in Auths |-> IF mcp = <<"persist", a>> THEN "begun" ELSE stage[a]]
    /\ UNCHANGED <<clock, who, memory, database, history, bounds>>

-----------------------------------------------------------------------------
(***************************************************************************)
(* The owner's commands, at any point of a handler.                        *)
(***************************************************************************)

\* The transaction shared by revokeOwnerAccess and resetOwnerAccess, and by
\* revokeGrant for one grant.
RevokeGrants(A, status) ==
    /\ grant' = [a \in Auths |-> IF a \in A /\ grant[a] = "ACTIVE" THEN "REVOKED" ELSE grant[a]]
    /\ family' = [a \in Auths |-> IF a \in A /\ family[a] \in {"ACTIVE", "COMPROMISED"}
                                    THEN status ELSE family[a]]
    /\ refresh' = [a \in Auths |-> IF a \in A THEN Revoked(refresh[a]) ELSE refresh[a]]
    /\ condemned' = condemned \cup {a \in A : grant[a] # "NONE"}
    /\ UNCHANGED <<grantUntil, familyUntil, generation>>

RevokeGrant(a) ==
    /\ grant[a] # "NONE"
    /\ RevokeGrants({a}, "REVOKED")
    /\ UNCHANGED <<clock, mcp, begins, memory, owners, client, straddles, bounds>>

\* Mutant: the families are revoked, the grants are not.
RevokeOwnerAccessKeepsGrants ==
    /\ owner # "NONE"
    /\ family' = [a \in Auths |-> IF family[a] \in {"ACTIVE", "COMPROMISED"}
                                    THEN "REVOKED" ELSE family[a]]
    /\ refresh' = [a \in Auths |-> Revoked(refresh[a])]
    /\ condemned' = condemned \cup {a \in Auths : grant[a] # "NONE"}
    /\ UNCHANGED <<clock, mcp, begins, memory, owners, client, grants, familyUntil, generation,
                   straddles, bounds>>

RevokeOwnerAccess ==
    /\ owner # "NONE"
    /\ RevokeGrants(Auths, "REVOKED")
    /\ UNCHANGED <<clock, mcp, begins, memory, owners, client, straddles, bounds>>

\* Mutant: the clients stay ACTIVE.
ResetKeepsClients ==
    /\ owner # "NONE"
    /\ resets < MaxResets /\ resets' = resets + 1
    /\ RevokeGrants(Auths, "RESET")
    /\ owner' = "PENDING"
    /\ bootstrapUntil' = clock + BootstrapTtl
    /\ straddles' = straddles + (IF mcp = Idle THEN 0 ELSE 1)
    /\ UNCHANGED <<clock, mcp, begins, memory, client, crashes>>

\* The clients are disabled and the bootstrap is opened again, with a new
\* secret and expiry.
ResetOwnerAccess ==
    /\ owner # "NONE"
    /\ resets < MaxResets /\ resets' = resets + 1
    /\ RevokeGrants(Auths, "RESET")
    /\ client' = [c \in Clients |-> IF client[c] = "NONE" THEN "NONE" ELSE "DISABLED"]
    /\ owner' = "PENDING"
    /\ bootstrapUntil' = clock + BootstrapTtl
    /\ straddles' = straddles + (IF mcp = Idle THEN 0 ELSE 1)
    /\ UNCHANGED <<clock, mcp, begins, memory, crashes>>

-----------------------------------------------------------------------------
\* A handler takes no time that counts against an expiry.
Tick ==
    /\ mcp = Idle
    /\ clock < MaxClock
    /\ clock' = clock + 1
    /\ UNCHANGED <<mcp, begins, memory, database, history, bounds>>

\* The maps of the MCP process and the handler in progress are lost.
Crash ==
    /\ crashes < MaxCrashes /\ crashes' = crashes + 1
    /\ mcp' = Idle
    /\ stage' = [a \in Auths |-> IF stage[a] = "new" THEN "new" ELSE "begun"]
    /\ transactions' = [a \in Auths |-> 0]
    /\ codes' = [a \in Auths |-> 0]
    /\ access' = [a \in Auths |-> [g \in Generations |-> 0]]
    /\ UNCHANGED <<clock, who, database, history, resets>>

Authorize(a) ==
    \/ \E c \in Clients : BeginValidate(a, c)
    \/ BeginRefused(a) \/ BeginPersist(a) \/ BeginRecord(a)
    \/ Approve(a) \/ ApproveWrite(a)
    \/ Exchange(a) \/ ExchangeWrite(a)

UseToken(a, g) ==
    \/ RefreshInactive(a, g) \/ RefreshReuse(a, g) \/ RefreshRotate(a, g)
    \/ RevokeAccess(a, g) \/ RevokeRefresh(a, g) \/ Authenticate(a, g)

Next ==
    \/ CreateOwnerBootstrap \/ ConsumeOwnerBootstrap
    \/ \E c \in Clients : Register(c) \/ RegisterWrite(c)
    \/ \E a \in Auths : Authorize(a) \/ RefreshIssue(a) \/ RevokeGrant(a)
    \/ \E a \in Auths, g \in Generations : UseToken(a, g)
    \/ Refuse \/ StorageFails
    \/ RevokeOwnerAccess \/ ResetOwnerAccess
    \/ Tick \/ Crash

Spec == Init /\ [][Next]_vars

-----------------------------------------------------------------------------
(***************************************************************************)
(* Properties.                                                             *)
(***************************************************************************)

\* Type invariant of the credential state.
TypeOK ==
    /\ clock \in Nat
    /\ mcp \in Handlers
    /\ stage \in [Auths -> {"new", "validating", "begun"}]
    /\ who \in [Auths -> Clients \cup {NoClient}]
    /\ transactions \in [Auths -> Nat]
    /\ codes \in [Auths -> Nat]
    /\ access \in [Auths -> [Generations -> Nat]]
    /\ owner \in {"NONE", "PENDING", "READY"}
    /\ bootstrapUntil \in Nat
    /\ client \in [Clients -> {"NONE", "ACTIVE", "DISABLED"}]
    /\ grant \in [Auths -> GrantStatuses]
    /\ grantUntil \in [Auths -> Nat]
    /\ family \in [Auths -> FamilyStatuses]
    /\ familyUntil \in [Auths -> Nat]
    /\ generation \in [Auths -> Generations]
    /\ refresh \in [Auths -> [Generations -> TokenStatuses]]
    /\ condemned \subseteq Auths
    /\ straddles \in Nat
    /\ resets \in Nat
    /\ crashes \in Nat

\* Rotation never creates a second valid branch: of an ACTIVE family exactly
\* the token of the current generation is ACTIVE, of any other family none.
OneValidBranch ==
    \A a \in Auths, g \in Generations :
        refresh[a][g] = "ACTIVE" <=> family[a] = "ACTIVE" /\ g = generation[a]

\* What was revoked, reset or found reused stays out: no access token of it
\* authenticates and no refresh token of it rotates, even if a handler was
\* between its check of the grant and its insert when the owner's command
\* committed.
CondemnedStaysOut ==
    \A a \in condemned, g \in Generations : ~Authenticates(a, g) /\ ~Refreshable(a, g)

\* What a step may do to the credentials of an authorization that have ended.
KeepsEnded(a) ==
    /\ family[a] \notin {"NONE", "ACTIVE"} => family'[a] \notin {"NONE", "ACTIVE"}
    /\ family[a] = "ACTIVE" => generation'[a] \in {generation[a], generation[a] + 1}
    /\ \A g \in Generations :
          refresh[a][g] \in {"CONSUMED", "REVOKED"} => refresh'[a][g] = refresh[a][g]

\* Credentials are never reactivated: a token family leaves ACTIVE for good, a
\* code yields one family, and a refresh token is consumed or revoked once.
NeverReactivated == [][\A a \in Auths : KeepsEnded(a)]_vars

\* No family and no access token outlives its grant.
NothingOutlivesGrant ==
    \A a \in Auths : /\ familyUntil[a] <= grantUntil[a]
                     /\ \A g \in Generations : access[a][g] <= grantUntil[a]

\* A reset that no handler straddles is complete: until the owner bootstraps
\* again no grant and no token family is ACTIVE, whatever transactions and
\* codes the MCP process still holds.
QuietResetIsComplete ==
    straddles = 0 /\ owner # "READY" =>
        \A a \in Auths : grant[a] # "ACTIVE" /\ family[a] # "ACTIVE"

-----------------------------------------------------------------------------
(***************************************************************************)
(* The inductive invariant behind OneValidBranch, CondemnedStaysOut and    *)
(* NeverReactivated.                                                       *)
(***************************************************************************)

\* An authorization moves forward only: transaction, then grant and code, then
\* family; and a handler in progress holds the only claim to its next stage.
MovesForward(a) ==
    /\ mcp = <<"persist", a>> => stage[a] = "validating"
    /\ transactions[a] # 0 \/ mcp = <<"approve", a>> => stage[a] = "begun" /\ grant[a] = "NONE"
    /\ grant[a] # "NONE" => stage[a] = "begun"
    /\ mcp = <<"approve", a>> => transactions[a] = 0
    /\ codes[a] # 0 \/ mcp = <<"exchange", a>> => grant[a] # "NONE" /\ family[a] = "NONE"
    /\ mcp = <<"exchange", a>> => codes[a] = 0
    /\ family[a] # "NONE" => grant[a] # "NONE"

\* Tokens exist only for a family, up to its current generation.
TokensOfFamily(a) ==
    \A g \in Generations :
        /\ access[a][g] # 0 => family[a] # "NONE"
        /\ refresh[a][g] # "NONE" => family[a] # "NONE" /\ g <= generation[a]

\* The grant or the family of a condemned authorization has ended.
CondemnedHasEnded(a) ==
    a \in condemned => grant[a] \notin {"NONE", "ACTIVE"} \/ family[a] \notin {"NONE", "ACTIVE"}

\* OneValidBranch, for one family.
OneBranch(a) ==
    \A g \in Generations :
        refresh[a][g] = "ACTIVE" <=> family[a] = "ACTIVE" /\ g = generation[a]

\* What every step keeps true of an authorization.
Consistent(a) == MovesForward(a) /\ TokensOfFamily(a) /\ CondemnedHasEnded(a) /\ OneBranch(a)

\* The inductive invariant: every authorization is consistent.
IInv == \A a \in Auths : Consistent(a)

=============================================================================
