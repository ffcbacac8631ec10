------------------------- MODULE AuthLifecycleProofs -------------------------
(***************************************************************************)
(* Proofs about AuthLifecycle, for every set of authorizations and         *)
(* clients, every lifetime and every bound.                                *)
(***************************************************************************)
EXTENDS AuthLifecycle, TLAPS

USE DEF Generations, GrantStatuses, FamilyStatuses, TokenStatuses

\* The constants as the provers need them.
LEMMA Constants ==
    /\ MaxGeneration \in Nat
    /\ TransactionTtl \in Nat /\ CodeTtl \in Nat /\ AccessTtl \in Nat
    /\ RefreshTtl \in Nat /\ GrantTtl \in Nat /\ BootstrapTtl \in Nat
    /\ 0 \in Generations
BY TtlAssumption, BoundAssumption

\* The handlers in progress.
LEMMA HandlerTypes ==
    /\ Idle \in Handlers
    /\ \A a \in Auths : \A k \in {"persist", "approve", "exchange", "issue"} : <<k, a>> \in Handlers
    /\ \A c \in Clients : <<"register", c>> \in Handlers
BY DEF Handlers

\* cleanup() keeps the types of the maps, and drops entries or leaves them.
LEMMA CleanedEffect ==
    ASSUME TypeOK
    PROVE  /\ Cleaned \in [Auths -> Nat]
           /\ CleanedCodes \in [Auths -> Nat]
           /\ CleanedAccess \in [Auths -> [Generations -> Nat]]
           /\ \A a \in Auths : Cleaned[a] \in {0, transactions[a]}
           /\ \A a \in Auths : CleanedCodes[a] \in {0, codes[a]}
           /\ \A a \in Auths, g \in Generations : CleanedAccess[a][g] \in {0, access[a][g]}
BY DEF TypeOK, Cleaned, CleanedCodes, CleanedAccess, Fresh

\* EndFamily keeps the types, and takes a family out of "from".
LEMMA EndFamilyEffect ==
    ASSUME TypeOK, NEW a \in Auths, NEW status \in FamilyStatuses, EndFamily(a, {"ACTIVE"}, status)
    PROVE  /\ family' \in [Auths -> FamilyStatuses]
           /\ refresh' \in [Auths -> [Generations -> TokenStatuses]]
           /\ UNCHANGED <<familyUntil, generation>>
           /\ \A b \in Auths : family'[b] = IF b = a /\ family[a] = "ACTIVE" THEN status ELSE family[b]
           /\ \A b \in Auths, g \in Generations :
                 refresh'[b][g] = IF b = a /\ refresh[a][g] = "ACTIVE" THEN "REVOKED" ELSE refresh[b][g]
BY DEF TypeOK, EndFamily, Revoked

\* RevokeGrants keeps the types, and ends what it names.
LEMMA RevokeGrantsEffect ==
    ASSUME TypeOK, NEW A \in SUBSET Auths, NEW status \in FamilyStatuses, RevokeGrants(A, status)
    PROVE  /\ grant' \in [Auths -> GrantStatuses]
           /\ family' \in [Auths -> FamilyStatuses]
           /\ refresh' \in [Auths -> [Generations -> TokenStatuses]]
           /\ condemned' \in SUBSET Auths
           /\ UNCHANGED <<grantUntil, familyUntil, generation>>
           /\ \A a \in Auths :
                 /\ grant'[a] = IF a \in A /\ grant[a] = "ACTIVE" THEN "REVOKED" ELSE grant[a]
                 /\ family'[a] = IF a \in A /\ family[a] \in {"ACTIVE", "COMPROMISED"}
                                   THEN status ELSE family[a]
                 /\ a \in condemned' => a \in condemned \/ (a \in A /\ grant[a] # "NONE")
                 /\ \A g \in Generations :
                       refresh'[a][g] = IF a \in A /\ refresh[a][g] = "ACTIVE"
                                          THEN "REVOKED" ELSE refresh[a][g]
BY DEF TypeOK, RevokeGrants, Revoked

\* The earlier of two expiry times is no later than either (Math.min).
LEMMA EarlierType ==
    ASSUME NEW m \in Nat, NEW n \in Nat
    PROVE  Earlier(m, n) \in Nat /\ Earlier(m, n) <= m /\ Earlier(m, n) <= n
BY DEF Earlier

-----------------------------------------------------------------------------
(***************************************************************************)
(* Type correctness.                                                       *)
(***************************************************************************)

\* Every step keeps the state well typed.
LEMMA TypeStep == ASSUME TypeOK, [Next]_vars PROVE TypeOK'
<1> USE Constants, HandlerTypes DEF begins, memory, owners, grants, families, database, history, bounds
<1>t. /\ clock + TransactionTtl \in Nat /\ clock + CodeTtl \in Nat /\ clock + GrantTtl \in Nat
      /\ clock + BootstrapTtl \in Nat /\ clock + RefreshTtl \in Nat
      /\ \A a \in Auths : Earlier(clock + RefreshTtl, grantUntil[a]) \in Nat
      /\ \A a \in Auths : AccessUntil(a) \in Nat
  <2>1. clock \in Nat /\ grantUntil \in [Auths -> Nat] BY DEF TypeOK
  <2>2. \A n \in Nat : clock + n \in Nat BY <2>1
  <2>3. \A n \in Nat, a \in Auths : Earlier(clock + n, grantUntil[a]) \in Nat
    BY <2>1, <2>2, EarlierType
  <2> QED BY <2>2, <2>3 DEF AccessUntil
<1>0. CASE UNCHANGED vars
  BY <1>0 DEF vars, TypeOK
<1>1. CASE CreateOwnerBootstrap
  BY <1>1, <1>t DEF CreateOwnerBootstrap, TypeOK
<1>2. CASE ConsumeOwnerBootstrap
  BY <1>2 DEF ConsumeOwnerBootstrap, TypeOK
<1>3. ASSUME NEW c \in Clients, Register(c) \/ RegisterWrite(c) PROVE TypeOK'
  BY <1>3 DEF Register, RegisterWrite, TypeOK
<1>4. ASSUME NEW a \in Auths, Authorize(a) PROVE TypeOK'
  <2>1. ASSUME NEW c \in Clients, BeginValidate(a, c) PROVE TypeOK'
    BY <2>1, CleanedEffect DEF BeginValidate, Cleanup, TypeOK
  <2>2. CASE BeginRefused(a) BY <2>2 DEF BeginRefused, TypeOK
  <2>3. CASE BeginPersist(a) BY <2>3 DEF BeginPersist, TypeOK
  <2>4. CASE BeginRecord(a) BY <2>4, <1>t DEF BeginRecord, TypeOK
  <2>5. CASE Approve(a) BY <2>5, CleanedEffect DEF Approve, TypeOK
  <2>6. CASE ApproveWrite(a) BY <2>6, <1>t DEF ApproveWrite, TypeOK
  <2>7. CASE Exchange(a)
    BY <2>7, CleanedEffect DEF Exchange, TypeOK, GrantNow
  <2>8. CASE ExchangeWrite(a)
    BY <2>8, <1>t DEF ExchangeWrite, TypeOK
  <2> QED BY <1>4, <2>1, <2>2, <2>3, <2>4, <2>5, <2>6, <2>7, <2>8 DEF Authorize
<1>5. ASSUME NEW a \in Auths, RefreshIssue(a) PROVE TypeOK'
  <2>1. access \in [Auths -> [Generations -> Nat]] /\ AccessUntil(a) \in Nat BY <1>t DEF TypeOK
  <2>2. [access EXCEPT ![a][generation[a]] = AccessUntil(a)] \in [Auths -> [Generations -> Nat]]
    BY <2>1
  <2>3. access' \in [Auths -> [Generations -> Nat]] BY <1>5, <2>1, <2>2 DEF RefreshIssue
  <2> QED BY <1>5, <2>3 DEF RefreshIssue, TypeOK
<1>6. ASSUME NEW a \in Auths, RevokeGrant(a) PROVE TypeOK'
  <2>1. RevokeGrants({a}, "REVOKED") /\ {a} \in SUBSET Auths BY <1>6 DEF RevokeGrant
  <2>2. /\ grant' \in [Auths -> GrantStatuses] /\ family' \in [Auths -> FamilyStatuses]
        /\ refresh' \in [Auths -> [Generations -> TokenStatuses]]
        /\ condemned' \in SUBSET Auths
        /\ UNCHANGED <<grantUntil, familyUntil, generation>>
    BY <2>1, RevokeGrantsEffect
  <2> QED BY <1>6, <2>2 DEF RevokeGrant, TypeOK
<1>7. ASSUME NEW a \in Auths, NEW g \in Generations, UseToken(a, g) PROVE TypeOK'
  <2>f. ASSUME NEW status \in FamilyStatuses, EndFamily(a, {"ACTIVE"}, status) \/ UNCHANGED families
        PROVE  /\ family' \in [Auths -> FamilyStatuses]
               /\ refresh' \in [Auths -> [Generations -> TokenStatuses]]
               /\ familyUntil' \in [Auths -> Nat] /\ generation' \in [Auths -> Generations]
    BY <2>f, EndFamilyEffect DEF TypeOK
  <2>1. CASE RefreshInactive(a, g)
    BY <2>1, <2>f, CleanedEffect DEF RefreshInactive, Cleanup, TypeOK
  <2>2. CASE RefreshReuse(a, g)
    BY <2>2, <2>f, CleanedEffect DEF RefreshReuse, Cleanup, TypeOK
  <2>3. CASE RefreshRotate(a, g)
    <3>1. g + 1 \in Generations BY <2>3 DEF RefreshRotate
    <3> QED BY <2>3, <3>1, CleanedEffect DEF RefreshRotate, Cleanup, TypeOK
  <2>4. CASE RevokeAccess(a, g)
    <3>1. [CleanedAccess EXCEPT ![a][g] = 0] \in [Auths -> [Generations -> Nat]]
      BY CleanedEffect
    <3>2. condemned' = condemned \/ condemned' = condemned \cup {a} BY <2>4 DEF RevokeAccess
    <3>3. condemned' \in SUBSET Auths BY <3>2 DEF TypeOK
    <3>4. EndFamily(a, {"ACTIVE"}, "REVOKED") \/ UNCHANGED families BY <2>4 DEF RevokeAccess
    <3> QED BY <2>4, <3>1, <3>3, <3>4, <2>f, CleanedEffect DEF RevokeAccess, TypeOK
  <2>5. CASE RevokeRefresh(a, g)
    BY <2>5, <2>f, CleanedEffect DEF RevokeRefresh, Cleanup, TypeOK
  <2>6. CASE Authenticate(a, g)
    <3>1. grant' \in [Auths -> GrantStatuses] BY <2>6 DEF Authenticate, GrantNow, TypeOK
    <3>2. EndFamily(a, {"ACTIVE"}, "EXPIRED") \/ UNCHANGED families BY <2>6 DEF Authenticate
    <3> QED BY <2>6, <3>1, <3>2, <2>f, CleanedEffect DEF Authenticate, Cleanup, TypeOK
  <2> QED BY <1>7, <2>1, <2>2, <2>3, <2>4, <2>5, <2>6 DEF UseToken
<1>8. CASE Refuse
  BY <1>8, CleanedEffect DEF Refuse, Cleanup, TypeOK
<1>9. CASE StorageFails
  BY <1>9 DEF StorageFails, TypeOK
<1>10. CASE RevokeOwnerAccess
  <2>1. RevokeGrants(Auths, "REVOKED") BY <1>10 DEF RevokeOwnerAccess
  <2>2. /\ grant' \in [Auths -> GrantStatuses] /\ family' \in [Auths -> FamilyStatuses]
        /\ refresh' \in [Auths -> [Generations -> TokenStatuses]]
        /\ condemned' \in SUBSET Auths
        /\ UNCHANGED <<grantUntil, familyUntil, generation>>
    BY <2>1, RevokeGrantsEffect
  <2> QED BY <1>10, <2>2 DEF RevokeOwnerAccess, TypeOK
<1>11. CASE ResetOwnerAccess
  <2>1. RevokeGrants(Auths, "RESET") BY <1>11 DEF ResetOwnerAccess
  <2>2. /\ grant' \in [Auths -> GrantStatuses] /\ family' \in [Auths -> FamilyStatuses]
        /\ refresh' \in [Auths -> [Generations -> TokenStatuses]]
        /\ condemned' \in SUBSET Auths
        /\ UNCHANGED <<grantUntil, familyUntil, generation>>
    BY <2>1, RevokeGrantsEffect
  <2>3. client' \in [Clients -> {"NONE", "ACTIVE", "DISABLED"}]
    BY <1>11 DEF ResetOwnerAccess, TypeOK
  <2>4. straddles' \in Nat /\ resets' \in Nat BY <1>11 DEF ResetOwnerAccess, TypeOK
  <2>5. bootstrapUntil' \in Nat BY <1>11, <1>t DEF ResetOwnerAccess
  <2> QED BY <1>11, <2>2, <2>3, <2>4, <2>5 DEF ResetOwnerAccess, TypeOK
<1>12. CASE Tick
  <2>1. clock' \in Nat BY <1>12 DEF Tick, TypeOK
  <2> QED BY <1>12, <2>1 DEF Tick, TypeOK
<1>13. CASE Crash
  BY <1>13 DEF Crash, TypeOK
<1> QED
  BY <1>0, <1>1, <1>2, <1>3, <1>4, <1>5, <1>6, <1>7, <1>8, <1>9, <1>10, <1>11, <1>12, <1>13
  DEF Next

\* Type correctness of the credential state.
THEOREM TypeCorrect == Spec => []TypeOK
<1>1. Init => TypeOK
  BY Constants, HandlerTypes DEF Init, TypeOK
<1> QED BY <1>1, TypeStep, PTL DEF Spec

-----------------------------------------------------------------------------
(***************************************************************************)
(* The inductive invariant.                                                *)
(***************************************************************************)

\* Handlers in progress are told apart by their step and their argument.
LEMMA HandlersDiffer ==
    /\ \A k, x : Idle # <<k, x>>
    /\ \A k, l, x, y : <<k, x>> = <<l, y>> => k = l /\ x = y
BY DEF Idle

\* Every step keeps every authorization consistent.
LEMMA ConsistentStep == ASSUME TypeOK, IInv, [Next]_vars PROVE IInv'
<1> SUFFICES ASSUME NEW b \in Auths PROVE Consistent(b)'
  BY DEF IInv
<1> USE Constants, HandlersDiffer
    DEF begins, memory, owners, grants, families, database, history, bounds
<1>b. Consistent(b) BY DEF IInv
<1>c. /\ Cleaned[b] \in {0, transactions[b]}
      /\ CleanedCodes[b] \in {0, codes[b]}
      /\ \A g \in Generations : CleanedAccess[b][g] \in {0, access[b][g]}
  BY CleanedEffect
<1>m. ASSUME Cleanup, UNCHANGED mcp
      PROVE  /\ transactions'[b] \in {0, transactions[b]}
             /\ codes'[b] \in {0, codes[b]}
             /\ \A g \in Generations : access'[b][g] \in {0, access[b][g]}
  BY <1>c, <1>m DEF Cleanup
<1>n. /\ clock \in Nat
      /\ \A a \in Auths : transactions[a] \in Nat /\ codes[a] \in Nat
      /\ \A a \in Auths, g \in Generations : access[a][g] \in Nat
  BY DEF TypeOK
<1>p. /\ \A a \in Auths : transactions[a] > clock => transactions[a] # 0
      /\ \A a \in Auths : codes[a] > clock => codes[a] # 0
      /\ \A a \in Auths, g \in Generations : access[a][g] > clock => access[a][g] # 0
  BY <1>n
<1>0. CASE UNCHANGED vars
  BY <1>0, <1>b DEF vars, Consistent, MovesForward, TokensOfFamily, CondemnedHasEnded, OneBranch
<1>1. CASE CreateOwnerBootstrap \/ ConsumeOwnerBootstrap
  BY <1>1, <1>b DEF CreateOwnerBootstrap, ConsumeOwnerBootstrap,
     Consistent, MovesForward, TokensOfFamily, CondemnedHasEnded, OneBranch
<1>3. ASSUME NEW c \in Clients, Register(c) \/ RegisterWrite(c) PROVE Consistent(b)'
  BY <1>3, <1>b DEF Register, RegisterWrite,
     Consistent, MovesForward, TokensOfFamily, CondemnedHasEnded, OneBranch
<1>4. ASSUME NEW a \in Auths, Authorize(a) PROVE Consistent(b)'
  <2> USE DEF Consistent, MovesForward, TokensOfFamily, CondemnedHasEnded, OneBranch
  <2>1. ASSUME NEW c \in Clients, BeginValidate(a, c) PROVE Consistent(b)'
    <3>1. stage'[b] \in {stage[b], "validating"} /\ (stage'[b] # stage[b] => stage[b] = "new")
      BY <2>1 DEF BeginValidate, TypeOK
    <3> QED BY <2>1, <3>1, <1>b, <1>m DEF BeginValidate
  <2>2. CASE BeginRefused(a) BY <2>2, <1>b DEF BeginRefused, TypeOK
  <2>3. CASE BeginPersist(a) BY <2>3, <1>b DEF BeginPersist, TypeOK
  <2>4. CASE BeginRecord(a) 
    <3>1. \/ b = a /\ stage'[b] = "begun"
          \/ b # a /\ stage'[b] = stage[b] /\ transactions'[b] = transactions[b]
      BY <2>4 DEF BeginRecord, TypeOK
    <3> QED BY <2>4, <3>1, <1>b DEF BeginRecord
  <2>5. CASE Approve(a) 
    <3>1. /\ transactions[a] # 0
          /\ transactions'[b] = IF b = a THEN 0 ELSE Cleaned[b]
      BY <2>5, <1>p, CleanedEffect DEF Approve
    <3> QED BY <2>5, <3>1, <1>b, <1>c DEF Approve
  <2>6. CASE ApproveWrite(a) 
    <3>1. /\ grant'[b] = IF b = a THEN "ACTIVE" ELSE grant[b]
          /\ b # a => codes'[b] = codes[b]
      BY <2>6 DEF ApproveWrite, TypeOK
    <3> QED BY <2>6, <3>1, <1>b DEF ApproveWrite
  <2>7. CASE Exchange(a)
    <3>1. /\ codes[a] # 0
          /\ codes'[b] = IF b = a THEN 0 ELSE CleanedCodes[b]
      BY <2>7, <1>p, CleanedEffect DEF Exchange
    <3>2. grant'[b] = grant[b] \/ (grant[b] = "ACTIVE" /\ grant'[b] = "EXPIRED")
      BY <2>7 DEF Exchange, GrantNow, TypeOK
    <3> QED BY <2>7, <3>1, <3>2, <1>b, <1>c DEF Exchange
  <2>8. CASE ExchangeWrite(a) 
    <3>1. CASE b = a
      <4>1. /\ family'[b] = "ACTIVE" /\ generation'[b] = 0
            /\ \A g \in Generations : refresh'[b][g] = IF g = 0 THEN "ACTIVE" ELSE refresh[b][g]
        BY <2>8, <3>1 DEF ExchangeWrite, TypeOK
      <4> QED BY <2>8, <3>1, <4>1, <1>b DEF ExchangeWrite
    <3>2. CASE b # a
      <4>1. /\ family'[b] = family[b] /\ generation'[b] = generation[b]
            /\ refresh'[b] = refresh[b] /\ access'[b] = access[b]
        BY <2>8, <3>2 DEF ExchangeWrite, TypeOK
      <4> QED BY <2>8, <3>2, <4>1, <1>b DEF ExchangeWrite
    <3> QED BY <3>1, <3>2
  <2> QED BY <1>4, <2>1, <2>2, <2>3, <2>4, <2>5, <2>6, <2>7, <2>8 DEF Authorize
<1>5. ASSUME NEW a \in Auths, RefreshIssue(a) PROVE Consistent(b)'
  <2>1. \A g \in Generations : access'[b][g] = access[b][g] \/ family[b] = "ACTIVE"
    BY <1>5 DEF RefreshIssue, TypeOK
  <2> QED BY <1>5, <2>1, <1>b DEF RefreshIssue,
     Consistent, MovesForward, TokensOfFamily, CondemnedHasEnded, OneBranch
<1>6. ASSUME NEW A \in SUBSET Auths, NEW status \in {"REVOKED", "RESET"},
             RevokeGrants(A, status), UNCHANGED <<mcp, begins, memory>>
      PROVE  Consistent(b)'
  <2>1. /\ grant'[b] = IF b \in A /\ grant[b] = "ACTIVE" THEN "REVOKED" ELSE grant[b]
        /\ family'[b] = IF b \in A /\ family[b] \in {"ACTIVE", "COMPROMISED"}
                          THEN status ELSE family[b]
        /\ b \in condemned' => b \in condemned \/ (b \in A /\ grant[b] # "NONE")
        /\ \A g \in Generations :
              refresh'[b][g] = IF b \in A /\ refresh[b][g] = "ACTIVE" THEN "REVOKED"
                                ELSE refresh[b][g]
        /\ generation' = generation
    BY <1>6, RevokeGrantsEffect
  <2>2. grant'[b] = "NONE" <=> grant[b] = "NONE" BY <2>1
  <2>3. family'[b] = "NONE" <=> family[b] = "NONE" BY <2>1
  <2>4. MovesForward(b)'
    BY <1>6, <2>2, <2>3, <1>b DEF Consistent, MovesForward
  <2>5. TokensOfFamily(b)'
    BY <1>6, <2>1, <2>3, <1>b DEF Consistent, TokensOfFamily
  <2>6. CondemnedHasEnded(b)'
    BY <2>1, <1>b DEF Consistent, CondemnedHasEnded
  <2>7. OneBranch(b)'
    BY <2>1, <1>b DEF Consistent, OneBranch
  <2> QED BY <2>4, <2>5, <2>6, <2>7 DEF Consistent
<1>7. ASSUME NEW a \in Auths, NEW g \in Generations, UseToken(a, g) PROVE Consistent(b)'
  <2>1. ASSUME NEW status \in {"EXPIRED", "REVOKED", "COMPROMISED"},
               EndFamily(a, {"ACTIVE"}, status), family[a] # "NONE",
               UNCHANGED <<mcp, begins>>,
               grant'[b] = grant[b] \/ (grant[b] = "ACTIVE" /\ grant'[b] = "EXPIRED"),
               condemned' \in {condemned, condemned \cup {a}},
               transactions'[b] \in {0, transactions[b]}, codes'[b] \in {0, codes[b]},
               \A h \in Generations : access'[b][h] \in {0, access[b][h]}
        PROVE  Consistent(b)'
    <3>1. /\ family'[b] = IF b = a /\ family[a] = "ACTIVE" THEN status ELSE family[b]
          /\ generation' = generation
          /\ \A h \in Generations :
                refresh'[b][h] = IF b = a /\ refresh[a][h] = "ACTIVE" THEN "REVOKED"
                                  ELSE refresh[b][h]
      BY <2>1, EndFamilyEffect
    <3>2. family'[b] = "NONE" <=> family[b] = "NONE" BY <3>1, <2>1
    <3>3. MovesForward(b)' BY <2>1, <3>2, <1>b DEF Consistent, MovesForward
    <3>4. TokensOfFamily(b)' BY <2>1, <3>1, <3>2, <1>b DEF Consistent, TokensOfFamily
    <3>5. CondemnedHasEnded(b)' BY <2>1, <3>1, <1>b DEF Consistent, CondemnedHasEnded
    <3>6. OneBranch(b)' BY <2>1, <3>1, <1>b DEF Consistent, OneBranch
    <3> QED BY <3>3, <3>4, <3>5, <3>6 DEF Consistent
  <2>2. ASSUME UNCHANGED <<mcp, begins, families, condemned>>,
               grant'[b] = grant[b] \/ (grant[b] = "ACTIVE" /\ grant'[b] = "EXPIRED"),
               transactions'[b] \in {0, transactions[b]}, codes'[b] \in {0, codes[b]},
               \A h \in Generations : access'[b][h] \in {0, access[b][h]}
        PROVE  Consistent(b)'
    BY <2>2, <1>b
    DEF Consistent, MovesForward, TokensOfFamily, CondemnedHasEnded, OneBranch
  <2>e. refresh[a][g] # "NONE" \/ access[a][g] # 0 => family[a] # "NONE"
    BY DEF IInv, Consistent, TokensOfFamily
  <2>3. CASE RefreshInactive(a, g)
    BY <2>3, <1>m, <2>1, <2>2, <2>e DEF RefreshInactive
  <2>4. CASE RefreshReuse(a, g)
    BY <2>4, <1>m, <2>1, <2>e DEF RefreshReuse
  <2>5. CASE RefreshRotate(a, g)
    <3>1. /\ g + 1 \in Generations /\ generation[a] = g
          /\ family[a] = "ACTIVE"
      BY <2>5 DEF RefreshRotate, Refreshable, FamilyUsable, FamilyNow
    <3>2. /\ mcp' = <<"issue", a>> /\ UNCHANGED <<stage, grant, family, condemned>>
          /\ transactions'[b] \in {0, transactions[b]} /\ codes'[b] \in {0, codes[b]}
          /\ \A h \in Generations : access'[b][h] \in {0, access[b][h]}
      BY <2>5, <1>c DEF RefreshRotate, Cleanup
    <3>3. CASE b = a
      <4>1. /\ generation'[b] = g + 1
            /\ \A h \in Generations :
                  refresh'[b][h] = IF h = g + 1 THEN "ACTIVE"
                                   ELSE IF h = g THEN "CONSUMED" ELSE refresh[b][h]
        BY <2>5, <3>1, <3>3 DEF RefreshRotate, TypeOK
      <4>2. \A h \in Generations : h # g => refresh[b][h] # "ACTIVE"
        BY <1>b, <3>1, <3>3 DEF Consistent, OneBranch
      <4>3. MovesForward(b)' BY <3>2, <1>b DEF Consistent, MovesForward
      <4>4. TokensOfFamily(b)' BY <3>1, <3>2, <3>3, <4>1, <1>b DEF Consistent, TokensOfFamily
      <4>5. CondemnedHasEnded(b)' BY <3>2, <1>b DEF Consistent, CondemnedHasEnded
      <4>6. OneBranch(b)' BY <3>1, <3>2, <3>3, <4>1, <4>2 DEF OneBranch
      <4> QED BY <4>3, <4>4, <4>5, <4>6 DEF Consistent
    <3>4. CASE b # a
      <4>1. generation'[b] = generation[b] /\ refresh'[b] = refresh[b]
        BY <2>5, <3>4 DEF RefreshRotate, TypeOK
      <4> QED BY <3>2, <4>1, <1>b
         DEF Consistent, MovesForward, TokensOfFamily, CondemnedHasEnded, OneBranch
    <3> QED BY <3>3, <3>4
  <2>6. CASE RevokeAccess(a, g)
    <3>1. access[a][g] # 0 BY <2>6, <1>p DEF RevokeAccess
    <3>2. \A h \in Generations : access'[b][h] \in {0, access[b][h]}
      BY <2>6, <1>c, CleanedEffect DEF RevokeAccess
    <3> QED BY <2>6, <3>1, <3>2, <1>c, <2>1, <2>2, <2>e DEF RevokeAccess
  <2>7. CASE RevokeRefresh(a, g)
    BY <2>7, <1>m, <2>1, <2>e DEF RevokeRefresh
  <2>8. CASE Authenticate(a, g)
    <3>1. access[a][g] # 0 BY <2>8, <1>p DEF Authenticate
    <3>2. grant'[b] = grant[b] \/ (grant[b] = "ACTIVE" /\ grant'[b] = "EXPIRED")
      BY <2>8 DEF Authenticate, GrantNow, TypeOK
    <3> QED BY <2>8, <3>1, <3>2, <1>m, <2>1, <2>2, <2>e DEF Authenticate
  <2> QED BY <1>7, <2>3, <2>4, <2>5, <2>6, <2>7, <2>8 DEF UseToken
<1>8. CASE Refuse
  BY <1>8, <1>b, <1>m DEF Refuse,
     Consistent, MovesForward, TokensOfFamily, CondemnedHasEnded, OneBranch
<1>9. CASE StorageFails
  BY <1>9, <1>b DEF StorageFails, TypeOK,
     Consistent, MovesForward, TokensOfFamily, CondemnedHasEnded, OneBranch
<1>10. ASSUME NEW a \in Auths, RevokeGrant(a) PROVE Consistent(b)'
  BY <1>6, <1>10 DEF RevokeGrant
<1>11. CASE RevokeOwnerAccess \/ ResetOwnerAccess
  BY <1>6, <1>11 DEF RevokeOwnerAccess, ResetOwnerAccess
<1>12. CASE Tick
  BY <1>12, <1>b DEF Tick,
     Consistent, MovesForward, TokensOfFamily, CondemnedHasEnded, OneBranch
<1>13. CASE Crash
  BY <1>13, <1>b DEF Crash, TypeOK,
     Consistent, MovesForward, TokensOfFamily, CondemnedHasEnded, OneBranch
<1> QED
  BY <1>0, <1>1, <1>3, <1>4, <1>5, <1>7, <1>8, <1>9, <1>10, <1>11, <1>12, <1>13 DEF Next

\* The inductive invariant holds throughout.
LEMMA Inductive == Spec => [](TypeOK /\ IInv)
<1>1. Init => TypeOK /\ IInv
  <2>1. Init => TypeOK BY Constants, HandlerTypes DEF Init, TypeOK
  <2>2. Init => IInv
    BY Constants, HandlersDiffer
    DEF Init, IInv, Consistent, MovesForward, TokensOfFamily, CondemnedHasEnded, OneBranch
  <2> QED BY <2>1, <2>2
<1>2. TypeOK /\ IInv /\ [Next]_vars => (TypeOK /\ IInv)'
  BY TypeStep, ConsistentStep
<1> QED BY <1>1, <1>2, PTL DEF Spec

-----------------------------------------------------------------------------
(***************************************************************************)
(* What follows.                                                           *)
(***************************************************************************)

\* Rotation, reuse, expiry, revocation and reset leave at most one valid
\* refresh token per family, the one of the current generation
\* (rotateRefreshToken and the statements that end a family).
THEOREM OneValidBranchHolds == Spec => []OneValidBranch
<1>1. IInv => OneValidBranch
  BY DEF IInv, Consistent, OneBranch, OneValidBranch
<1> QED BY <1>1, Inductive, PTL

\* A revoked, reset or reused authorization never authenticates or rotates
\* again, whichever statements of a handler the owner's command fell between.
THEOREM CondemnedStaysOutHolds == Spec => []CondemnedStaysOut
<1>1. TypeOK /\ IInv => CondemnedStaysOut
  <2> SUFFICES ASSUME TypeOK, IInv, NEW a \in condemned, NEW g \in Generations
               PROVE  ~Authenticates(a, g) /\ ~Refreshable(a, g)
    BY DEF CondemnedStaysOut
  <2>1. a \in Auths BY DEF TypeOK
  <2>2. grant[a] # "ACTIVE" \/ family[a] # "ACTIVE"
    BY <2>1 DEF IInv, Consistent, CondemnedHasEnded
  <2>3. ~(GrantNow(a) = "ACTIVE" /\ FamilyNow(a) = "ACTIVE")
    BY <2>2 DEF GrantNow, FamilyNow
  <2> QED BY <2>3 DEF Authenticates, Refreshable, FamilyUsable
<1> QED BY <1>1, Inductive, PTL

\* No step touches what has ended.
LEMMA EndedStep == ASSUME TypeOK, IInv, Next PROVE \A b \in Auths : KeepsEnded(b)
<1> SUFFICES ASSUME NEW b \in Auths PROVE KeepsEnded(b)
  OBVIOUS
<1> USE Constants DEF begins, memory, owners, grants, families, database, history, bounds
<1>b. Consistent(b) /\ generation[b] \in Generations BY DEF IInv, TypeOK
<1>0. ASSUME UNCHANGED families PROVE KeepsEnded(b)
  BY <1>0, <1>b DEF KeepsEnded
<1>1. CASE CreateOwnerBootstrap \/ ConsumeOwnerBootstrap
  BY <1>0, <1>1 DEF CreateOwnerBootstrap, ConsumeOwnerBootstrap
<1>2. ASSUME NEW c \in Clients, Register(c) \/ RegisterWrite(c) PROVE KeepsEnded(b)
  BY <1>0, <1>2 DEF Register, RegisterWrite
<1>3. ASSUME NEW a \in Auths, Authorize(a) PROVE KeepsEnded(b)
  <2>1. CASE ExchangeWrite(a)
    <3>1. CASE b = a
      <4>1. family[b] = "NONE" /\ \A g \in Generations : refresh[b][g] = "NONE"
        BY <2>1, <3>1, <1>b DEF ExchangeWrite, Consistent, MovesForward, TokensOfFamily
      <4> QED BY <4>1 DEF KeepsEnded
    <3>2. CASE b # a
      <4>1. family'[b] = family[b] /\ generation'[b] = generation[b] /\ refresh'[b] = refresh[b]
        BY <2>1, <3>2 DEF ExchangeWrite, TypeOK
      <4> QED BY <4>1 DEF KeepsEnded
    <3> QED BY <3>1, <3>2
  <2>2. CASE ~ExchangeWrite(a)
    <3>1. UNCHANGED families
      BY <1>3, <2>2 DEF Authorize, BeginValidate, BeginRefused, BeginPersist, BeginRecord,
         Approve, ApproveWrite, Exchange
    <3> QED BY <1>0, <3>1
  <2> QED BY <2>1, <2>2
<1>4. ASSUME NEW a \in Auths, RefreshIssue(a) PROVE KeepsEnded(b)
  BY <1>0, <1>4 DEF RefreshIssue
<1>5. ASSUME NEW A \in SUBSET Auths, NEW status \in {"REVOKED", "RESET"}, RevokeGrants(A, status)
      PROVE  KeepsEnded(b)
  <2>1. /\ family'[b] = IF b \in A /\ family[b] \in {"ACTIVE", "COMPROMISED"}
                          THEN status ELSE family[b]
        /\ \A g \in Generations :
              refresh'[b][g] = IF b \in A /\ refresh[b][g] = "ACTIVE" THEN "REVOKED"
                                ELSE refresh[b][g]
        /\ generation' = generation
    BY <1>5, RevokeGrantsEffect
  <2> QED BY <2>1 DEF KeepsEnded
<1>6. ASSUME NEW a \in Auths, NEW g \in Generations, UseToken(a, g) PROVE KeepsEnded(b)
  <2>1. ASSUME NEW status \in {"EXPIRED", "REVOKED", "COMPROMISED"},
               EndFamily(a, {"ACTIVE"}, status)
        PROVE  KeepsEnded(b)
    <3>1. /\ family'[b] = IF b = a /\ family[a] = "ACTIVE" THEN status ELSE family[b]
          /\ generation' = generation
          /\ \A h \in Generations :
                refresh'[b][h] = IF b = a /\ refresh[a][h] = "ACTIVE" THEN "REVOKED"
                                  ELSE refresh[b][h]
      BY <2>1, EndFamilyEffect
    <3> QED BY <3>1 DEF KeepsEnded
  <2>2. CASE RefreshRotate(a, g)
    <3>1. /\ g + 1 \in Generations /\ generation[a] = g /\ refresh[a][g] = "ACTIVE"
      BY <2>2 DEF RefreshRotate, Refreshable
    <3>2. family' = family BY <2>2 DEF RefreshRotate
    <3>3. CASE b = a
      <4>1. /\ generation'[b] = g + 1
            /\ \A h \in Generations :
                  h \notin {g, g + 1} => refresh'[b][h] = refresh[b][h]
        BY <2>2, <3>1, <3>3 DEF RefreshRotate, TypeOK
      <4>2. refresh[b][g + 1] = "NONE"
        BY <3>1, <3>3, <1>b DEF Consistent, TokensOfFamily
      <4> QED BY <3>1, <3>2, <3>3, <4>1, <4>2 DEF KeepsEnded
    <3>4. CASE b # a
      <4>1. generation'[b] = generation[b] /\ refresh'[b] = refresh[b]
        BY <2>2, <3>4 DEF RefreshRotate, TypeOK
      <4> QED BY <3>2, <4>1 DEF KeepsEnded
    <3> QED BY <3>3, <3>4
  <2>3. CASE RefreshInactive(a, g) BY <2>3, <2>1, <1>0 DEF RefreshInactive
  <2>4. CASE RefreshReuse(a, g) BY <2>4, <2>1 DEF RefreshReuse
  <2>5. CASE RevokeAccess(a, g) BY <2>5, <2>1, <1>0 DEF RevokeAccess
  <2>6. CASE RevokeRefresh(a, g) BY <2>6, <2>1 DEF RevokeRefresh
  <2>7. CASE Authenticate(a, g) BY <2>7, <2>1, <1>0 DEF Authenticate
  <2> QED BY <1>6, <2>2, <2>3, <2>4, <2>5, <2>6, <2>7 DEF UseToken
<1>7. CASE Refuse \/ StorageFails \/ Tick \/ Crash
  BY <1>0, <1>7 DEF Refuse, StorageFails, Tick, Crash
<1>8. ASSUME NEW a \in Auths, RevokeGrant(a) PROVE KeepsEnded(b)
  BY <1>5, <1>8 DEF RevokeGrant
<1>9. CASE RevokeOwnerAccess \/ ResetOwnerAccess
  BY <1>5, <1>9 DEF RevokeOwnerAccess, ResetOwnerAccess
<1> QED
  BY <1>1, <1>2, <1>3, <1>4, <1>6, <1>7, <1>8, <1>9 DEF Next

\* No step reactivates a family or a refresh token that has ended, and no code
\* opens a second family (exchangeAuthorizationCode, rotateRefreshToken).
THEOREM NeverReactivatedHolds == Spec => NeverReactivated
<1>1. TypeOK /\ IInv /\ [Next]_vars => [\A a \in Auths : KeepsEnded(a)]_vars
  BY EndedStep
<1> QED BY <1>1, Inductive, PTL DEF Spec, NeverReactivated

-----------------------------------------------------------------------------
(***************************************************************************)
(* Lifetimes are nested.                                                   *)
(***************************************************************************)

\* A family ends, and an access token expires, no later than the grant; before
\* the family exists it has no end.
Bounded(a) ==
    /\ family[a] = "NONE" => familyUntil[a] = 0
    /\ familyUntil[a] <= grantUntil[a]
    /\ \A g \in Generations : access[a][g] <= grantUntil[a]

AllBounded == \A a \in Auths : Bounded(a)

\* A step that sets no expiry time only drops access tokens.
LEMMA BoundedKept ==
    ASSUME TypeOK, NEW b \in Auths, Bounded(b), UNCHANGED <<grantUntil, familyUntil>>,
           family'[b] = "NONE" => family[b] = "NONE",
           \A g \in Generations : access'[b][g] \in {0, access[b][g]}
    PROVE  Bounded(b)'
<1>1. familyUntil[b] \in Nat /\ grantUntil[b] \in Nat /\ 0 <= grantUntil[b] BY DEF TypeOK
<1>2. ASSUME NEW g \in Generations PROVE access'[b][g] <= grantUntil'[b]
  <2>1. access[b][g] <= grantUntil[b] BY DEF Bounded
  <2>2. access'[b][g] = 0 \/ access'[b][g] = access[b][g] OBVIOUS
  <2> QED BY <1>1, <2>1, <2>2
<1> QED BY <1>2 DEF Bounded

\* Every step keeps the lifetimes of every authorization nested: the grant's
\* end is written before there is a family or a token, and what createTokenFamily
\* and issueAccessToken write is bounded by it.
LEMMA BoundedStep == ASSUME TypeOK, IInv, AllBounded, [Next]_vars PROVE AllBounded'
<1> SUFFICES ASSUME NEW b \in Auths PROVE Bounded(b)'
  BY DEF AllBounded
<1> USE Constants, HandlersDiffer
    DEF begins, memory, owners, grants, families, database, history, bounds
<1>b. Bounded(b) /\ Consistent(b) BY DEF AllBounded, IInv
<1>c. \A g \in Generations : CleanedAccess[b][g] \in {0, access[b][g]}
  BY CleanedEffect
<1>n. /\ clock \in Nat
      /\ \A a \in Auths : grantUntil[a] \in Nat /\ AccessUntil(a) <= grantUntil[a]
      /\ \A a \in Auths : Earlier(clock + RefreshTtl, grantUntil[a]) <= grantUntil[a]
  <2>1. clock \in Nat /\ grantUntil \in [Auths -> Nat] BY DEF TypeOK
  <2>2. clock + AccessTtl \in Nat /\ clock + RefreshTtl \in Nat BY <2>1
  <2> QED BY <2>1, <2>2, EarlierType DEF AccessUntil
<1>k. ASSUME UNCHANGED <<grantUntil, familyUntil>>, access' = access \/ access' = CleanedAccess,
             family'[b] = "NONE" => family[b] = "NONE"
      PROVE  Bounded(b)'
  <2>1. \A g \in Generations : access'[b][g] \in {0, access[b][g]} BY <1>k, <1>c
  <2> QED BY <1>k, <1>b, <2>1, BoundedKept
<1>0. CASE UNCHANGED vars BY <1>0, <1>k DEF vars
<1>1. CASE CreateOwnerBootstrap \/ ConsumeOwnerBootstrap
  BY <1>1, <1>k DEF CreateOwnerBootstrap, ConsumeOwnerBootstrap
<1>2. ASSUME NEW c \in Clients, Register(c) \/ RegisterWrite(c) PROVE Bounded(b)'
  BY <1>2, <1>k DEF Register, RegisterWrite
<1>3. ASSUME NEW a \in Auths, Authorize(a) PROVE Bounded(b)'
  <2>1. CASE ApproveWrite(a)
    <3>1. CASE b = a
      <4>1. /\ family[b] = "NONE" /\ familyUntil[b] = 0
            /\ \A g \in Generations : access[b][g] = 0
        BY <2>1, <3>1, <1>b DEF ApproveWrite, Consistent, MovesForward, TokensOfFamily, Bounded
      <4>2. grantUntil'[b] \in Nat BY <2>1, <3>1, <1>n DEF ApproveWrite, TypeOK
      <4> QED BY <2>1, <4>1, <4>2 DEF ApproveWrite, Bounded
    <3>2. CASE b # a
      <4>1. grantUntil'[b] = grantUntil[b] BY <2>1, <3>2 DEF ApproveWrite, TypeOK
      <4> QED BY <2>1, <4>1, <1>b DEF ApproveWrite, Bounded
    <3> QED BY <3>1, <3>2
  <2>2. CASE ExchangeWrite(a)
    <3>1. CASE b = a
      <4>1. /\ family'[b] = "ACTIVE" /\ familyUntil'[b] <= grantUntil[b]
            /\ \A g \in Generations : access'[b][g] \in {access[b][g], AccessUntil(b)}
        BY <2>2, <3>1, <1>n DEF ExchangeWrite, TypeOK
      <4> QED BY <2>2, <4>1, <1>b, <1>n DEF ExchangeWrite, Bounded
    <3>2. CASE b # a
      <4>1. /\ family'[b] = family[b] /\ familyUntil'[b] = familyUntil[b]
            /\ access'[b] = access[b]
        BY <2>2, <3>2 DEF ExchangeWrite, TypeOK
      <4> QED BY <2>2, <4>1, <1>b DEF ExchangeWrite, Bounded
    <3> QED BY <3>1, <3>2
  <2>3. CASE ~ApproveWrite(a) /\ ~ExchangeWrite(a)
    BY <1>3, <1>k, <2>3 DEF Authorize, BeginValidate, BeginRefused, BeginPersist, BeginRecord,
       Approve, Exchange, Cleanup
  <2> QED BY <2>1, <2>2, <2>3
<1>4. ASSUME NEW a \in Auths, RefreshIssue(a) PROVE Bounded(b)'
  <2>1. \A g \in Generations : access'[b][g] \in {access[b][g], AccessUntil(b)}
    <3>1. access \in [Auths -> [Generations -> Nat]] BY DEF TypeOK
    <3>2. access' = [access EXCEPT ![a][generation[a]] = AccessUntil(a)] \/ access' = access
      BY <1>4 DEF RefreshIssue
    <3>3. CASE access' = access BY <3>3
    <3>4. CASE access' = [access EXCEPT ![a][generation[a]] = AccessUntil(a)]
      <4>1. access'[b] = IF b = a THEN [access[a] EXCEPT ![generation[a]] = AccessUntil(a)]
                                  ELSE access[b]
        BY <3>1, <3>4
      <4>2. access[a] \in [Generations -> Nat] BY <3>1
      <4> QED BY <4>1, <4>2
    <3> QED BY <3>2, <3>3, <3>4
  <2> QED BY <1>4, <2>1, <1>b, <1>n DEF RefreshIssue, Bounded
<1>5. ASSUME NEW A \in SUBSET Auths, NEW status \in {"REVOKED", "RESET"},
             RevokeGrants(A, status), UNCHANGED memory
      PROVE  Bounded(b)'
  <2>1. /\ family'[b] = "NONE" => family[b] = "NONE"
        /\ UNCHANGED <<grantUntil, familyUntil>>
    BY <1>5, RevokeGrantsEffect
  <2> QED BY <1>5, <1>k, <2>1
<1>6. ASSUME NEW a \in Auths, NEW g \in Generations, UseToken(a, g) PROVE Bounded(b)'
  <2>1. ASSUME NEW status \in {"EXPIRED", "REVOKED", "COMPROMISED"},
               EndFamily(a, {"ACTIVE"}, status)
        PROVE  /\ family'[b] = "NONE" => family[b] = "NONE"
               /\ UNCHANGED familyUntil
    BY <2>1, EndFamilyEffect
  <2>2. CASE RefreshInactive(a, g) BY <2>2, <2>1, <1>k DEF RefreshInactive, Cleanup
  <2>3. CASE RefreshReuse(a, g) BY <2>3, <2>1, <1>k DEF RefreshReuse, Cleanup
  <2>4. CASE RefreshRotate(a, g) BY <2>4, <1>k DEF RefreshRotate, Cleanup
  <2>5. CASE RevokeAccess(a, g)
    <3>1. \A h \in Generations : access'[b][h] \in {0, access[b][h]}
      BY <2>5, <1>c, CleanedEffect DEF RevokeAccess
    <3>2. /\ family'[b] = "NONE" => family[b] = "NONE"
          /\ UNCHANGED <<grantUntil, familyUntil>>
      BY <2>5, <2>1 DEF RevokeAccess
    <3> QED BY <1>b, <3>1, <3>2, BoundedKept
  <2>6. CASE RevokeRefresh(a, g) BY <2>6, <2>1, <1>k DEF RevokeRefresh, Cleanup
  <2>7. CASE Authenticate(a, g) BY <2>7, <2>1, <1>k DEF Authenticate, Cleanup
  <2> QED BY <1>6, <2>2, <2>3, <2>4, <2>5, <2>6, <2>7 DEF UseToken
<1>7. CASE Refuse \/ StorageFails \/ Tick
  BY <1>7, <1>k DEF Refuse, StorageFails, Tick, Cleanup
<1>8. CASE Crash
  <2>1. \A g \in Generations : access'[b][g] = 0 BY <1>8 DEF Crash
  <2> QED BY <1>8, <1>b, <2>1, BoundedKept DEF Crash
<1>9. ASSUME NEW a \in Auths, RevokeGrant(a) PROVE Bounded(b)'
  BY <1>5, <1>9 DEF RevokeGrant
<1>10. CASE RevokeOwnerAccess \/ ResetOwnerAccess
  BY <1>5, <1>10 DEF RevokeOwnerAccess, ResetOwnerAccess
<1> QED
  BY <1>0, <1>1, <1>2, <1>3, <1>4, <1>6, <1>7, <1>8, <1>9, <1>10 DEF Next

\* No family and no access token outlives its grant, for any lifetimes and
\* wherever the clock, the owner's commands and restarts fall between a
\* handler's check and its insert (createTokenFamily, issueAccessToken).
THEOREM NothingOutlivesGrantHolds == Spec => []NothingOutlivesGrant
<1>1. Init => AllBounded BY Constants DEF Init, AllBounded, Bounded
<1>2. AllBounded => NothingOutlivesGrant BY DEF AllBounded, Bounded, NothingOutlivesGrant
<1>3. (TypeOK /\ IInv) /\ AllBounded /\ [Next]_vars => AllBounded' BY BoundedStep
<1> QED BY <1>1, <1>2, <1>3, Inductive, PTL DEF Spec

-----------------------------------------------------------------------------
(***************************************************************************)
(* A reset no handler straddles is complete.                               *)
(***************************************************************************)

\* An authorization that has begun belongs to a client.
ClientKnown == \A a \in Auths : stage[a] # "new" => who[a] \in Clients

\* As long as no reset fell inside a handler: without a bootstrapped owner no
\* handler is past its check, and nothing that check could rest on is ACTIVE.
QuietAfterReset ==
    straddles = 0 /\ owner # "READY" =>
        /\ mcp = Idle
        /\ \A c \in Clients : client[c] # "ACTIVE"
        /\ \A a \in Auths : grant[a] # "ACTIVE" /\ family[a] # "ACTIVE"

\* Every step keeps a begun authorization's client known.
LEMMA ClientKnownStep == ASSUME TypeOK, IInv, ClientKnown, [Next]_vars PROVE ClientKnown'
<1> SUFFICES ASSUME NEW b \in Auths, stage'[b] # "new" PROVE who'[b] \in Clients
  BY DEF ClientKnown
<1> USE DEF begins, memory, owners, grants, families, database, history, bounds
<1>1. ASSUME NEW a \in Auths, NEW c \in Clients, BeginValidate(a, c) PROVE who'[b] \in Clients
  BY <1>1 DEF BeginValidate, ClientKnown, TypeOK
<1>2. ASSUME UNCHANGED who, stage[b] # "new" PROVE who'[b] \in Clients
  BY <1>2 DEF ClientKnown
<1>3. ASSUME NEW a \in Auths, BeginRefused(a) \/ BeginPersist(a) \/ BeginRecord(a)
      PROVE  who'[b] \in Clients
  <2>1. stage[b] # "new"
    BY <1>3 DEF BeginRefused, BeginPersist, BeginRecord, TypeOK, IInv, Consistent, MovesForward
  <2> QED BY <1>2, <1>3, <2>1 DEF BeginRefused, BeginPersist, BeginRecord
<1>4. CASE StorageFails
  <2>1. stage[b] # "new"
    BY <1>4 DEF StorageFails, TypeOK, IInv, Consistent, MovesForward
  <2> QED BY <1>2, <1>4, <2>1 DEF StorageFails
<1>5. CASE Crash
  <2>1. stage[b] # "new" BY <1>5 DEF Crash
  <2> QED BY <1>2, <1>5, <2>1 DEF Crash
<1>6. CASE UNCHANGED begins BY <1>2, <1>6
<1>7. ASSUME NEW a \in Auths, Authorize(a) PROVE who'[b] \in Clients
  BY <1>1, <1>3, <1>6, <1>7 DEF Authorize, Approve, ApproveWrite, Exchange, ExchangeWrite
<1>8. ASSUME NEW a \in Auths, NEW g \in Generations, UseToken(a, g) PROVE who'[b] \in Clients
  BY <1>6, <1>8 DEF UseToken, RefreshInactive, RefreshReuse, RefreshRotate, RevokeAccess,
     RevokeRefresh, Authenticate
<1>9. ASSUME NEW c \in Clients, Register(c) \/ RegisterWrite(c) PROVE who'[b] \in Clients
  BY <1>6, <1>9 DEF Register, RegisterWrite
<1>10. ASSUME NEW a \in Auths, RefreshIssue(a) \/ RevokeGrant(a) PROVE who'[b] \in Clients
  BY <1>6, <1>10 DEF RefreshIssue, RevokeGrant
<1>11. CASE CreateOwnerBootstrap \/ ConsumeOwnerBootstrap \/ Refuse
            \/ RevokeOwnerAccess \/ ResetOwnerAccess \/ Tick \/ UNCHANGED vars
  BY <1>6, <1>11 DEF CreateOwnerBootstrap, ConsumeOwnerBootstrap, Refuse,
     RevokeOwnerAccess, ResetOwnerAccess, Tick, vars
<1> QED BY <1>4, <1>5, <1>7, <1>8, <1>9, <1>10, <1>11 DEF Next

\* Every step keeps what was quiet after a reset quiet, until the owner
\* bootstraps again: the checks of approve, exchange and refresh fail, and the
\* other handlers that write begin by reading that the owner is READY.
LEMMA QuietStep ==
    ASSUME TypeOK, IInv, ClientKnown, QuietAfterReset, [Next]_vars
    PROVE  QuietAfterReset'
<1> SUFFICES ASSUME straddles' = 0, owner' # "READY"
             PROVE  /\ mcp' = Idle
                    /\ \A c \in Clients : client'[c] # "ACTIVE"
                    /\ \A a \in Auths : grant'[a] # "ACTIVE" /\ family'[a] # "ACTIVE"
  BY DEF QuietAfterReset
<1> DEFINE Goal == /\ mcp' = Idle
                   /\ \A c \in Clients : client'[c] # "ACTIVE"
                   /\ \A a \in Auths : grant'[a] # "ACTIVE" /\ family'[a] # "ACTIVE"
<1> SUFFICES Goal OBVIOUS
<1> USE HandlersDiffer DEF begins, memory, owners, grants, families, database, history, bounds
<1>q. ASSUME straddles = 0, owner # "READY"
      PROVE  /\ mcp = Idle
             /\ \A c \in Clients : client[c] # "ACTIVE"
             /\ \A a \in Auths : grant[a] # "ACTIVE" /\ family[a] # "ACTIVE"
  BY <1>q DEF QuietAfterReset
<1>k. ASSUME UNCHANGED <<straddles, owner, client>>, mcp' \in {mcp, Idle},
             \A a \in Auths : /\ grant'[a] = "ACTIVE" => grant[a] = "ACTIVE"
                              /\ family'[a] = "ACTIVE" => family[a] = "ACTIVE"
      PROVE  Goal
  BY <1>k, <1>q
<1>g. \A a \in Auths : /\ GrantNow(a) = "ACTIVE" => grant[a] = "ACTIVE"
                       /\ FamilyNow(a) = "ACTIVE" => family[a] = "ACTIVE"
  BY DEF GrantNow, FamilyNow
<1>0. CASE UNCHANGED vars BY <1>0, <1>k DEF vars
<1>1. CASE CreateOwnerBootstrap
  BY <1>1, <1>q DEF CreateOwnerBootstrap
<1>2. CASE ConsumeOwnerBootstrap BY <1>2 DEF ConsumeOwnerBootstrap
<1>3. ASSUME NEW c \in Clients, Register(c) \/ RegisterWrite(c) PROVE Goal
  BY <1>3, <1>q DEF Register, RegisterWrite
<1>4. ASSUME NEW a \in Auths, Authorize(a) PROVE Goal
  <2>1. ASSUME NEW c \in Clients, BeginValidate(a, c) PROVE Goal
    BY <2>1, <1>k DEF BeginValidate
  <2>2. CASE BeginRefused(a) BY <2>2, <1>k DEF BeginRefused
  <2>3. CASE BeginPersist(a) BY <2>3 DEF BeginPersist
  <2>4. CASE BeginRecord(a) BY <2>4, <1>q DEF BeginRecord
  <2>5. CASE Approve(a)
    <3>1. transactions[a] # 0 BY <2>5 DEF Approve, TypeOK
    <3>2. who[a] \in Clients
      BY <3>1 DEF IInv, Consistent, MovesForward, ClientKnown
    <3> QED BY <2>5, <3>2, <1>q DEF Approve
  <2>6. CASE ApproveWrite(a) BY <2>6, <1>q DEF ApproveWrite
  <2>7. CASE Exchange(a)
    <3>1. straddles = 0 /\ owner # "READY" BY <2>7 DEF Exchange
    <3>2. GrantNow(a) # "ACTIVE" BY <3>1, <1>q, <1>g
    <3>3. \A b \in Auths : grant'[b] = "ACTIVE" => grant[b] = "ACTIVE"
      BY <2>7, <3>2 DEF Exchange, TypeOK
    <3> QED BY <2>7, <3>2, <3>3, <1>k DEF Exchange
  <2>8. CASE ExchangeWrite(a) BY <2>8, <1>q DEF ExchangeWrite
  <2> QED BY <1>4, <2>1, <2>2, <2>3, <2>4, <2>5, <2>6, <2>7, <2>8 DEF Authorize
<1>5. ASSUME NEW a \in Auths, RefreshIssue(a) PROVE Goal
  BY <1>5, <1>k DEF RefreshIssue
<1>6. ASSUME NEW A \in SUBSET Auths, NEW status \in {"REVOKED", "RESET"}, RevokeGrants(A, status)
      PROVE  \A a \in Auths : /\ grant'[a] = "ACTIVE" => grant[a] = "ACTIVE"
                              /\ family'[a] = "ACTIVE" => family[a] = "ACTIVE"
                              /\ a \in A => grant'[a] # "ACTIVE" /\ family'[a] # "ACTIVE"
  BY <1>6, RevokeGrantsEffect
<1>7. ASSUME NEW a \in Auths, NEW g \in Generations, UseToken(a, g) PROVE Goal
  <2>1. ASSUME NEW status \in {"EXPIRED", "REVOKED", "COMPROMISED"},
               EndFamily(a, {"ACTIVE"}, status)
        PROVE  \A b \in Auths : family'[b] = "ACTIVE" => family[b] = "ACTIVE"
    BY <2>1, EndFamilyEffect
  <2>2. CASE RefreshInactive(a, g) BY <2>2, <2>1, <1>k DEF RefreshInactive
  <2>3. CASE RefreshReuse(a, g) BY <2>3, <2>1, <1>k DEF RefreshReuse
  <2>4. CASE RefreshRotate(a, g)
    BY <2>4, <1>q, <1>g DEF RefreshRotate, Refreshable, FamilyUsable
  <2>5. CASE RevokeAccess(a, g) BY <2>5, <2>1, <1>k DEF RevokeAccess
  <2>6. CASE RevokeRefresh(a, g) BY <2>6, <2>1, <1>k DEF RevokeRefresh
  <2>7. CASE Authenticate(a, g)
    <3>1. \A b \in Auths : grant'[b] = "ACTIVE" => grant[b] = "ACTIVE"
      BY <2>7, <1>g DEF Authenticate, TypeOK
    <3> QED BY <2>7, <3>1, <2>1, <1>k DEF Authenticate
  <2> QED BY <1>7, <2>2, <2>3, <2>4, <2>5, <2>6, <2>7 DEF UseToken
<1>8. CASE Refuse \/ StorageFails \/ Tick \/ Crash
  BY <1>8, <1>k DEF Refuse, StorageFails, Tick, Crash
<1>9. ASSUME NEW a \in Auths, RevokeGrant(a) PROVE Goal
  BY <1>6, <1>9, <1>k DEF RevokeGrant
<1>10. CASE RevokeOwnerAccess
  BY <1>6, <1>10, <1>k DEF RevokeOwnerAccess
<1>11. CASE ResetOwnerAccess
  <2>1. mcp = Idle
    BY <1>11 DEF ResetOwnerAccess, TypeOK
  <2>2. \A c \in Clients : client'[c] # "ACTIVE" BY <1>11 DEF ResetOwnerAccess
  <2> QED BY <1>6, <1>11, <2>1, <2>2 DEF ResetOwnerAccess
<1> QED
  BY <1>0, <1>1, <1>2, <1>3, <1>4, <1>5, <1>7, <1>8, <1>9, <1>10, <1>11 DEF Next

\* A reset that commits between handlers leaves nothing ACTIVE and nothing that
\* could become ACTIVE before the owner bootstraps again, whatever transactions,
\* codes and tokens the MCP process still holds (resetOwnerAccess).
THEOREM QuietResetIsCompleteHolds == Spec => []QuietResetIsComplete
<1>1. Init => ClientKnown /\ QuietAfterReset BY DEF Init, ClientKnown, QuietAfterReset
<1>2. QuietAfterReset => QuietResetIsComplete BY DEF QuietAfterReset, QuietResetIsComplete
<1>3. (TypeOK /\ IInv) /\ (ClientKnown /\ QuietAfterReset) /\ [Next]_vars
        => (ClientKnown /\ QuietAfterReset)'
  BY ClientKnownStep, QuietStep
<1> QED BY <1>1, <1>2, <1>3, Inductive, PTL DEF Spec

=============================================================================
