----------------------- MODULE CredentialVaultProofs -----------------------
(***************************************************************************)
(* The safety properties of CredentialVault, for any accounts,             *)
(* transactions, operations, faults and number of refresh tokens.          *)
(*                                                                         *)
(* VaultInv is inductive.  LockInv says which rows a transaction holds at  *)
(* each of its statements, TokenInv what the refresh tokens it carries are *)
(* still worth.  A renewal is alone with the stored token because it and   *)
(* the disconnection of an account hold the advisory lock, and because the *)
(* disconnection of the grant, which does not take that lock, holds every  *)
(* linked account, the renewal's own among them.  NoOrphanGrant needs       *)
(* SiblingStays: the active sibling a disconnection has counted is still   *)
(* there when it commits, for the advisory lock keeps other disconnections *)
(* out and the row lock its own account still.                             *)
(***************************************************************************)
EXTENDS CredentialVault, TLAPS

\* A renewal, a disconnection or deletion that is past pg_advisory_xact_lock, and
\* a callback.
Renewing == {"r_read", "r_ask", "r_tokens", "r_grant", "r_invalid", "r_siblings"}
Leaving == {"d_count", "d_leave", "d_revoke", "d_grant", "d_tokens", "x_tokens", "x_grant", "x_links"}
Granting == {"a_grant", "a_tokens", "a_account"}

\* The sibling that was counted still uses the grant, or it has slipped away since;
\* or there is nothing to do.
SiblingStays(t) ==
  \/ tx[t].set = "disconnected" /\ acct[tx[t].acct] = "disconnected"
  \/ token.there => slipped \/ \E b \in Accounts : b # tx[t].acct /\ Live(b)

LockInv(t) ==
  /\ tx[t].pc \in Renewing \cup Leaving \cup {"r_advisory", "d_advisory"} =>
       tx[t].acct \in Accounts /\ Linked(tx[t].acct) /\ lock[tx[t].acct] = t
  /\ tx[t].pc \in Granting \cup {"r_account", "m_account", "d_account", "w_account"} =>
       tx[t].acct \in Accounts
  /\ tx[t].pc \in Renewing \cup Leaving => lock["advisory"] = t
  /\ tx[t].pc \in {"a_tokens", "a_account", "g_accounts", "g_revoke", "g_tokens"}
       => lock["grant"] = t
  /\ tx[t].pc \in {"g_revoke", "g_tokens"} => \A a \in Accounts : Linked(a) => lock[a] = t
  /\ tx[t].pc = "d_leave" => SiblingStays(t)

\* The token a callback brings is its own: nobody else carries or stores it.
TokenInv(t) ==
  /\ tx[t].saw <= issued /\ tx[t].got <= issued
  /\ tx[t].pc = "r_ask" => tx[t].saw \in valid \cup spoiled
  /\ tx[t].pc \in {"r_tokens", "r_grant"} => tx[t].saw # 0 /\ tx[t].got \in valid \cup spoiled
  /\ tx[t].pc \in {"r_ask", "r_tokens", "r_grant"} => token.there
  /\ tx[t].pc \in Granting /\ tx[t].got # 0 =>
       /\ tx[t].got \in valid \cup spoiled /\ tx[t].got # token.gen
       /\ \A u \in Txs \ {t} : tx[u].saw # tx[t].got /\ tx[u].got # tx[t].got

VaultInv ==
  /\ TypeOK
  /\ ~token.there => token.gen = 0
  /\ token.gen <= issued
  /\ \A t \in Txs : LockInv(t) /\ TokenInv(t)
  /\ StoredTokenLive /\ NoOrphanGrant

-----------------------------------------------------------------------------
(* What a step of transaction t leaves to the others.                      *)

TxRec == [pc : Steps, acct : Accounts \cup {Nobody}, saw : Gens, got : Gens,
          set : AccountStatus, here : BOOLEAN]

LEMMA TxType ==
  ASSUME TypeOK, NEW t \in Txs
  PROVE  /\ tx[t] \in TxRec /\ tx[t].saw \in Nat /\ tx[t].got \in Nat /\ tx[t].saw \in Gens
         /\ tx[t].got \in Gens /\ tx[t].acct \in Accounts \cup {Nobody} /\ tx[t].pc \in Steps
         /\ issued \in Nat /\ token.gen \in Nat /\ token.gen \in Gens
         /\ token.there \in BOOLEAN /\ t # Nobody /\ tx[t].set \in AccountStatus
BY VaultAssumption DEF TypeOK, TxRec, Gens, TokenRows

\* t writes only its own locks and its own state.
TxFrame(t) ==
  /\ tx' \in [Txs -> TxRec]
  /\ \A u \in Txs \ {t} : tx'[u] = tx[u]

LockFrame(t) ==
  /\ lock' \in [Rows -> Txs \cup {Nobody}]
  /\ \A r \in Rows : \A u \in Txs \ {t} : lock[r] = u => lock'[r] = u

\* An account is linked only by whoever holds the grant; a row that somebody else
\* holds is not written.
LinkFrame(t) ==
  /\ acct' \in [Accounts -> AccountStatus] /\ linked' \subseteq Accounts /\ slipped' \in BOOLEAN
  /\ \A a \in Accounts : Linked(a)' => Linked(a) \/ tx[t].pc = "a_account"
  /\ \A a \in Accounts : lock[a] \in {Nobody, t} \/ (acct'[a] = acct[a] /\ (Linked(a) => Linked(a)'))

\* Whoever takes the grant from an account leaves a record of it or deletes the
\* tokens, except for the account that leaves its siblings behind.
ServeFrame(t) ==
  /\ \A a \in Accounts : Live(a) => Live(a)' \/ slipped' \/ ~token'.there \/ tx[t].pc = "d_leave"
  /\ slipped \/ ~token.there =>
       slipped' \/ ~token'.there \/ \E a \in Accounts : Live(a)' /\ lock[a] \in {Nobody, t}

TokenFrame(t) ==
  /\ issued' \in Gens /\ issued <= issued'
  /\ valid' \subseteq 1..issued' /\ spoiled' \subseteq 1..issued'
  /\ token' \in TokenRows
  /\ \A g \in valid \cup spoiled :
       g \in valid' \cup spoiled' \/ (tx[t].pc = "r_ask" /\ g = tx[t].saw)
  /\ token.there /\ ~token'.there => tx[t].pc \in {"d_tokens", "g_tokens", "x_links"}
  /\ token'.gen \in {token.gen, 0, tx[t].got}
  /\ tx'[t].saw \in {tx[t].saw, 0, token.gen}
  /\ tx'[t].got \in {tx[t].got, 0, tx[t].saw} \/ tx'[t].got > issued

Frame(t) == TxFrame(t) /\ LockFrame(t) /\ LinkFrame(t) /\ ServeFrame(t) /\ TokenFrame(t)

\* What is left of a grant that was served is enough, unless t leaves it.
LEMMA ServedKeepsNoOrphan ==
  ASSUME VaultInv, NEW t \in Txs, ServeFrame(t), tx[t].pc # "d_leave"
  PROVE  NoOrphanGrant'
BY DEF VaultInv, NoOrphanGrant, ServeFrame

LEMMA OthersLocks ==
  ASSUME VaultInv, NEW t \in Txs, Frame(t), NEW u \in Txs \ {t}
  PROVE  LockInv(u)'
<1>1. TypeOK /\ LockInv(u) /\ LockInv(t)
  BY DEF VaultInv
<1>2. tx'[u] = tx[u] /\ tx[u].acct \in Accounts \cup {Nobody} /\ u \in Txs /\ u # Nobody
  BY <1>1, TxType DEF Frame, TxFrame
<1>3. \A r \in Rows : lock[r] = u => lock'[r] = u
  BY DEF Frame, LockFrame
<1>4. "advisory" \in Rows /\ "grant" \in Rows /\ Accounts \subseteq Rows
  BY DEF Rows
<1>5. (tx[u].pc \in Renewing \cup Leaving \cup {"r_advisory", "d_advisory"} =>
         tx[u].acct \in Accounts /\ Linked(tx[u].acct) /\ lock[tx[u].acct] = u)'
  BY <1>1, <1>2, <1>3, <1>4 DEF LockInv, Frame, LinkFrame, Linked
<1>7. (tx[u].pc \in Renewing \cup Leaving => lock["advisory"] = u)'
  BY <1>1, <1>2, <1>3, <1>4 DEF LockInv
<1>8. (tx[u].pc \in {"a_tokens", "a_account", "g_accounts", "g_revoke", "g_tokens"}
         => lock["grant"] = u)'
  BY <1>1, <1>2, <1>3, <1>4 DEF LockInv
<1>9. (tx[u].pc \in {"g_revoke", "g_tokens"} => \A a \in Accounts : Linked(a) => lock[a] = u)'
  <2> SUFFICES ASSUME tx[u].pc \in {"g_revoke", "g_tokens"}, NEW a \in Accounts, Linked(a)'
               PROVE  lock'[a] = u
    BY <1>2 DEF Linked
  <2>1. lock["grant"] = u
    BY <1>1 DEF LockInv
  <2>2. tx[t].pc # "a_account"
    BY <1>1, <2>1 DEF LockInv
  <2>3. Linked(a)
    BY <2>2 DEF Frame, LinkFrame
  <2>4. lock[a] = u
    BY <1>1, <2>3 DEF LockInv
  <2> QED BY <1>3, <1>4, <2>4
<1>10. (tx[u].pc \in Granting \cup {"r_account", "m_account", "d_account", "w_account"} =>
          tx[u].acct \in Accounts)'
  BY <1>1, <1>2 DEF LockInv
<1>11. ASSUME tx[u].pc = "d_leave"
       PROVE  SiblingStays(u)'
  <2>1. tx[u].acct \in Accounts /\ lock[tx[u].acct] = u /\ lock["advisory"] = u /\ SiblingStays(u)
    BY <1>1, <1>11 DEF LockInv, Leaving
  <2>2. acct'[tx[u].acct] = acct[tx[u].acct] /\ lock[tx[u].acct] \notin {Nobody, t}
    BY <1>2, <2>1 DEF Frame, LinkFrame
  <2>3. tx[t].pc # "d_leave"
    BY <1>1, <2>1 DEF LockInv, Leaving
  <2>4. CASE tx[u].set = "disconnected" /\ acct[tx[u].acct] = "disconnected"
    BY <1>2, <2>2, <2>4 DEF SiblingStays
  <2>5. CASE slipped \/ ~token.there
    BY <1>2, <2>2, <2>5 DEF SiblingStays, Frame, ServeFrame
  <2>6. ASSUME NEW b \in Accounts, b # tx[u].acct, Live(b)
        PROVE  SiblingStays(u)'
    BY <1>2, <2>3, <2>6 DEF SiblingStays, Frame, ServeFrame
  <2> QED BY <2>1, <2>4, <2>5, <2>6 DEF SiblingStays
<1> QED BY <1>2, <1>5, <1>7, <1>8, <1>9, <1>10, <1>11 DEF LockInv

\* While t writes the tokens nobody renews them: both would hold the advisory
\* lock, or t the row of the renewal's account.
LEMMA RenewsAlone ==
  ASSUME VaultInv, NEW t \in Txs, NEW u \in Txs \ {t}, tx[u].pc \in Renewing
  PROVE  tx[t].pc \notin Renewing \cup Leaving \cup {"g_revoke", "g_tokens"}
<1>1. LockInv(t) /\ LockInv(u)
  BY DEF VaultInv
<1>2. lock["advisory"] = u
  BY <1>1 DEF LockInv
<1>3. tx[u].acct \in Accounts /\ Linked(tx[u].acct) /\ lock[tx[u].acct] = u
  BY <1>1 DEF LockInv
<1>4. tx[t].pc \notin Renewing \cup Leaving
  BY <1>1, <1>2 DEF LockInv
<1>5. tx[t].pc \notin {"g_revoke", "g_tokens"}
  BY <1>1, <1>3 DEF LockInv
<1> QED BY <1>4, <1>5

LEMMA OthersTokens ==
  ASSUME VaultInv, NEW t \in Txs, Frame(t), NEW u \in Txs \ {t}
  PROVE  TokenInv(u)'
<1>1. TypeOK /\ TokenInv(u) /\ TokenInv(t)
  BY DEF VaultInv
<1>2. tx'[u] = tx[u] /\ tx[u].saw \in Nat /\ tx[u].got \in Nat /\ issued \in Nat /\ issued' \in Nat
  BY <1>1, TxType, VaultAssumption DEF Frame, TxFrame, TokenFrame, Gens
<1>3. (tx[u].saw <= issued /\ tx[u].got <= issued)'
  BY <1>1, <1>2 DEF TokenInv, Frame, TokenFrame
<1>4. tx[u].pc \in Renewing => valid \cup spoiled \subseteq valid' \cup spoiled'
  BY RenewsAlone DEF Frame, TokenFrame, Renewing
<1>5. tx[u].pc \in Renewing => (token.there => token'.there)
  BY RenewsAlone DEF Frame, TokenFrame, Leaving
<1>6. (tx[u].pc = "r_ask" => tx[u].saw \in valid \cup spoiled)'
  BY <1>1, <1>2, <1>4 DEF TokenInv, Renewing
<1>7. (tx[u].pc \in {"r_tokens", "r_grant"} => tx[u].saw # 0 /\ tx[u].got \in valid \cup spoiled)'
  BY <1>1, <1>2, <1>4 DEF TokenInv, Renewing
<1>8. (tx[u].pc \in {"r_ask", "r_tokens", "r_grant"} => token.there)'
  BY <1>1, <1>2, <1>5 DEF TokenInv, Renewing
<1>9. ASSUME tx[u].pc \in Granting, tx[u].got # 0
      PROVE  /\ tx[u].got \in valid' \cup spoiled' /\ tx[u].got # token'.gen
             /\ \A v \in Txs \ {u} : tx'[v].saw # tx[u].got /\ tx'[v].got # tx[u].got
  <2>1. /\ tx[u].got \in valid \cup spoiled /\ tx[u].got # token.gen
        /\ \A v \in Txs \ {u} : tx[v].saw # tx[u].got /\ tx[v].got # tx[u].got
    BY <1>1, <1>9 DEF TokenInv
  <2>2. tx[u].got <= issued
    BY <1>1 DEF TokenInv
  <2>3. tx[u].got \in valid' \cup spoiled' /\ tx[u].got # token'.gen
    BY <1>9, <2>1 DEF Frame, TokenFrame
  <2>4. tx'[t].saw # tx[u].got /\ tx'[t].got # tx[u].got
    <3>1. tx'[t].saw # tx[u].got
      BY <1>9, <2>1 DEF Frame, TokenFrame
    <3>2. tx'[t].got \in {tx[t].got, 0, tx[t].saw} => tx'[t].got # tx[u].got
      BY <1>9, <2>1
    <3>3. tx'[t].got > issued => tx'[t].got # tx[u].got
      BY <1>2, <2>2
    <3> QED BY <3>1, <3>2, <3>3 DEF Frame, TokenFrame
  <2>5. \A v \in Txs \ {u, t} : tx'[v] = tx[v]
    BY DEF Frame, TxFrame
  <2> QED BY <2>1, <2>3, <2>4, <2>5
<1> QED BY <1>2, <1>3, <1>6, <1>7, <1>8, <1>9 DEF TokenInv

\* It remains to look at the transaction that moves, and at the stored token.
LEMMA StepKeepsInv ==
  ASSUME VaultInv, NEW t \in Txs, Frame(t), LockInv(t)', TokenInv(t)', grant' \in BOOLEAN,
         ~token'.there => token'.gen = 0, token'.gen <= issued',
         StoredTokenLive', NoOrphanGrant'
  PROVE  VaultInv'
<1>1. \A u \in Txs : LockInv(u)' /\ TokenInv(u)'
  BY OthersLocks, OthersTokens
<1>2. TypeOK'
  BY DEF TypeOK, Frame, TxFrame, LockFrame, LinkFrame, TokenFrame, TxRec
<1> QED BY <1>1, <1>2 DEF VaultInv

-----------------------------------------------------------------------------
(* The building blocks of the actions. *)

LEMMA GoType ==
  ASSUME TypeOK, NEW t \in Txs, NEW step \in Steps, Go(t, step)
  PROVE  /\ TxFrame(t) /\ tx'[t].pc = step /\ tx'[t].acct = tx[t].acct
         /\ tx'[t].saw = tx[t].saw /\ tx'[t].got = tx[t].got /\ tx'[t].set = tx[t].set
BY TxType DEF TypeOK, Go, TxFrame, TxRec

LEMMA TakeType ==
  ASSUME TypeOK, NEW t \in Txs, NEW r \in Rows, Take(t, r)
  PROVE  /\ LockFrame(t) /\ lock'[r] = t
         /\ \A q \in Rows : lock[q] = t => lock'[q] = t
BY VaultAssumption DEF TypeOK, Take, LockFrame

LEMMA ReleaseType ==
  ASSUME TypeOK, NEW t \in Txs, lock' = Released(t)
  PROVE  LockFrame(t)
BY DEF TypeOK, Released, LockFrame

\* A transaction that has just begun, or that is over.
LEMMA FreshType ==
  ASSUME TypeOK, NEW t \in Txs, NEW x \in TxRec, tx' = [tx EXCEPT ![t] = x]
  PROVE  TxFrame(t) /\ tx'[t] = x
BY DEF TypeOK, TxFrame, TxRec

\* A renewal that has read a refresh token, or received one.
LEMMA SawType ==
  ASSUME TypeOK, NEW t \in Txs, NEW step \in Steps, NEW g \in Gens,
         tx' = [tx EXCEPT ![t].pc = step, ![t].saw = g]
  PROVE  /\ TxFrame(t) /\ tx'[t].pc = step /\ tx'[t].acct = tx[t].acct
         /\ tx'[t].saw = g /\ tx'[t].got = tx[t].got
<1> DEFINE x == [tx[t] EXCEPT !.pc = step, !.saw = g]
<1>1. tx[t] \in TxRec
  BY TxType
<1>2. x \in TxRec /\ x.pc = step /\ x.acct = tx[t].acct /\ x.saw = g /\ x.got = tx[t].got
  BY <1>1 DEF TxRec
<1>3. tx' = [tx EXCEPT ![t] = x]
  BY DEF TypeOK
<1> HIDE DEF x
<1> QED BY <1>2, <1>3, FreshType

LEMMA GotType ==
  ASSUME TypeOK, NEW t \in Txs, NEW step \in Steps, NEW g \in Gens,
         tx' = [tx EXCEPT ![t].pc = step, ![t].got = g]
  PROVE  /\ TxFrame(t) /\ tx'[t].pc = step /\ tx'[t].acct = tx[t].acct
         /\ tx'[t].got = g /\ tx'[t].saw = tx[t].saw
<1> DEFINE x == [tx[t] EXCEPT !.pc = step, !.got = g]
<1>1. tx[t] \in TxRec
  BY TxType
<1>2. x \in TxRec /\ x.pc = step /\ x.acct = tx[t].acct /\ x.got = g /\ x.saw = tx[t].saw
  BY <1>1 DEF TxRec
<1>3. tx' = [tx EXCEPT ![t] = x]
  BY DEF TypeOK
<1> HIDE DEF x
<1> QED BY <1>2, <1>3, FreshType

LEMMA OverType ==
  ASSUME TypeOK, NEW t \in Txs, End(t)
  PROVE  TxFrame(t) /\ tx'[t].pc = "idle" /\ tx'[t].saw = 0 /\ tx'[t].got = 0
<1>1. 0 \in Gens
  BY VaultAssumption DEF Gens
<1>2. Idle \in TxRec /\ Idle.pc = "idle" /\ Idle.saw = 0 /\ Idle.got = 0
  BY <1>1 DEF Idle, TxRec, Steps, AccountStatus
<1>3. tx' = [tx EXCEPT ![t] = Idle]
  BY DEF End
<1> QED BY <1>2, <1>3, FreshType

\* A transaction that is over holds nothing and carries nothing.
LEMMA OverInv ==
  ASSUME TypeOK, NEW t \in Txs, End(t), issued' \in Nat
  PROVE  LockInv(t)' /\ TokenInv(t)'
<1>1. tx'[t].pc = "idle" /\ tx'[t].saw = 0 /\ tx'[t].got = 0
  BY OverType
<1>2. LockInv(t)'
  BY <1>1 DEF LockInv, Renewing, Leaving, Granting
<1>3. TokenInv(t)'
  BY <1>1 DEF TokenInv, Granting
<1> QED BY <1>2, <1>3

\* Steps that change neither the tokens row nor the accounts.
LEMMA SameTables ==
  ASSUME VaultInv, NEW t \in Txs, UNCHANGED <<token, grant, acct, linked, slipped>>
  PROVE  /\ LinkFrame(t) /\ ServeFrame(t) /\ NoOrphanGrant' /\ token' \in TokenRows
         /\ token'.gen \in {token.gen, 0, tx[t].got} /\ (~token'.there => token'.gen = 0)
         /\ grant' \in BOOLEAN /\ ~(token.there /\ ~token'.there)
<1>1. LinkFrame(t)
  BY DEF VaultInv, TypeOK, LinkFrame, Linked
<1>2. NoOrphanGrant' /\ ServeFrame(t)
  BY DEF VaultInv, NoOrphanGrant, ServeFrame, Live, Linked
<1> QED BY <1>1, <1>2 DEF VaultInv, TypeOK

\* Steps that leave the tables alone: the stored token stays as good as it was
\* unless the renewal that carries its replacement gives up.
LEMMA QuietKeepsInv ==
  ASSUME VaultInv, NEW t \in Txs, UNCHANGED <<valid, issued, spoiled, token, grant, acct, linked, slipped>>,
         TxFrame(t), LockFrame(t), LockInv(t)', TokenInv(t)',
         tx'[t].saw \in {tx[t].saw, 0, token.gen}, tx'[t].got \in {tx[t].got, 0, tx[t].saw},
         tx[t].pc \in {"r_tokens", "r_grant"} =>
           tx'[t].pc \in {"r_tokens", "r_grant"} /\ tx'[t].saw = tx[t].saw
  PROVE  VaultInv'
<1>1. TypeOK
  BY DEF VaultInv
<1>2. LinkFrame(t) /\ ServeFrame(t) /\ NoOrphanGrant' /\ grant' \in BOOLEAN
  BY SameTables
<1>3. TokenFrame(t)
  <2>1. issued <= issued'
    BY <1>1, TxType
  <2> QED BY <1>1, <2>1 DEF TokenFrame, TypeOK
<1>4. StoredTokenLive'
  BY DEF StoredTokenLive, VaultInv, TxFrame
<1>5. (~token.there => token.gen = 0)' /\ (token.gen <= issued)'
  BY DEF VaultInv
<1> QED BY <1>2, <1>3, <1>4, <1>5, StepKeepsInv DEF Frame

LEMMA GoKeepsInv ==
  ASSUME VaultInv, NEW t \in Txs, UNCHANGED <<valid, issued, spoiled, token, grant, acct, linked, slipped>>,
         NEW step \in Steps \ {"r_ask"}, Go(t, step), LockFrame(t), LockInv(t)',
         step \in {"r_tokens", "r_grant"} <=> tx[t].pc \in {"r_tokens", "r_grant"},
         step \in Granting => tx[t].pc \in Granting
  PROVE  VaultInv'
<1>1. TypeOK /\ TokenInv(t)
  BY DEF VaultInv
<1>2. /\ TxFrame(t) /\ tx'[t].pc = step
      /\ tx'[t].saw = tx[t].saw /\ tx'[t].got = tx[t].got
  BY <1>1, GoType
<1>3. TokenInv(t)'
  BY <1>1, <1>2 DEF TokenInv, TxFrame
<1> QED BY <1>2, <1>3, QuietKeepsInv

-----------------------------------------------------------------------------
(* Statements that lock one row and go on. *)

\* Such a statement, at its program counter.
Locks(t, from, r, to) ==
  /\ tx[t].pc = from /\ r \in Rows /\ to \in Steps
  /\ Take(t, r) /\ Go(t, to)
  /\ UNCHANGED <<valid, issued, spoiled, token, grant, acct, linked, slipped>>

LEMMA LocksType ==
  ASSUME VaultInv, NEW t \in Txs, NEW from, NEW r, NEW to, Locks(t, from, r, to)
  PROVE  /\ LockInv(t) /\ LockFrame(t) /\ tx[t].pc = from
         /\ tx'[t].pc = to /\ tx'[t].acct = tx[t].acct /\ lock'[r] = t
         /\ lock["advisory"] = t => lock'["advisory"] = t
         /\ lock["grant"] = t => lock'["grant"] = t
         /\ \A a \in Accounts : lock[a] = t => lock'[a] = t
         /\ \A a \in Accounts : Linked(a)' <=> Linked(a)
<1>1. TypeOK /\ LockInv(t)
  BY DEF VaultInv
<1>2. LockFrame(t) /\ lock'[r] = t /\ \A q \in Rows : lock[q] = t => lock'[q] = t
  BY <1>1, TakeType DEF Locks
<1>3. tx'[t].pc = to /\ tx'[t].acct = tx[t].acct
  BY <1>1, GoType DEF Locks
<1>4. \A a \in Accounts : Linked(a)' <=> Linked(a)
  BY DEF Locks, Linked
<1>5. tx[t].pc = from
  BY DEF Locks
<1> QED BY <1>1, <1>2, <1>3, <1>4, <1>5 DEF Rows

LEMMA LockAccountKeepsInv ==
  ASSUME VaultInv, NEW t \in Txs, LockAccount(t)
  PROVE  VaultInv'
<1>1. Locks(t, "r_account", tx[t].acct, "r_advisory")
  <2>1. tx[t].acct \in Accounts
    BY DEF VaultInv, LockInv, LockAccount, At
  <2> QED BY <2>1 DEF LockAccount, Locks, At, Steps, Rows
<1>2. LockInv(t)'
  <2>1. tx[t].acct \in Accounts /\ Linked(tx[t].acct)
    BY DEF VaultInv, LockInv, LockAccount, At
  <2> QED BY <1>1, <2>1, LocksType DEF LockInv, Renewing, Leaving, Granting
<1>3. LockFrame(t)
  BY <1>1, LocksType
<1> QED BY <1>1, <1>2, <1>3, GoKeepsInv DEF Locks, Granting

LEMMA LockGrantKeepsInv ==
  ASSUME VaultInv, NEW t \in Txs, LockGrant(t)
  PROVE  VaultInv'
<1>1. Locks(t, "r_advisory", "advisory", "r_read")
  BY DEF LockGrant, Locks, At, Steps, Rows
<1>2. LockInv(t)'
  BY <1>1, LocksType DEF LockInv, Renewing, Leaving, Granting
<1>3. LockFrame(t)
  BY <1>1, LocksType
<1> QED BY <1>1, <1>2, <1>3, GoKeepsInv DEF Locks, Granting

LEMMA SaveTokenTxKeepsInv ==
  ASSUME VaultInv, NEW t \in Txs, SaveTokenTx(t)
  PROVE  VaultInv'
<1>1. Locks(t, "r_tokens", "tokens", "r_grant")
  BY DEF SaveTokenTx, Locks, At, Steps, Rows
<1>2. LockInv(t)'
  BY <1>1, LocksType DEF LockInv, Renewing, Leaving, Granting
<1>3. LockFrame(t)
  BY <1>1, LocksType
<1> QED BY <1>1, <1>2, <1>3, GoKeepsInv DEF Locks, Granting

LEMMA MarkInvalidGrantTxKeepsInv ==
  ASSUME VaultInv, NEW t \in Txs, MarkInvalidGrantTx(t)
  PROVE  VaultInv'
<1>1. Locks(t, "r_invalid", "grant", "r_siblings")
  BY DEF MarkInvalidGrantTx, Locks, At, Steps, Rows
<1>2. LockInv(t)'
  BY <1>1, LocksType DEF LockInv, Renewing, Leaving, Granting
<1>3. LockFrame(t)
  BY <1>1, LocksType
<1> QED BY <1>1, <1>2, <1>3, GoKeepsInv DEF Locks, Granting

LEMMA UpsertGrantKeepsInv ==
  ASSUME VaultInv, NEW t \in Txs, UpsertGrant(t)
  PROVE  VaultInv'
<1>1. Locks(t, "a_grant", "grant", "a_tokens")
  BY DEF UpsertGrant, Locks, At, Steps, Rows
<1>2. LockInv(t)'
  BY <1>1, LocksType DEF LockInv, Renewing, Leaving, Granting
<1>3. LockFrame(t)
  BY <1>1, LocksType
<1> QED BY <1>1, <1>2, <1>3, GoKeepsInv DEF Locks, Granting

LEMMA UpsertTokensKeepsInv ==
  ASSUME VaultInv, NEW t \in Txs, UpsertTokens(t)
  PROVE  VaultInv'
<1>1. Locks(t, "a_tokens", "tokens", "a_account")
  BY DEF UpsertTokens, Locks, At, Steps, Rows
<1>2. LockInv(t)'
  BY <1>1, LocksType DEF LockInv, Renewing, Leaving, Granting
<1>3. LockFrame(t)
  BY <1>1, LocksType
<1> QED BY <1>1, <1>2, <1>3, GoKeepsInv DEF Locks, Granting

LEMMA LockForDisconnectKeepsInv ==
  ASSUME VaultInv, NEW t \in Txs, LockForDisconnect(t)
  PROVE  VaultInv'
<1>1. Locks(t, "d_account", tx[t].acct, "d_advisory")
  <2>1. tx[t].acct \in Accounts
    BY DEF VaultInv, LockInv, LockForDisconnect, At
  <2> QED BY <2>1 DEF LockForDisconnect, Locks, At, Steps, Rows
<1>2. LockInv(t)'
  <2>1. tx[t].acct \in Accounts /\ Linked(tx[t].acct)
    BY DEF VaultInv, LockInv, LockForDisconnect, At
  <2> QED BY <1>1, <2>1, LocksType DEF LockInv, Renewing, Leaving, Granting
<1>3. LockFrame(t)
  BY <1>1, LocksType
<1> QED BY <1>1, <1>2, <1>3, GoKeepsInv DEF Locks, Granting

LEMMA LockGrantForDisconnectKeepsInv ==
  ASSUME VaultInv, NEW t \in Txs, LockGrantForDisconnect(t)
  PROVE  VaultInv'
<1>1. Locks(t, "d_advisory", "advisory", "d_count")
  BY DEF LockGrantForDisconnect, Locks, At, Steps, Rows
<1>2. LockInv(t)'
  BY <1>1, LocksType DEF LockInv, Renewing, Leaving, Granting
<1>3. LockFrame(t)
  BY <1>1, LocksType
<1> QED BY <1>1, <1>2, <1>3, GoKeepsInv DEF Locks, Granting

LEMMA DisconnectGrantRowKeepsInv ==
  ASSUME VaultInv, NEW t \in Txs, DisconnectGrantRow(t)
  PROVE  VaultInv'
<1>1. Locks(t, "d_grant", "grant", "d_tokens")
  BY DEF DisconnectGrantRow, Locks, At, Steps, Rows
<1>2. LockInv(t)'
  BY <1>1, LocksType DEF LockInv, Renewing, Leaving, Granting
<1>3. LockFrame(t)
  BY <1>1, LocksType
<1> QED BY <1>1, <1>2, <1>3, GoKeepsInv DEF Locks, Granting

LEMMA DeleteTokensKeepsInv ==
  ASSUME VaultInv, NEW t \in Txs, DeleteTokens(t)
  PROVE  VaultInv'
<1>1. Locks(t, "x_tokens", "tokens", "x_grant")
  BY DEF DeleteTokens, Locks, At, Steps, Rows
<1>2. LockInv(t)'
  BY <1>1, LocksType DEF LockInv, Renewing, Leaving, Granting
<1>3. LockFrame(t)
  BY <1>1, LocksType
<1> QED BY <1>1, <1>2, <1>3, GoKeepsInv DEF Locks, Granting

LEMMA DeleteGrantRowKeepsInv ==
  ASSUME VaultInv, NEW t \in Txs, DeleteGrantRow(t)
  PROVE  VaultInv'
<1>1. Locks(t, "x_grant", "grant", "x_links")
  BY DEF DeleteGrantRow, Locks, At, Steps, Rows
<1>2. LockInv(t)'
  BY <1>1, LocksType DEF LockInv, Renewing, Leaving, Granting
<1>3. LockFrame(t)
  BY <1>1, LocksType
<1> QED BY <1>1, <1>2, <1>3, GoKeepsInv DEF Locks, Granting

LEMMA LockGrantRowKeepsInv ==
  ASSUME VaultInv, NEW t \in Txs, LockGrantRow(t)
  PROVE  VaultInv'
<1>1. Locks(t, "g_grant", "grant", "g_accounts")
  BY DEF LockGrantRow, Locks, At, Steps, Rows
<1>2. LockInv(t)'
  BY <1>1, LocksType DEF LockInv, Renewing, Leaving, Granting
<1>3. LockFrame(t)
  BY <1>1, LocksType
<1> QED BY <1>1, <1>2, <1>3, GoKeepsInv DEF Locks, Granting

LEMMA WantedAccounts ==
  ASSUME NEW t \in Txs
  PROVE  /\ tx[t].pc = "r_siblings" => Wanted(t) = {a \in linked : acct[a] # "disconnected"}
         /\ tx[t].pc \in {"g_accounts", "x_links"} => Wanted(t) = linked
BY DEF Wanted

\* One more row of a statement that locks several.
LEMMA OneMoreKeepsInv ==
  ASSUME VaultInv, NEW t \in Txs, NEW a \in Accounts, Take(t, a),
         UNCHANGED <<valid, issued, spoiled, token, grant, acct, linked, slipped, tx>>,
         tx[t].pc # "d_leave"
  PROVE  VaultInv'
<1>1. TypeOK /\ LockInv(t) /\ TokenInv(t)
  BY DEF VaultInv
<1>2. LockFrame(t) /\ \A q \in Rows : lock[q] = t => lock'[q] = t
  BY <1>1, TakeType DEF Rows
<1>3. TxFrame(t)
  BY <1>1 DEF TypeOK, TxFrame, TxRec
<1>4. LockInv(t)'
  BY <1>1, <1>2 DEF LockInv, Linked, Rows
<1>5. TokenInv(t)'
  BY <1>1 DEF TokenInv
<1> QED BY <1>2, <1>3, <1>4, <1>5, QuietKeepsInv

LEMMA LockSiblingKeepsInv ==
  ASSUME VaultInv, NEW t \in Txs, LockSibling(t) \/ NullLink(t)
  PROVE  VaultInv'
<1>1. Missing(t) \subseteq Accounts
  BY WantedAccounts DEF LockSibling, NullLink, At, Missing, VaultInv, TypeOK
<1> QED BY <1>1, OneMoreKeepsInv DEF LockSibling, NullLink, At

\* The row of a grant that was deleted is inserted anew: it is another one.
LEMMA InsertGrantKeepsInv ==
  ASSUME VaultInv, NEW t \in Txs, InsertGrant(t)
  PROVE  VaultInv'
<1>1. TypeOK /\ LockInv(t) /\ tx[t].pc = "a_grant" /\ Go(t, "m_account")
  BY DEF VaultInv, InsertGrant, At
<1>2. "m_account" \in Steps \ {"r_ask"}
  BY DEF Steps
<1>3. tx'[t].pc = "m_account" /\ tx'[t].acct = tx[t].acct
  BY <1>1, <1>2, GoType
<1>4. LockInv(t)'
  BY <1>1, <1>3 DEF LockInv, Renewing, Leaving, Granting
<1>5. LockFrame(t)
  BY <1>1 DEF TypeOK, LockFrame, InsertGrant
<1> QED BY <1>1, <1>2, <1>4, <1>5, GoKeepsInv DEF InsertGrant, Granting

\* The grant's disconnection goes on once it holds every linked account.
LEMMA LockLinkedAccountKeepsInv ==
  ASSUME VaultInv, NEW t \in Txs, LockLinkedAccount(t)
  PROVE  VaultInv'
<1>1. TypeOK /\ LockInv(t)
  BY DEF VaultInv
<1>2. Missing(t) = linked \ Held(t) /\ linked \subseteq Accounts
  BY <1>1, WantedAccounts DEF LockLinkedAccount, At, Missing, TypeOK
<1>3. ASSUME NEW a \in Missing(t), Take(t, a), UNCHANGED tx
      PROVE  VaultInv'
  BY <1>2, <1>3, OneMoreKeepsInv DEF LockLinkedAccount, At
<1>4. ASSUME Missing(t) = {}, Go(t, "g_revoke"), UNCHANGED lock
      PROVE  VaultInv'
  <2>1. "g_revoke" \in Steps \ {"r_ask"}
    BY DEF Steps
  <2>2. tx'[t].pc = "g_revoke"
    BY <1>1, <1>4, <2>1, GoType
  <2>3. \A a \in Accounts : Linked(a) => lock[a] = t
    BY <1>2, <1>4 DEF Held, Linked
  <2>4. LockInv(t)'
    BY <1>1, <1>4, <2>2, <2>3 DEF LockInv, LockLinkedAccount, At, Linked, Renewing, Leaving, Granting
  <2>5. LockFrame(t)
    BY <1>1, <1>4 DEF TypeOK, LockFrame
  <2> QED BY <1>4, <2>1, <2>4, <2>5, GoKeepsInv DEF LockLinkedAccount, At, Granting
<1> QED BY <1>3, <1>4 DEF LockLinkedAccount

-----------------------------------------------------------------------------
(* A transaction begins. *)

\* It holds no lock yet.
LEMMA BeginKeepsInv ==
  ASSUME VaultInv, NEW t \in Txs, At(t, "idle"), NEW x \in TxRec, x.acct \in Accounts,
         x.pc \in {"r_account", "m_account", "d_account", "g_grant", "w_account"},
         x.saw = 0, x.got = 0, tx' = [tx EXCEPT ![t] = x],
         UNCHANGED <<valid, issued, spoiled, token, grant, acct, linked, slipped, lock>>
  PROVE  VaultInv'
<1>1. TypeOK
  BY DEF VaultInv
<1>4. TxFrame(t) /\ tx'[t] = x
  BY <1>1, FreshType
<1>5. LockFrame(t)
  BY <1>1 DEF TypeOK, LockFrame
<1>6. LockInv(t)'
  BY <1>4 DEF LockInv, Renewing, Leaving, Granting
<1>7. TokenInv(t)'
  <2>1. 0 <= issued'
    BY <1>1, TxType
  <2> QED BY <1>4, <2>1 DEF TokenInv, Granting
<1> QED BY <1>4, <1>5, <1>6, <1>7, QuietKeepsInv DEF At

LEMMA StartsKeepsInv ==
  ASSUME VaultInv, NEW t \in Txs, NEW a \in Accounts, At(t, "idle"),
         NEW step \in {"r_account", "m_account", "g_grant"}, Starts(t, step, a),
         UNCHANGED <<valid, issued, spoiled, token, grant, acct, linked, slipped, lock>>
  PROVE  VaultInv'
<1> DEFINE x == [Idle EXCEPT !.pc = step, !.acct = a]
<1>1. 0 \in Gens
  BY VaultAssumption DEF Gens
<1>2. x \in TxRec /\ x.pc = step /\ x.acct = a /\ x.saw = 0 /\ x.got = 0
  BY <1>1 DEF Idle, TxRec, Steps, AccountStatus
<1>3. tx' = [tx EXCEPT ![t] = x]
  BY DEF Starts
<1> HIDE DEF x
<1> QED BY <1>2, <1>3, BeginKeepsInv

LEMMA LeavesKeepsInv ==
  ASSUME VaultInv, NEW t \in Txs, NEW a \in Accounts, NEW st \in AccountStatus, Leaves(t, a, st)
  PROVE  VaultInv'
<1> DEFINE x == [Idle EXCEPT !.pc = "d_account", !.acct = a, !.set = st, !.here = Linked(a)]
<1>1. 0 \in Gens /\ Linked(a) \in BOOLEAN
  BY VaultAssumption DEF Gens, Linked
<1>2. x \in TxRec /\ x.pc = "d_account" /\ x.acct = a /\ x.saw = 0 /\ x.got = 0
  BY <1>1 DEF Idle, TxRec, Steps
<1>3. tx' = [tx EXCEPT ![t] = x]
  BY DEF Leaves
<1> HIDE DEF x
<1> QED BY <1>2, <1>3, BeginKeepsInv DEF Leaves

LEMMA UpdatePlatformAccountKeepsInv ==
  ASSUME VaultInv, NEW t \in Txs, NEW a \in Accounts, UpdatePlatformAccount(t, a)
  PROVE  VaultInv'
<1>1. PICK st \in {"active", "reauth_required", acct[a]} :
        tx' = [tx EXCEPT ![t] = [Idle EXCEPT !.pc = "w_account", !.acct = a, !.set = st]]
  BY DEF UpdatePlatformAccount
<1>2. 0 \in Gens /\ st \in AccountStatus
  BY VaultAssumption DEF Gens, VaultInv, TypeOK, AccountStatus
<1> DEFINE x == [Idle EXCEPT !.pc = "w_account", !.acct = a, !.set = st]
<1>3. x \in TxRec /\ x.pc = "w_account" /\ x.acct = a /\ x.saw = 0 /\ x.got = 0
  BY <1>2 DEF Idle, TxRec, Steps
<1>4. tx' = [tx EXCEPT ![t] = x]
  BY <1>1
<1> HIDE DEF x
<1> QED BY <1>3, <1>4, BeginKeepsInv DEF UpdatePlatformAccount

\* The callback's new token is one nobody has seen.
LEMMA AuthorizeKeepsInv ==
  ASSUME VaultInv, NEW t \in Txs, NEW a \in Accounts, AuthorizeChannel(t, a)
  PROVE  VaultInv'
<1>1. TypeOK /\ issued \in Nat /\ token.gen \in Nat /\ token.gen <= issued
  BY TxType DEF VaultInv
<1>2. 0 \in Gens
  BY VaultAssumption DEF Gens
<1>3. LockFrame(t)
  BY <1>1 DEF TypeOK, LockFrame, AuthorizeChannel
<1>4. LinkFrame(t) /\ ServeFrame(t) /\ NoOrphanGrant' /\ grant' \in BOOLEAN
  BY SameTables DEF AuthorizeChannel
<1>5. ASSUME NEW x \in TxRec, x.pc = "a_grant", x.acct = a, tx' = [tx EXCEPT ![t] = x]
      PROVE  TxFrame(t) /\ tx'[t] = x /\ LockInv(t)'
  <2>1. TxFrame(t) /\ tx'[t] = x
    BY <1>1, <1>5, FreshType
  <2>2. LockInv(t)'
    BY <1>5, <2>1 DEF LockInv, Renewing, Leaving, Granting
  <2> QED BY <2>1, <2>2
<1>6. CASE /\ issued < MaxTokens /\ issued' = issued + 1 /\ valid' = valid \cup {issued + 1}
           /\ tx' = [tx EXCEPT ![t] = [Idle EXCEPT !.pc = "a_grant", !.acct = a, !.got = issued + 1]]
  <2>1. issued + 1 \in Gens
    BY <1>1, <1>6, VaultAssumption DEF Gens
  <2> DEFINE x == [Idle EXCEPT !.pc = "a_grant", !.acct = a, !.got = issued + 1]
  <2>x. x \in TxRec /\ x.pc = "a_grant" /\ x.acct = a /\ x.saw = 0 /\ x.got = issued + 1
    BY <1>2, <2>1 DEF Idle, TxRec, Steps, AccountStatus
  <2>y. tx' = [tx EXCEPT ![t] = x]
    BY <1>6
  <2> HIDE DEF x
  <2>2. /\ TxFrame(t) /\ tx'[t].saw = 0 /\ tx'[t].got = issued + 1 /\ tx'[t].pc = "a_grant"
        /\ LockInv(t)'
    BY <1>5, <2>x, <2>y
  <2>3. TokenFrame(t)
    <3>1. valid' \subseteq 1..issued' /\ spoiled' \subseteq 1..issued'
      BY <1>1, <1>6 DEF TypeOK, AuthorizeChannel
    <3>2. issued <= issued' /\ issued + 1 > issued
      BY <1>1, <1>6
    <3>3. valid \cup spoiled \subseteq valid' \cup spoiled'
      BY <1>6 DEF AuthorizeChannel
    <3> QED BY <1>1, <1>6, <2>1, <2>2, <3>1, <3>2, <3>3 DEF TokenFrame, AuthorizeChannel, TypeOK
  <2>4. TokenInv(t)'
    <3>1. ASSUME NEW u \in Txs \ {t} PROVE tx'[u].saw # issued + 1 /\ tx'[u].got # issued + 1
      <4>1. tx'[u] = tx[u]
        BY <2>2 DEF TxFrame
      <4>2. TokenInv(u) /\ tx[u].saw \in Nat /\ tx[u].got \in Nat
        BY <1>1, TxType DEF VaultInv
      <4> QED BY <1>1, <4>1, <4>2 DEF TokenInv
    <3>2. token'.gen # issued + 1
      BY <1>1 DEF AuthorizeChannel
    <3>3. issued + 1 \in valid' /\ 0 <= issued' /\ issued + 1 <= issued'
      BY <1>1, <1>6
    <3> QED BY <2>2, <3>1, <3>2, <3>3 DEF TokenInv, Granting
  <2>5. StoredTokenLive'
    BY <1>6, <2>2 DEF StoredTokenLive, VaultInv, TxFrame, AuthorizeChannel, At
  <2>6. (~token'.there => token'.gen = 0) /\ token'.gen <= issued'
    BY <1>1, <1>6 DEF VaultInv, AuthorizeChannel
  <2> QED BY <1>3, <1>4, <2>2, <2>3, <2>4, <2>5, <2>6, StepKeepsInv DEF Frame
<1>7. CASE /\ UNCHANGED <<valid, issued>>
           /\ tx' = [tx EXCEPT ![t] = [Idle EXCEPT !.pc = "a_grant", !.acct = a]]
  <2> DEFINE x == [Idle EXCEPT !.pc = "a_grant", !.acct = a]
  <2>1. x \in TxRec /\ x.pc = "a_grant" /\ x.acct = a /\ x.saw = 0 /\ x.got = 0
    BY <1>2 DEF Idle, TxRec, Steps, AccountStatus
  <2>y. tx' = [tx EXCEPT ![t] = x]
    BY <1>7
  <2> HIDE DEF x
  <2>2. /\ TxFrame(t) /\ tx'[t].saw = 0 /\ tx'[t].got = 0 /\ tx'[t].pc = "a_grant"
        /\ LockInv(t)'
    BY <1>5, <2>1, <2>y
  <2>3. 0 <= issued'
    BY <1>1, <1>7
  <2>4. TokenInv(t)'
    BY <2>2, <2>3 DEF TokenInv, Granting
  <2> QED BY <1>3, <1>7, <2>2, <2>4, QuietKeepsInv DEF AuthorizeChannel, At
<1> QED BY <1>6, <1>7 DEF AuthorizeChannel

-----------------------------------------------------------------------------
(* A transaction is over. *)

LEMMA OverKeepsInv ==
  ASSUME VaultInv, NEW t \in Txs, End(t), LockFrame(t), LinkFrame(t), ServeFrame(t),
         issued' \in Gens, issued <= issued', valid' \subseteq 1..issued', spoiled' \subseteq 1..issued',
         valid \cup spoiled \subseteq valid' \cup spoiled',
         token' \in TokenRows, token'.gen \in {token.gen, 0, tx[t].got}, token'.gen <= issued',
         ~token'.there => token'.gen = 0, grant' \in BOOLEAN,
         token.there /\ ~token'.there => tx[t].pc \in {"d_tokens", "g_tokens", "x_links"},
         StoredTokenLive', NoOrphanGrant'
  PROVE  VaultInv'
<1>1. TypeOK /\ issued' \in Nat
  BY VaultAssumption DEF VaultInv, Gens
<1>2. TxFrame(t) /\ tx'[t].saw = 0 /\ tx'[t].got = 0
  BY <1>1, OverType
<1>3. LockInv(t)' /\ TokenInv(t)'
  BY <1>1, OverInv
<1>4. TokenFrame(t)
  BY <1>2 DEF TokenFrame
<1> QED BY <1>2, <1>3, <1>4, StepKeepsInv DEF Frame

\* A failed renewal records the refresh token that was replaced for nothing.
LEMMA RollbackKeepsInv ==
  ASSUME VaultInv, NEW t \in Txs, End(t), Rollback(t)
  PROVE  VaultInv'
<1>1. TypeOK /\ LockFrame(t) /\ TokenInv(t)
  BY ReleaseType DEF VaultInv, Rollback
<1>2. issued' = issued /\ issued \in Nat /\ tx[t].saw \in Nat /\ TxFrame(t)
  BY <1>1, TxType, OverType DEF Rollback
<1>3. valid' \subseteq 1..issued' /\ spoiled' \subseteq 1..issued'
  <2>1. ASSUME tx[t].pc \in {"r_tokens", "r_grant"}
        PROVE  tx[t].saw \in 1..issued
    BY <1>1, <1>2, <2>1 DEF TokenInv
  <2>2. Spent(t) \subseteq 1..issued
    BY <2>1 DEF Spent
  <2> QED BY <1>1, <1>2, <2>2 DEF TypeOK, Rollback
<1>4. valid \cup spoiled \subseteq valid' \cup spoiled' /\ Spent(t) \subseteq spoiled'
  BY DEF Rollback
<1>5. StoredTokenLive'
  <2> SUFFICES ASSUME token.there, token.gen # 0
               PROVE  \/ token.gen \in valid' \cup spoiled'
                      \/ \E u \in Txs : tx'[u].pc \in {"r_tokens", "r_grant"} /\ tx'[u].saw = token.gen
    BY DEF StoredTokenLive, Rollback
  <2>1. CASE token.gen \in valid \cup spoiled
    BY <1>4, <2>1
  <2>2. CASE tx[t].pc \in {"r_tokens", "r_grant"} /\ tx[t].saw = token.gen
    <3>1. tx[t].got \in valid \cup spoiled
      BY <1>1, <2>2 DEF TokenInv
    <3>2. tx[t].got # tx[t].saw => token.gen \in Spent(t)
      BY <2>2 DEF Spent
    <3> QED BY <1>4, <2>2, <3>1, <3>2
  <2>3. CASE \E u \in Txs \ {t} : tx[u].pc \in {"r_tokens", "r_grant"} /\ tx[u].saw = token.gen
    BY <1>2, <2>3 DEF TxFrame
  <2> QED BY <2>1, <2>2, <2>3 DEF VaultInv, StoredTokenLive
<1>6. UNCHANGED <<token, grant, acct, linked, slipped>>
  BY DEF Rollback
<1>7. issued' \in Gens /\ issued <= issued' /\ token'.gen <= issued'
  BY <1>1, <1>2, <1>6 DEF TypeOK, VaultInv
<1> QED BY <1>1, <1>3, <1>4, <1>5, <1>6, <1>7, SameTables, OverKeepsInv

-----------------------------------------------------------------------------
(* Renewal *)

\* Inside the lock the stored token is nobody else's: no other renewal is
\* carrying its replacement.
LEMMA FindInsideLockKeepsInv ==
  ASSUME VaultInv, NEW t \in Txs, FindInsideLock(t)
  PROVE  VaultInv'
<1>1. TypeOK /\ LockInv(t) /\ TokenInv(t) /\ tx[t].pc = "r_read"
  BY DEF VaultInv, FindInsideLock, At
<1>2. UNCHANGED <<valid, issued, spoiled, token, grant, acct, linked, slipped>> /\ issued \in Nat
  BY <1>1, TxType DEF FindInsideLock
<1>3. CASE Commit(t)
  <2>1. LockFrame(t) /\ End(t)
    BY <1>1, <1>3, ReleaseType DEF Commit
  <2>2. TxFrame(t) /\ tx'[t].saw = 0 /\ tx'[t].got = 0
    BY <1>1, <2>1, OverType
  <2>3. LockInv(t)' /\ TokenInv(t)'
    BY <1>1, <1>2, <2>1, OverInv
  <2> QED BY <1>1, <1>2, <2>1, <2>2, <2>3, QuietKeepsInv
<1>4. CASE /\ token.there /\ token.gen # 0
           /\ tx' = [tx EXCEPT ![t].pc = "r_ask", ![t].saw = token.gen]
           /\ UNCHANGED lock
  <2>1. /\ TxFrame(t) /\ tx'[t].pc = "r_ask" /\ tx'[t].acct = tx[t].acct
        /\ tx'[t].saw = token.gen /\ tx'[t].got = tx[t].got
    <3>1. "r_ask" \in Steps /\ token.gen \in Gens
      BY <1>1, TxType DEF Steps
    <3> QED BY <1>1, <1>4, <3>1, SawType
  <2>2. LockFrame(t)
    BY <1>1, <1>4 DEF TypeOK, LockFrame
  <2>3. LockInv(t)'
    BY <1>1, <1>2, <1>4, <2>1 DEF LockInv, Linked, Renewing, Leaving, Granting
  <2>4. token.gen \in valid \cup spoiled
    <3>1. \A u \in Txs : tx[u].pc \notin {"r_tokens", "r_grant"}
      BY <1>1, RenewsAlone DEF Renewing
    <3> QED BY <1>4, <3>1 DEF VaultInv, StoredTokenLive
  <2>5. TokenInv(t)'
    BY <1>1, <1>2, <1>4, <2>1, <2>4 DEF TokenInv, VaultInv, Granting
  <2> QED BY <1>1, <1>2, <2>1, <2>2, <2>3, <2>5, QuietKeepsInv
<1> QED BY <1>3, <1>4 DEF FindInsideLock

\* What the provider's rotation does to the tokens it accepts.
LEMMA Rotation ==
  ASSUME VaultInv, NEW t \in Txs, tx[t].saw \in valid, issued < MaxTokens, issued' = issued + 1,
         valid' = (valid \ {tx[t].saw}) \cup {issued + 1}
  PROVE  /\ issued \in Nat /\ issued' \in Gens /\ issued + 1 \in Gens /\ issued <= issued'
         /\ issued' > issued /\ valid' \subseteq 1..issued' /\ spoiled \subseteq 1..issued'
         /\ tx[t].saw \in 1..issued'
         /\ token.gen <= issued' /\ issued + 1 \in valid'
         /\ \A g \in valid : g \in valid' \/ g = tx[t].saw
<1>1. TypeOK /\ token.gen <= issued /\ token.gen \in Nat /\ issued \in Nat
  BY TxType DEF VaultInv
<1>2. valid \subseteq 1..issued /\ spoiled \subseteq 1..issued
  BY <1>1 DEF TypeOK
<1>3. issued + 1 \in Gens
  BY <1>1, VaultAssumption DEF Gens
<1>4. issued <= issued' /\ issued' > issued /\ token.gen <= issued' /\ 1..issued \subseteq 1..issued'
  BY <1>1
<1>5. issued + 1 \in 1..issued'
  BY <1>1
<1>6. valid' \subseteq 1..issued' /\ spoiled \subseteq 1..issued' /\ tx[t].saw \in 1..issued'
  BY <1>2, <1>4, <1>5
<1>7. issued + 1 \in valid' /\ \A g \in valid : g \in valid' \/ g = tx[t].saw
  OBVIOUS
<1> QED BY <1>1, <1>3, <1>4, <1>6, <1>7

LEMMA RefreshedKeepsInv ==
  ASSUME VaultInv, NEW t \in Txs, Refreshed(t)
  PROVE  VaultInv'
<1>1. TypeOK /\ LockInv(t) /\ TokenInv(t) /\ tx[t].pc = "r_ask" /\ tx[t].saw \in valid
  BY DEF VaultInv, Refreshed, At
<1>2. UNCHANGED <<spoiled, token, grant, acct, linked, slipped, lock>>
  BY DEF Refreshed
<1>3. issued \in Nat /\ tx[t].saw \in Gens /\ tx[t].saw # 0 /\ tx[t].saw \in Nat
  BY <1>1, TxType DEF TypeOK
<1>4. LockFrame(t)
  BY <1>1, <1>2 DEF TypeOK, LockFrame
<1>5. ASSUME NEW g \in Gens, tx' = [tx EXCEPT ![t].pc = "r_tokens", ![t].got = g]
      PROVE  /\ TxFrame(t) /\ tx'[t].pc = "r_tokens" /\ tx'[t].acct = tx[t].acct
             /\ tx'[t].saw = tx[t].saw /\ tx'[t].got = g
             /\ LockInv(t)'
  <2>1. /\ TxFrame(t) /\ tx'[t].pc = "r_tokens" /\ tx'[t].acct = tx[t].acct
        /\ tx'[t].saw = tx[t].saw /\ tx'[t].got = g
    <3>1. "r_tokens" \in Steps
      BY DEF Steps
    <3> QED BY <1>1, <1>5, <3>1, GotType
  <2>2. LockInv(t)'
    BY <1>1, <1>2, <2>1 DEF LockInv, Linked, Renewing, Leaving, Granting
  <2> QED BY <2>1, <2>2
<1>6. CASE /\ tx' = [tx EXCEPT ![t].pc = "r_tokens", ![t].got = tx[t].saw]
           /\ UNCHANGED <<valid, issued>>
  <2>1. /\ TxFrame(t) /\ tx'[t].pc = "r_tokens" /\ tx'[t].saw = tx[t].saw
        /\ tx'[t].got = tx[t].saw /\ LockInv(t)'
    BY <1>3, <1>5, <1>6
  <2>2. TokenInv(t)'
    BY <1>1, <1>2, <1>3, <1>6, <2>1 DEF TokenInv, Granting
  <2> QED BY <1>1, <1>2, <1>4, <1>6, <2>1, <2>2, QuietKeepsInv
<1>7. CASE /\ issued < MaxTokens /\ issued' = issued + 1
           /\ valid' = (valid \ {tx[t].saw}) \cup {issued + 1}
           /\ tx' = [tx EXCEPT ![t].pc = "r_tokens", ![t].got = issued + 1]
  <2>1. /\ issued' \in Gens /\ issued + 1 \in Gens /\ issued <= issued'
        /\ issued' > issued /\ valid' \subseteq 1..issued' /\ spoiled \subseteq 1..issued'
        /\ token.gen <= issued' /\ issued + 1 \in valid'
        /\ \A g \in valid : g \in valid' \/ g = tx[t].saw
    BY <1>1, <1>7, Rotation
  <2>2. /\ TxFrame(t) /\ tx'[t].pc = "r_tokens" /\ tx'[t].saw = tx[t].saw
        /\ tx'[t].got = issued + 1 /\ LockInv(t)'
    BY <1>5, <1>7, <2>1
  <2>3. TokenFrame(t)
    BY <1>1, <1>2, <1>7, <2>1, <2>2 DEF TokenFrame, TypeOK
  <2>4. TokenInv(t)'
    <3>1. tx[t].saw <= issued' /\ issued + 1 <= issued'
      BY <1>1, <1>3, <1>7 DEF TokenInv
    <3> QED BY <1>1, <1>2, <1>3, <2>1, <2>2, <3>1 DEF TokenInv, Granting
  <2>5. StoredTokenLive'
    BY <1>1, <1>2, <2>1, <2>2 DEF VaultInv, StoredTokenLive, TxFrame
  <2>6. /\ LinkFrame(t) /\ ServeFrame(t) /\ NoOrphanGrant' /\ (~token'.there => token'.gen = 0)
        /\ grant' \in BOOLEAN
    BY <1>2, SameTables
  <2> QED BY <1>2, <1>4, <2>1, <2>2, <2>3, <2>4, <2>5, <2>6, StepKeepsInv DEF Frame
<1> QED BY <1>6, <1>7 DEF Refreshed

LEMMA InvalidGrantKeepsInv ==
  ASSUME VaultInv, NEW t \in Txs, InvalidGrant(t)
  PROVE  VaultInv'
<1>1. TypeOK /\ LockInv(t) /\ TokenInv(t) /\ tx[t].pc = "r_ask" /\ issued \in Nat
  BY TxType DEF VaultInv, InvalidGrant, At
<1>2. UNCHANGED <<valid, issued, spoiled, token, grant, acct, linked, slipped, lock>> /\ 0 \in Gens
  BY VaultAssumption DEF InvalidGrant, Gens
<1>3. /\ TxFrame(t) /\ tx'[t].pc = "r_invalid" /\ tx'[t].acct = tx[t].acct
      /\ tx'[t].saw = 0 /\ tx'[t].got = tx[t].got
  <2>1. "r_invalid" \in Steps
    BY DEF Steps
  <2> QED BY <1>1, <1>2, <2>1, SawType DEF InvalidGrant
<1>4. LockFrame(t)
  BY <1>1, <1>2 DEF TypeOK, LockFrame
<1>5. LockInv(t)'
  BY <1>1, <1>2, <1>3 DEF LockInv, Linked, Renewing, Leaving, Granting
<1>6. TokenInv(t)'
  BY <1>1, <1>2, <1>3 DEF TokenInv, Granting
<1> QED BY <1>1, <1>2, <1>3, <1>4, <1>5, <1>6, QuietKeepsInv

LEMMA AnswerLostKeepsInv ==
  ASSUME VaultInv, NEW t \in Txs, AnswerLost(t)
  PROVE  VaultInv'
<1>1. TypeOK /\ LockFrame(t) /\ tx[t].pc = "r_ask"
  BY ReleaseType DEF VaultInv, AnswerLost, At
<1>2. TxFrame(t)
  BY <1>1, OverType DEF AnswerLost
<1>3. /\ issued' \in Gens /\ issued <= issued' /\ valid' \subseteq 1..issued'
      /\ spoiled \subseteq 1..issued' /\ tx[t].saw \in 1..issued' /\ token.gen <= issued'
      /\ \A g \in valid : g \in valid' \/ g = tx[t].saw
  BY Rotation DEF AnswerLost
<1>4. spoiled' = spoiled \cup {tx[t].saw} /\ UNCHANGED <<token, grant, acct, linked, slipped>> /\ End(t)
  BY DEF AnswerLost
<1>5. spoiled' \subseteq 1..issued' /\ valid \cup spoiled \subseteq valid' \cup spoiled'
  BY <1>3, <1>4
<1>6. StoredTokenLive'
  BY <1>1, <1>2, <1>4, <1>5 DEF VaultInv, StoredTokenLive, TxFrame
<1> QED BY <1>1, <1>3, <1>4, <1>5, <1>6, SameTables, OverKeepsInv

-----------------------------------------------------------------------------
(* Commits that write the tokens row or the accounts. *)

\* The provider's side is untouched and the transaction's locks are given back.
Commits(t) ==
  /\ lock' = Released(t) /\ End(t)
  /\ UNCHANGED <<valid, issued, spoiled>>

LEMMA CommitKeepsInv ==
  ASSUME VaultInv, NEW t \in Txs, Commits(t), LinkFrame(t), ServeFrame(t), grant' \in BOOLEAN,
         token' \in TokenRows, token'.gen \in {token.gen, 0, tx[t].got},
         ~token'.there => token'.gen = 0,
         token.there /\ ~token'.there => tx[t].pc \in {"d_tokens", "g_tokens", "x_links"},
         StoredTokenLive', tx[t].pc # "d_leave" \/ NoOrphanGrant'
  PROVE  VaultInv'
<1>1. TypeOK /\ TokenInv(t) /\ issued \in Nat /\ tx[t].got \in Nat /\ End(t)
  BY TxType DEF VaultInv, Commits
<1>2. LockFrame(t)
  BY <1>1, ReleaseType DEF Commits
<1>3. UNCHANGED <<valid, issued, spoiled>>
  BY DEF Commits
<1>4. /\ issued' \in Gens /\ issued <= issued' /\ valid' \subseteq 1..issued'
      /\ spoiled' \subseteq 1..issued' /\ token'.gen <= issued'
  BY <1>1, <1>3 DEF TypeOK, VaultInv, TokenInv
<1>5. NoOrphanGrant'
  BY ServedKeepsNoOrphan
<1> QED BY <1>1, <1>2, <1>3, <1>4, <1>5, OverKeepsInv

\* A stored token that is neither changed nor carried by t stays as good as it was.
LEMMA SameTokenLive ==
  ASSUME VaultInv, NEW t \in Txs, Commits(t), token'.gen = token.gen,
         tx[t].pc \notin {"r_tokens", "r_grant"}
  PROVE  StoredTokenLive'
<1>1. TypeOK /\ TxFrame(t)
  BY OverType DEF VaultInv, Commits
<1>2. token'.gen # 0 => token.there
  BY DEF VaultInv
<1> QED BY <1>1, <1>2 DEF VaultInv, StoredTokenLive, TxFrame, Commits

LEMMA TokenRowType ==
  ASSUME NEW g \in Gens
  PROVE  Token(g) \in TokenRows /\ Token(g).gen = g /\ Token(g).there
BY DEF Token, TokenRows

\* The token was there when the renewal read it, so some account of the grant is
\* still connected.
LEMMA CommitRenewalKeepsInv ==
  ASSUME VaultInv, NEW t \in Txs, CommitRenewal(t)
  PROVE  VaultInv'
<1>1. TypeOK /\ TokenInv(t) /\ tx[t].pc = "r_grant" /\ tx[t].got \in Gens
  BY TxType DEF VaultInv, CommitRenewal, At
<1>2. Commits(t) /\ UNCHANGED <<acct, linked, slipped>> /\ grant' \in BOOLEAN
  BY <1>1 DEF CommitRenewal, Commits, Commit, TypeOK
<1>3. token' \in TokenRows /\ token'.gen = tx[t].got /\ token'.there /\ token.there
  BY <1>1, TokenRowType DEF CommitRenewal, TokenInv
<1>4. LinkFrame(t)
  BY <1>1, <1>2 DEF TypeOK, LinkFrame, Linked
<1>5. StoredTokenLive'
  BY <1>1, <1>2, <1>3 DEF StoredTokenLive, TokenInv, Commits
<1>6. ServeFrame(t)
  BY <1>2, <1>3 DEF ServeFrame, Live, Linked
<1> QED BY <1>1, <1>2, <1>3, <1>4, <1>5, <1>6, CommitKeepsInv

\* The accounts that need a new consent are still connected.
LEMMA CommitInvalidGrantKeepsInv ==
  ASSUME VaultInv, NEW t \in Txs, CommitInvalidGrant(t)
  PROVE  VaultInv'
<1>1. TypeOK /\ tx[t].pc = "r_siblings"
  BY DEF VaultInv, CommitInvalidGrant, At
<1>2. Commits(t) /\ UNCHANGED <<token, linked, slipped>> /\ grant' \in BOOLEAN
  BY <1>1 DEF CommitInvalidGrant, Commits, Commit, TypeOK
<1>3. Wanted(t) \subseteq Accounts /\ \A a \in Wanted(t) : lock[a] = t
  BY <1>1, WantedAccounts DEF CommitInvalidGrant, Missing, Held, TypeOK
<1>4. /\ acct' \in [Accounts -> AccountStatus]
      /\ \A a \in Accounts : acct'[a] = acct[a] \/ (lock[a] = t /\ acct'[a] = "reauth_required")
  BY <1>1, <1>3 DEF CommitInvalidGrant, TypeOK, AccountStatus
<1>5. LinkFrame(t)
  BY <1>1, <1>2, <1>4 DEF LinkFrame, Linked, TypeOK
<1>6. ServeFrame(t)
  BY <1>2, <1>4 DEF ServeFrame, Live, Linked, Dead
<1>7. token' \in TokenRows /\ (~token'.there => token'.gen = 0)
  BY <1>1, <1>2 DEF TypeOK, VaultInv
<1>8. StoredTokenLive'
  BY <1>1, <1>2, SameTokenLive
<1> QED BY <1>1, <1>2, <1>5, <1>6, <1>7, <1>8, CommitKeepsInv

LEMMA PromoteAccountKeepsInv ==
  ASSUME VaultInv, NEW t \in Txs, PromoteAccount(t)
  PROVE  VaultInv'
<1>1. /\ TypeOK /\ TokenInv(t) /\ tx[t].pc = "a_account" /\ tx[t].got \in Gens
      /\ token.gen \in Gens /\ tx[t].acct \in Accounts
  BY TxType DEF VaultInv, PromoteAccount, At, LockInv, Granting
<1>2. Commits(t) /\ grant' \in BOOLEAN /\ slipped' = FALSE
  BY <1>1 DEF PromoteAccount, Commits, Commit, TypeOK
<1>3. /\ token' \in TokenRows /\ token'.there
      /\ token'.gen = IF tx[t].got = 0 THEN token.gen ELSE tx[t].got
  BY <1>1, TokenRowType DEF PromoteAccount
<1>4. /\ acct' \in [Accounts -> AccountStatus] /\ acct'[tx[t].acct] = "active"
      /\ \A a \in Accounts \ {tx[t].acct} : acct'[a] = acct[a]
      /\ linked' = linked \cup {tx[t].acct} /\ linked' \subseteq Accounts
      /\ lock[tx[t].acct] \in {Nobody, t}
  BY <1>1 DEF PromoteAccount, TypeOK, AccountStatus
<1>5. LinkFrame(t)
  BY <1>1, <1>2, <1>4 DEF LinkFrame, Linked
<1>6. ServeFrame(t)
  <2>1. tx[t].acct \in linked' /\ acct'[tx[t].acct] \notin Dead
    BY <1>4 DEF Dead
  <2> QED BY <1>1, <1>4, <2>1 DEF ServeFrame, Live, Linked
<1>7. StoredTokenLive'
  <2>1. CASE tx[t].got = 0
    BY <1>1, <1>2, <1>3, <2>1, SameTokenLive
  <2>2. CASE tx[t].got # 0
    BY <1>1, <1>2, <1>3, <2>2 DEF TokenInv, StoredTokenLive, Commits, Granting
  <2> QED BY <2>1, <2>2
<1> QED BY <1>1, <1>2, <1>3, <1>5, <1>6, <1>7, CommitKeepsInv

\* Moving to another grant is recorded.
LEMMA MoveAccountKeepsInv ==
  ASSUME VaultInv, NEW t \in Txs, MoveAccount(t)
  PROVE  VaultInv'
<1>1. TypeOK /\ tx[t].pc = "m_account" /\ tx[t].acct \in Accounts
  BY DEF VaultInv, MoveAccount, At, LockInv
<1>2. Commits(t) /\ UNCHANGED <<token, grant>>
  BY DEF MoveAccount, Commits, Commit
<1>3. /\ acct' \in [Accounts -> AccountStatus]
      /\ \A a \in Accounts \ {tx[t].acct} : acct'[a] = acct[a]
      /\ linked' = linked \ {tx[t].acct} /\ linked' \subseteq Accounts
      /\ lock[tx[t].acct] \in {Nobody, t}
      /\ slipped' = (slipped \/ Live(tx[t].acct))
  BY <1>1 DEF MoveAccount, TypeOK, AccountStatus
<1>4. LinkFrame(t)
  <2>1. slipped' \in BOOLEAN
    BY <1>1, <1>3 DEF TypeOK, Live, Linked
  <2> QED BY <1>1, <1>3, <2>1 DEF LinkFrame, Linked
<1>5. ServeFrame(t)
  BY <1>2, <1>3 DEF ServeFrame, Live, Linked
<1>6. token' \in TokenRows /\ (~token'.there => token'.gen = 0) /\ grant' \in BOOLEAN
  BY <1>1, <1>2 DEF TypeOK, VaultInv
<1>7. StoredTokenLive'
  BY <1>1, <1>2, SameTokenLive
<1> QED BY <1>1, <1>2, <1>4, <1>5, <1>6, <1>7, CommitKeepsInv

\* A status written from an old read is recorded when it takes the account away,
\* and the record is dropped when it brings the account back.
LEMMA WriteStatusKeepsInv ==
  ASSUME VaultInv, NEW t \in Txs, WriteStatus(t)
  PROVE  VaultInv'
<1>1. TypeOK /\ tx[t].pc = "w_account" /\ tx[t].acct \in Accounts /\ tx[t].set \in AccountStatus
  BY TxType DEF VaultInv, WriteStatus, At, LockInv
<1>2. Commits(t) /\ UNCHANGED <<token, grant, linked>>
  BY DEF WriteStatus, Commits, Commit
<1>3. /\ acct' \in [Accounts -> AccountStatus] /\ acct'[tx[t].acct] = tx[t].set
      /\ \A a \in Accounts \ {tx[t].acct} : acct'[a] = acct[a]
      /\ lock[tx[t].acct] = Nobody
      /\ slipped' = ((slipped \/ Live(tx[t].acct)) /\ (Linked(tx[t].acct) => tx[t].set \in Dead))
  BY <1>1 DEF WriteStatus, TypeOK
<1>4. LinkFrame(t)
  <2>1. slipped' \in BOOLEAN
    BY <1>1, <1>3 DEF TypeOK, Live, Linked
  <2> QED BY <1>1, <1>2, <1>3, <2>1 DEF LinkFrame, Linked, TypeOK
<1>5. ServeFrame(t)
  BY <1>1, <1>2, <1>3 DEF ServeFrame, Live, Linked
<1>6. token' \in TokenRows /\ (~token'.there => token'.gen = 0) /\ grant' \in BOOLEAN
  BY <1>1, <1>2 DEF TypeOK, VaultInv
<1>7. StoredTokenLive'
  BY <1>1, <1>2, SameTokenLive
<1> QED BY <1>1, <1>2, <1>4, <1>5, <1>6, <1>7, CommitKeepsInv

-----------------------------------------------------------------------------
(* Disconnection *)

\* A disconnection that is not the last has counted an active sibling.
LEMMA CountSiblingsKeepsInv ==
  ASSUME VaultInv, NEW t \in Txs, CountSiblings(t)
  PROVE  VaultInv'
<1>1. TypeOK /\ LockInv(t) /\ tx[t].pc = "d_count" /\ tx[t].acct \in Accounts
  BY DEF VaultInv, CountSiblings, At, LockInv, Leaving
<1>2. UNCHANGED <<valid, issued, spoiled, token, grant, acct, linked, slipped, lock>>
  BY DEF CountSiblings
<1>3. PICK step \in {"d_revoke", "d_leave"} : Go(t, step) /\ (step = "d_leave" => ~LastOnGrant(t))
  BY DEF CountSiblings
<1>4. step \in Steps \ {"r_ask"}
  BY DEF Steps
<1>5. /\ tx'[t].pc = step /\ tx'[t].acct = tx[t].acct /\ tx'[t].set = tx[t].set
  BY <1>1, <1>3, <1>4, GoType
<1>6. step = "d_leave" => SiblingStays(t)'
  BY <1>1, <1>2, <1>3, <1>5 DEF LastOnGrant, SiblingStays, Live, Linked, Dead, TypeOK
<1>7. LockInv(t)'
  BY <1>1, <1>2, <1>5, <1>6 DEF LockInv, Linked, Renewing, Leaving, Granting
<1>8. LockFrame(t)
  BY <1>1, <1>2 DEF TypeOK, LockFrame
<1> QED BY <1>1, <1>2, <1>3, <1>4, <1>7, <1>8, GoKeepsInv DEF Granting

\* The sibling is still there, or what took it away is on record.
LEMMA CommitLeaveKeepsInv ==
  ASSUME VaultInv, NEW t \in Txs, CommitLeave(t)
  PROVE  VaultInv'
<1>1. /\ TypeOK /\ tx[t].pc = "d_leave" /\ tx[t].acct \in Accounts /\ lock[tx[t].acct] = t
      /\ SiblingStays(t) /\ tx[t].set \in AccountStatus
  BY TxType DEF VaultInv, CommitLeave, At, LockInv, Leaving
<1>2. Commits(t) /\ UNCHANGED <<token, grant, linked, slipped>>
  BY DEF CommitLeave, Commits, Commit
<1>3. /\ acct' \in [Accounts -> AccountStatus] /\ acct'[tx[t].acct] = tx[t].set
      /\ \A a \in Accounts \ {tx[t].acct} : acct'[a] = acct[a]
  BY <1>1 DEF CommitLeave, TypeOK
<1>4. LinkFrame(t)
  BY <1>1, <1>2, <1>3 DEF LinkFrame, Linked, TypeOK
<1>5. ServeFrame(t)
  BY <1>1, <1>2 DEF ServeFrame
<1>6. NoOrphanGrant'
  <2>1. CASE acct[tx[t].acct] = tx[t].set
    BY <1>1, <1>2, <1>3, <2>1 DEF VaultInv, NoOrphanGrant, Live, Linked
  <2>2. CASE token.there => slipped \/ \E b \in Accounts : b # tx[t].acct /\ Live(b)
    BY <1>2, <1>3, <2>2 DEF NoOrphanGrant, Live, Linked
  <2> QED BY <1>1, <2>1, <2>2 DEF SiblingStays
<1>7. token' \in TokenRows /\ (~token'.there => token'.gen = 0) /\ grant' \in BOOLEAN
  BY <1>1, <1>2 DEF TypeOK, VaultInv
<1>8. StoredTokenLive'
  BY <1>1, <1>2, SameTokenLive
<1> QED BY <1>1, <1>2, <1>4, <1>5, <1>6, <1>7, <1>8, CommitKeepsInv

\* A callback made for another grant: this one goes on as before.
LEMMA RevokeRemoteOtherKeepsInv ==
  ASSUME VaultInv, NEW t \in Txs, RevokeRemoteOther(t)
  PROVE  VaultInv'
<1>1. TypeOK /\ LockInv(t) /\ tx[t].pc = "d_revoke"
  BY DEF VaultInv, RevokeRemoteOther, At
<1>2. UNCHANGED <<valid, issued, spoiled, token, grant, acct, linked, slipped, lock>>
  BY DEF RevokeRemoteOther
<1>3. PICK step \in {"x_tokens", "d_grant"} : Go(t, step)
  BY DEF RevokeRemoteOther, AfterRevoke
<1>4. step \in Steps \ {"r_ask"}
  BY DEF Steps
<1>5. tx'[t].pc = step /\ tx'[t].acct = tx[t].acct
  BY <1>1, <1>3, <1>4, GoType
<1>7. LockInv(t)'
  BY <1>1, <1>2, <1>5 DEF LockInv, Linked, Renewing, Leaving, Granting
<1>8. LockFrame(t)
  BY <1>1, <1>2 DEF TypeOK, LockFrame
<1> QED BY <1>1, <1>2, <1>3, <1>4, <1>7, <1>8, GoKeepsInv DEF Granting

\* The provider's revocation is recorded: what it accepted is now spoiled.
LEMMA RevokedKeepsInv ==
  ASSUME VaultInv, NEW t \in Txs, RevokeRemote(t) \/ RevokeGrant(t)
  PROVE  VaultInv'
<1>a. PICK step \in Steps :
        /\ Revoked /\ Go(t, step)
        /\ \/ tx[t].pc = "d_revoke" /\ step \in {"d_grant", "x_tokens"}
           \/ tx[t].pc = "g_revoke" /\ step = "g_tokens"
  BY DEF RevokeRemote, RevokeGrant, AfterRevoke, At, Steps
<1>1. TypeOK /\ LockInv(t) /\ TokenInv(t) /\ issued \in Nat
  BY TxType DEF VaultInv
<1>2. /\ TxFrame(t) /\ tx'[t].pc = step /\ tx'[t].acct = tx[t].acct
      /\ tx'[t].saw = tx[t].saw /\ tx'[t].got = tx[t].got
  BY <1>a, <1>1, GoType
<1>3. UNCHANGED <<issued, token, grant, acct, linked, slipped, lock>> /\ valid' \cup spoiled' = valid \cup spoiled
  BY <1>a DEF Revoked, RevokeRemote, RevokeGrant
<1>4. LockFrame(t)
  BY <1>1, <1>3 DEF TypeOK, LockFrame
<1>5. LockInv(t)'
  BY <1>a, <1>1, <1>2, <1>3 DEF LockInv, Linked, Renewing, Leaving, Granting
<1>6. TokenInv(t)'
  BY <1>a, <1>1, <1>2, <1>3 DEF TokenInv, Granting
<1>7. valid' \subseteq 1..issued' /\ spoiled' \subseteq 1..issued'
  BY <1>a, <1>1, <1>3 DEF Revoked, TypeOK
<1>8. TokenFrame(t)
  BY <1>1, <1>2, <1>3, <1>7 DEF TokenFrame, TypeOK
<1>9. StoredTokenLive'
  BY <1>a, <1>2, <1>3 DEF VaultInv, StoredTokenLive, TxFrame
<1>10. /\ LinkFrame(t) /\ ServeFrame(t) /\ NoOrphanGrant' /\ (~token'.there => token'.gen = 0)
       /\ grant' \in BOOLEAN /\ token'.gen <= issued'
  BY <1>3, SameTables DEF VaultInv
<1> QED BY <1>2, <1>4, <1>5, <1>6, <1>8, <1>9, <1>10, StepKeepsInv DEF Frame

LEMMA NoTokenType == NoToken \in TokenRows /\ NoToken.gen = 0 /\ ~NoToken.there
<1>1. 0 \in Gens
  BY VaultAssumption DEF Gens
<1> QED BY <1>1 DEF NoToken, TokenRows

\* The tokens go with the last account.
LEMMA TokensGoneKeepsInv ==
  ASSUME VaultInv, NEW t \in Txs, tx[t].pc \in {"d_tokens", "g_tokens", "x_links"},
         Commit(t), UNCHANGED <<valid, issued, spoiled>>, token' = NoToken, slipped' = FALSE,
         grant' \in BOOLEAN, acct' \in [Accounts -> AccountStatus], linked' \subseteq linked,
         \A a \in Accounts : lock[a] = t \/ (acct'[a] = acct[a] /\ (Linked(a) => Linked(a)'))
  PROVE  VaultInv'
<1>1. TypeOK
  BY DEF VaultInv
<1>2. Commits(t)
  BY DEF Commits, Commit
<1>3. token' \in TokenRows /\ token'.gen = 0 /\ ~token'.there
  BY NoTokenType
<1>4. LinkFrame(t)
  BY <1>1 DEF LinkFrame, Linked, TypeOK
<1>5. StoredTokenLive' /\ ServeFrame(t)
  BY <1>3 DEF StoredTokenLive, ServeFrame
<1> QED BY <1>1, <1>2, <1>3, <1>4, <1>5, CommitKeepsInv

LEMMA CommitDisconnectKeepsInv ==
  ASSUME VaultInv, NEW t \in Txs, CommitDisconnect(t)
  PROVE  VaultInv'
<1>1. TypeOK /\ tx[t].pc = "d_tokens" /\ tx[t].acct \in Accounts /\ lock[tx[t].acct] = t
  BY DEF VaultInv, CommitDisconnect, At, LockInv, Leaving
<1>2. /\ acct' \in [Accounts -> AccountStatus] /\ grant' \in BOOLEAN
      /\ \A a \in Accounts : lock[a] = t \/ (acct'[a] = acct[a] /\ (Linked(a) => Linked(a)'))
  BY <1>1 DEF CommitDisconnect, TypeOK, Linked, AccountStatus, Dead
<1> QED BY <1>1, <1>2, TokensGoneKeepsInv DEF CommitDisconnect

\* The deletion holds every account it unlinks.
LEMMA CommitDeleteKeepsInv ==
  ASSUME VaultInv, NEW t \in Txs, CommitDelete(t)
  PROVE  VaultInv'
<1>1. TypeOK /\ tx[t].pc = "x_links" /\ tx[t].acct \in Accounts /\ lock[tx[t].acct] = t
  BY DEF VaultInv, CommitDelete, At, LockInv, Leaving
<1>2. \A a \in linked : lock[a] = t
  BY <1>1, WantedAccounts DEF CommitDelete, Missing, Held, TypeOK
<1>3. /\ acct' \in [Accounts -> AccountStatus] /\ linked' = {} /\ grant' \in BOOLEAN
      /\ \A a \in Accounts \ {tx[t].acct} : acct'[a] = acct[a]
  BY <1>1 DEF CommitDelete, TypeOK, AccountStatus, Dead
<1>4. \A a \in Accounts : lock[a] = t \/ (acct'[a] = acct[a] /\ (Linked(a) => Linked(a)'))
  BY <1>1, <1>2, <1>3 DEF Linked
<1> QED BY <1>1, <1>3, <1>4, TokensGoneKeepsInv DEF CommitDelete

LEMMA CommitDisconnectGrantKeepsInv ==
  ASSUME VaultInv, NEW t \in Txs, CommitDisconnectGrant(t)
  PROVE  VaultInv'
<1>1. TypeOK /\ tx[t].pc = "g_tokens" /\ \A a \in Accounts : Linked(a) => lock[a] = t
  BY DEF VaultInv, CommitDisconnectGrant, At, LockInv
<1>2. /\ acct' \in [Accounts -> AccountStatus] /\ grant' \in BOOLEAN
      /\ \A a \in Accounts : lock[a] = t \/ (acct'[a] = acct[a] /\ (Linked(a) => Linked(a)'))
  BY <1>1 DEF CommitDisconnectGrant, TypeOK, Linked, AccountStatus, Dead
<1> QED BY <1>1, <1>2, TokensGoneKeepsInv DEF CommitDisconnectGrant

\* The account is on another grant: leaving it does not touch this one, except
\* that the revocation may be this one's.
LEMMA LeaveOtherGrantKeepsInv ==
  ASSUME VaultInv, NEW t \in Txs, LeaveOtherGrant(t)
  PROVE  VaultInv'
<1>1. /\ TypeOK /\ tx[t].pc = "d_account" /\ tx[t].acct \in Accounts /\ ~Linked(tx[t].acct)
      /\ tx[t].set \in AccountStatus /\ issued \in Nat /\ lock[tx[t].acct] = Nobody
  BY TxType DEF VaultInv, LeaveOtherGrant, At, LockInv
<1>2. UNCHANGED <<issued, token, grant, linked, slipped>> /\ End(t) /\ lock' = Released(t)
  BY DEF LeaveOtherGrant, Commit
<1>3. /\ acct' \in [Accounts -> AccountStatus]
      /\ \A a \in Accounts \ {tx[t].acct} : acct'[a] = acct[a]
  BY <1>1 DEF LeaveOtherGrant, TypeOK
<1>4. LinkFrame(t)
  BY <1>1, <1>2, <1>3 DEF LinkFrame, Linked, TypeOK
<1>5. ServeFrame(t)
  BY <1>1, <1>2, <1>3 DEF ServeFrame, Live, Linked
<1>6. NoOrphanGrant'
  BY <1>1, <1>5, ServedKeepsNoOrphan
<1>7. /\ valid' \cup spoiled' = valid \cup spoiled
      /\ valid' \subseteq 1..issued' /\ spoiled' \subseteq 1..issued'
  BY <1>1, <1>2 DEF LeaveOtherGrant, Revoked, TypeOK
<1>8. LockFrame(t) /\ TxFrame(t)
  BY <1>1, <1>2, ReleaseType, OverType
<1>9. StoredTokenLive'
  BY <1>1, <1>2, <1>7, <1>8 DEF VaultInv, StoredTokenLive, TxFrame
<1>10. /\ issued' \in Gens /\ issued <= issued' /\ token' \in TokenRows /\ token'.gen <= issued'
       /\ (~token'.there => token'.gen = 0) /\ grant' \in BOOLEAN
  BY <1>1, <1>2 DEF TypeOK, VaultInv
<1> QED BY <1>2, <1>4, <1>5, <1>6, <1>7, <1>8, <1>9, <1>10, OverKeepsInv

-----------------------------------------------------------------------------
(* The environment, and the invariant. *)

LEMMA EnvironmentKeepsInv ==
  ASSUME VaultInv, UserRevokes
  PROVE  VaultInv'
<1>1. TypeOK
  BY DEF VaultInv
<1>2. UNCHANGED <<issued, grant, acct, linked, slipped, lock, tx>> /\ valid' \cup spoiled' = valid \cup spoiled
  BY DEF UserRevokes
<1>3. token'.gen = token.gen /\ token'.there = token.there /\ token' \in TokenRows
  BY <1>1 DEF UserRevokes, TypeOK, TokenRows
<1>4. valid' \subseteq 1..issued' /\ spoiled' \subseteq 1..issued'
  BY <1>1, <1>2 DEF TypeOK
<1>5. TypeOK'
  BY <1>1, <1>2, <1>3, <1>4 DEF TypeOK
<1>6. \A t \in Txs : LockInv(t)' /\ TokenInv(t)'
  BY <1>2, <1>3 DEF VaultInv, LockInv, TokenInv, Linked, SiblingStays, Live
<1>7. StoredTokenLive'
  BY <1>2, <1>3 DEF VaultInv, StoredTokenLive
<1>8. NoOrphanGrant'
  BY <1>2, <1>3 DEF VaultInv, NoOrphanGrant, Live, Linked
<1> QED BY <1>2, <1>3, <1>5, <1>6, <1>7, <1>8 DEF VaultInv

\* A mark writes only rows nobody holds, and keeps every account on the grant.
LEMMA MarkReauthKeepsInv ==
  ASSUME VaultInv, NEW rows \in SUBSET Accounts, NEW spared, MarkReauth(rows, spared)
  PROVE  VaultInv'
<1>1. TypeOK
  BY DEF VaultInv
<1>2. UNCHANGED <<valid, issued, spoiled, token, grant, linked, slipped, lock, tx>>
  BY DEF MarkReauth
<1>3. /\ acct' \in [Accounts -> AccountStatus]
      /\ \A a \in Accounts : acct'[a] = acct[a] \/ (lock[a] = Nobody /\ acct'[a] = "reauth_required")
  BY <1>1 DEF MarkReauth, TypeOK, AccountStatus
<1>4. \A a \in Accounts : (Linked(a)' <=> Linked(a)) /\ (Live(a) => Live(a)')
  BY <1>2, <1>3 DEF Live, Linked, Dead
<1>5. TypeOK'
  BY <1>1, <1>2, <1>3 DEF TypeOK
<1>6. ASSUME NEW t \in Txs
      PROVE  LockInv(t)' /\ TokenInv(t)'
  <2>1. TokenInv(t)'
    BY <1>2 DEF VaultInv, TokenInv
  <2>2. LockInv(t) /\ t # Nobody
    BY <1>1, TxType DEF VaultInv
  <2>3. tx[t].pc = "d_leave" => SiblingStays(t)'
    <3>1. tx[t].pc = "d_leave" => acct'[tx[t].acct] = acct[tx[t].acct] /\ SiblingStays(t)
      BY <1>3, <2>2 DEF LockInv, Leaving
    <3> QED BY <1>2, <1>4, <3>1 DEF SiblingStays
  <2> QED BY <1>2, <2>1, <2>2, <2>3 DEF LockInv, Linked
<1>7. StoredTokenLive'
  BY <1>2 DEF VaultInv, StoredTokenLive
<1>8. NoOrphanGrant'
  BY <1>2, <1>4 DEF VaultInv, NoOrphanGrant
<1> QED BY <1>2, <1>5, <1>6, <1>7, <1>8 DEF VaultInv

LEMMA MarksKeepInv ==
  ASSUME VaultInv, MarkConnectionReauth \/ \E a \in Accounts : MarkSnapshotTerminal(a)
  PROVE  VaultInv'
<1>1. linked \in SUBSET Accounts
  BY DEF VaultInv, TypeOK
<1>2. CASE MarkConnectionReauth
  BY <1>1, <1>2, MarkReauthKeepsInv DEF MarkConnectionReauth
<1>3. ASSUME NEW a \in Accounts, MarkSnapshotTerminal(a)
      PROVE  VaultInv'
  <2>1. (IF Linked(a) THEN linked ELSE {a}) \in SUBSET Accounts
    BY <1>1
  <2> QED BY <1>3, <2>1, MarkReauthKeepsInv DEF MarkSnapshotTerminal
<1> QED BY <1>2, <1>3

LEMMA BeginsKeepInv ==
  ASSUME VaultInv, NEW t \in Txs, Begin(t)
  PROVE  VaultInv'
<1>1. PICK a \in Accounts :
        \/ Renew(t, a) \/ AuthorizeChannel(t, a) \/ AuthorizeElsewhere(t, a)
        \/ Disconnect(t, a) \/ PermanentlyDelete(t, a) \/ DisconnectGrant(t, a)
        \/ UpdatePlatformAccount(t, a)
  BY DEF Begin
<1>2. CASE Renew(t, a)
  BY <1>2, StartsKeepsInv DEF Renew
<1>3. CASE AuthorizeChannel(t, a)
  BY <1>3, AuthorizeKeepsInv
<1>4. CASE AuthorizeElsewhere(t, a)
  BY <1>4, StartsKeepsInv DEF AuthorizeElsewhere
<1>5. CASE Disconnect(t, a) \/ PermanentlyDelete(t, a)
  <2>1. "disconnected" \in AccountStatus /\ "deleted" \in AccountStatus
    BY DEF AccountStatus, Dead
  <2> QED BY <1>5, <2>1, LeavesKeepsInv DEF Disconnect, PermanentlyDelete
<1>6. CASE DisconnectGrant(t, a)
  BY <1>6, StartsKeepsInv DEF DisconnectGrant
<1>7. CASE UpdatePlatformAccount(t, a)
  BY <1>7, UpdatePlatformAccountKeepsInv
<1> QED BY <1>1, <1>2, <1>3, <1>4, <1>5, <1>6, <1>7

LEMMA LockStepKeepsInv ==
  ASSUME VaultInv, NEW t \in Txs, LockStep(t)
  PROVE  VaultInv'
<1>1. CASE \/ LockAccount(t) \/ LockGrant(t) \/ SaveTokenTx(t) \/ CommitRenewal(t)
           \/ MarkInvalidGrantTx(t) \/ LockSibling(t) \/ UpsertGrant(t) \/ UpsertTokens(t)
           \/ PromoteAccount(t) \/ MoveAccount(t)
  BY <1>1, LockAccountKeepsInv, LockGrantKeepsInv, SaveTokenTxKeepsInv, CommitRenewalKeepsInv,
     MarkInvalidGrantTxKeepsInv, LockSiblingKeepsInv, UpsertGrantKeepsInv, UpsertTokensKeepsInv,
     PromoteAccountKeepsInv, MoveAccountKeepsInv
<1>2. CASE \/ LockForDisconnect(t) \/ LockGrantForDisconnect(t) \/ LeaveOtherGrant(t)
           \/ DisconnectGrantRow(t) \/ CommitDisconnect(t) \/ DeleteTokens(t) \/ DeleteGrantRow(t)
           \/ NullLink(t)
  BY <1>2, LockForDisconnectKeepsInv, LockGrantForDisconnectKeepsInv, LeaveOtherGrantKeepsInv,
     DisconnectGrantRowKeepsInv, CommitDisconnectKeepsInv, DeleteTokensKeepsInv,
     DeleteGrantRowKeepsInv, LockSiblingKeepsInv
<1>3. CASE \/ LockGrantRow(t) \/ LockLinkedAccount(t) \/ CommitDisconnectGrant(t) \/ WriteStatus(t)
  BY <1>3, LockGrantRowKeepsInv, LockLinkedAccountKeepsInv, CommitDisconnectGrantKeepsInv,
     WriteStatusKeepsInv
<1>4. CASE ConnectionChanged(t) \/ AlreadyDeleted(t)
  BY <1>4, RollbackKeepsInv DEF ConnectionChanged, AlreadyDeleted
<1> QED BY <1>1, <1>2, <1>3, <1>4 DEF LockStep

LEMMA FreeStepKeepsInv ==
  ASSUME VaultInv, NEW t \in Txs, FreeStep(t) \/ TimesOut(t)
  PROVE  VaultInv'
<1>1. CASE \/ FindInsideLock(t) \/ Refreshed(t) \/ InvalidGrant(t) \/ AnswerLost(t)
           \/ CommitInvalidGrant(t) \/ InsertGrant(t) \/ CountSiblings(t) \/ CommitLeave(t)
           \/ CommitDelete(t)
  BY <1>1, FindInsideLockKeepsInv, RefreshedKeepsInv, InvalidGrantKeepsInv, AnswerLostKeepsInv,
     CommitInvalidGrantKeepsInv, InsertGrantKeepsInv, CountSiblingsKeepsInv, CommitLeaveKeepsInv,
     CommitDeleteKeepsInv
<1>2. CASE RevokeRemote(t) \/ RevokeRemoteOther(t) \/ RevokeGrant(t)
  BY <1>2, RevokedKeepsInv, RevokeRemoteOtherKeepsInv
<1>3. CASE RefreshFails(t) \/ SaveFails(t) \/ GrantLost(t)
  BY <1>3, RollbackKeepsInv DEF RefreshFails, SaveFails, GrantLost
<1>4. CASE RevokeRemoteFails(t) \/ RevokeGrantFails(t) \/ DeadlockVictim(t) \/ TimesOut(t)
  BY <1>4, RollbackKeepsInv DEF RevokeRemoteFails, RevokeGrantFails, DeadlockVictim, TimesOut
<1> QED BY <1>1, <1>2, <1>3, <1>4 DEF FreeStep

LEMMA VaultInvInit ==
  ASSUME Init
  PROVE  VaultInv
<1>1. 0 \in Gens /\ 1 \in Gens
  BY VaultAssumption DEF Gens
<1>2. token \in TokenRows /\ token.gen = 1 /\ token.there
  BY <1>1, TokenRowType DEF Init
<1>3. Idle \in TxRec /\ \A t \in Txs : tx[t] = Idle
  BY <1>1 DEF Init, Idle, TxRec, Steps, AccountStatus
<1>4. TypeOK
  <2>1. acct \in [Accounts -> AccountStatus] /\ linked \subseteq Accounts /\ slipped \in BOOLEAN
    BY DEF Init, AccountStatus, Dead
  <2>2. tx \in [Txs -> TxRec]
    BY <1>3 DEF Init
  <2>3. issued \in Gens /\ valid \subseteq 1..issued /\ spoiled \subseteq 1..issued
    BY <1>1 DEF Init
  <2> QED BY <1>2, <2>1, <2>2, <2>3 DEF Init, TypeOK, TxRec
<1>5. \A t \in Txs : LockInv(t)
  BY <1>3 DEF Idle, LockInv, Renewing, Leaving, Granting
<1>6. \A t \in Txs : TokenInv(t)
  BY <1>3 DEF Init, Idle, TokenInv, Granting
<1>7. StoredTokenLive /\ NoOrphanGrant
  BY <1>2 DEF Init, StoredTokenLive, NoOrphanGrant, Live, Linked, Dead
<1>8. token.gen <= issued
  BY <1>2 DEF Init
<1> QED BY <1>2, <1>4, <1>5, <1>6, <1>7, <1>8 DEF VaultInv

LEMMA VaultInvNext ==
  ASSUME VaultInv, [Next]_vars
  PROVE  VaultInv'
<1>1. CASE Next
  BY <1>1, BeginsKeepInv, LockStepKeepsInv, FreeStepKeepsInv, MarksKeepInv, EnvironmentKeepsInv DEF Next
<1>2. CASE UNCHANGED vars
  BY <1>2 DEF vars, VaultInv, TypeOK, LockInv, TokenInv, SiblingStays, Live, Linked, StoredTokenLive,
     NoOrphanGrant
<1> QED BY <1>1, <1>2

LEMMA VaultInvAlways == Spec => []VaultInv
BY VaultInvInit, VaultInvNext, PTL DEF Spec

-----------------------------------------------------------------------------
\* The vault's tables, locks and transactions are well typed, for any accounts,
\* transactions, operations, faults and number of refresh tokens.
THEOREM VaultTypeCorrect == Spec => []TypeOK
<1>1. VaultInv => TypeOK
  BY DEF VaultInv
<1> QED BY <1>1, VaultInvAlways, PTL

\* A renewal never presents a refresh token that a committed renewal has
\* replaced: what the provider refuses was revoked there or lost by a failure.
THEOREM NoDoubleSpendAlways == Spec => []NoDoubleSpend
<1>1. VaultInv => NoDoubleSpend
  BY DEF VaultInv, TokenInv, NoDoubleSpend, At
<1> QED BY <1>1, VaultInvAlways, PTL

\* The stored refresh token is one the provider accepts, unless its replacement is
\* on its way to the commit or its loss has been recorded.
THEOREM StoredTokenLiveAlways == Spec => []StoredTokenLive
<1>1. VaultInv => StoredTokenLive
  BY DEF VaultInv
<1> QED BY <1>1, VaultInvAlways, PTL

\* Whichever disconnections, deletions, renewals and callbacks race, the tokens of
\* a grant go with the last account that uses it; only an account that moved to
\* another grant, or a status written from an old read, leaves them behind.
THEOREM NoOrphanGrantAlways == Spec => []NoOrphanGrant
<1>1. VaultInv => NoOrphanGrant
  BY DEF VaultInv
<1> QED BY <1>1, VaultInvAlways, PTL

\* Tokens that a disconnection deleted come back with a new authorization only,
\* never with the commit of a renewal that was in flight.
THEOREM NoResurrectionAlways == Spec => NoResurrection
<1> DEFINE Back == ~token.there /\ token'.there
<1>1. ASSUME VaultInv, Next, Back
      PROVE  \E t \in Txs : At(t, "a_account")
  <2>1. ASSUME NEW t \in Txs, Begin(t) \/ TimesOut(t)
        PROVE  FALSE
    BY <1>1, <2>1 DEF Begin, Renew, AuthorizeChannel, AuthorizeElsewhere, Leaves, Disconnect,
       PermanentlyDelete, DisconnectGrant, UpdatePlatformAccount, TimesOut, Rollback
  <2>2. ASSUME NEW t \in Txs, FreeStep(t)
        PROVE  FALSE
    <3>1. CASE CommitDelete(t)
      BY <1>1, <3>1, NoTokenType DEF CommitDelete
    <3>2. CASE ~CommitDelete(t)
      BY <1>1, <2>2, <3>2 DEF FreeStep, FindInsideLock, Refreshed, InvalidGrant, RefreshFails,
         AnswerLost, SaveFails, CommitInvalidGrant, InsertGrant, CountSiblings, CommitLeave,
         RevokeRemote, RevokeRemoteOther, RevokeRemoteFails, GrantLost, RevokeGrant,
         RevokeGrantFails, DeadlockVictim, Rollback
    <3> QED BY <3>1, <3>2
  <2>3. ASSUME NEW t \in Txs, LockStep(t)
        PROVE  At(t, "a_account")
    <3>1. CASE PromoteAccount(t)
      BY <3>1 DEF PromoteAccount
    <3>2. CASE CommitRenewal(t)
      BY <1>1, <3>2 DEF VaultInv, TokenInv, CommitRenewal, At
    <3>3. CASE CommitDisconnect(t) \/ CommitDisconnectGrant(t)
      BY <1>1, <3>3, NoTokenType DEF CommitDisconnect, CommitDisconnectGrant
    <3>4. CASE ~(PromoteAccount(t) \/ CommitRenewal(t) \/ CommitDisconnect(t) \/ CommitDisconnectGrant(t))
      BY <1>1, <2>3, <3>4 DEF LockStep, LockAccount, ConnectionChanged, LockGrant, SaveTokenTx,
         MarkInvalidGrantTx, LockSibling, UpsertGrant, UpsertTokens, MoveAccount,
         LockForDisconnect, AlreadyDeleted, LeaveOtherGrant, LockGrantForDisconnect,
         DisconnectGrantRow, DeleteTokens, DeleteGrantRow, NullLink, LockGrantRow,
         LockLinkedAccount, WriteStatus, Rollback
    <3> QED BY <3>1, <3>2, <3>3, <3>4
  <2>5. ASSUME MarkConnectionReauth \/ \E a \in Accounts : MarkSnapshotTerminal(a)
        PROVE  FALSE
    BY <1>1, <2>5 DEF MarkConnectionReauth, MarkSnapshotTerminal, MarkReauth
  <2>4. ASSUME UserRevokes
        PROVE  FALSE
    BY <1>1, <2>4 DEF UserRevokes
  <2> QED BY <1>1, <2>1, <2>2, <2>3, <2>4, <2>5 DEF Next
<1>2. ASSUME VaultInv, [Next]_vars
      PROVE  [Back => \E t \in Txs : At(t, "a_account")]_vars
  BY <1>1, <1>2
<1> QED BY <1>2, VaultInvAlways, PTL DEF Spec, NoResurrection
=============================================================================
